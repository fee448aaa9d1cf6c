----------------------------- MODULE AlertRules -----------------------------
(***************************************************************************)
(* The alert rules of the administration console: TelegramPanel, its form,  *)
(* its list, and the rules on the server.                                   *)
(*                                                                         *)
(* Every button starts a chain of requests, the change and then the list,   *)
(* and no button is disabled meanwhile.  Of a rule we keep whether it is on, *)
(* where it sends and its server.  Rules that name a bot by its number, which *)
(* this panel does not make, are left out, and so is the message by hand.    *)
(***************************************************************************)
EXTENDS Naturals

CONSTANTS
  Channels,     \* the configured notification channels, as they are listed
  TargetsIn,    \* the targets of every channel, as they are listed
  Chain,        \* bound: chains of requests at once
  MaxRule,      \* bound: rules ever made
  MaxChange     \* bound: changes asked for

\* A channel that lists no target has its default one (rows.length ? rows : fallback),
\* and so has the choice of none.
ASSUME AlertAssumption ==
  /\ MaxRule \in Nat \ {0} /\ MaxChange \in Nat
  /\ "" \notin DOMAIN TargetsIn
  /\ \A c \in DOMAIN TargetsIn : 1 \in DOMAIN TargetsIn[c]

VARIABLES
  vRules,    \* the server's rules
  vMade,     \* the number of the newest one
  vShown,    \* the list, as the panel has it
  vKnown,    \* the channels the form offers
  vForm,     \* the form
  vChains,   \* the requests under way
  vAsked,    \* how many changes were asked for
  vWhole     \* history: the last list came by a chain that was alone

alertVars == <<vRules, vMade, vShown, vKnown, vForm, vChains, vAsked, vWhole>>

RuleId == 1..MaxRule
NoRule == [on |-> FALSE, to |-> "absent", server |-> 0]
Target == {"default"} \union UNION {{TargetsIn[c][i] : i \in DOMAIN TargetsIn[c]} :
                                     c \in DOMAIN TargetsIn}
NoChain == [op |-> "none", pc |-> "idle", id |-> 0, rule |-> NoRule, alone |-> FALSE,
            data |-> [r \in RuleId |-> NoRule]]
Quiet == \A c \in Chain : vChains[c] = NoChain

-----------------------------------------------------------------------------
(* The form.                                                                *)

\* _targetsForRuleChannel: what it knows of the channel, or its default.
TargetsOf(channel) ==
  IF channel \in DOMAIN TargetsIn THEN TargetsIn[channel] ELSE <<"default">>

\* _selectionFromRule, if the channel is offered.
ChannelOf(rule, known) ==
  LET of == {i \in DOMAIN known :
               /\ known[i] # "telegram"   \* its targets do not name the channel
               /\ \E j \in DOMAIN TargetsOf(known[i]) : TargetsOf(known[i])[j] = rule.to}
  IN  IF of = {} THEN "" ELSE known[CHOOSE i \in of : TRUE]

Choose(form, channel, wanted) ==
  LET targets == TargetsOf(channel)
      there == \E i \in DOMAIN targets : targets[i] = wanted
  IN  [form EXCEPT !.channel = channel, !.to = IF there THEN wanted ELSE targets[1]]

\* The options are made anew: the first channel and its first target are chosen.
RenderBotOptions(form, known) == Choose(form, known[1], "")

EmptyForm == [editing |-> 0, channel |-> "", to |-> "default", server |-> 0, on |-> TRUE]

AlertInit ==
  /\ \E to \in Target \ {"default"} :
       vRules = [r \in RuleId |-> IF r = 1 THEN [on |-> TRUE, to |-> to, server |-> 0]
                                  ELSE NoRule]
  /\ vMade = 1 /\ vShown = [r \in RuleId |-> NoRule]
  /\ vKnown = <<>> /\ vForm = EmptyForm
  /\ vChains = [c \in Chain |-> NoChain] /\ vAsked = 0 /\ vWhole = FALSE

\* From the address of the console.
PrefillRule ==
  /\ vForm' = [vForm EXCEPT !.server = 1]
  /\ UNCHANGED <<vRules, vMade, vShown, vKnown, vChains, vAsked, vWhole>>

RenderRuleTargetOptions(channel) ==
  /\ \E i \in DOMAIN vKnown : vKnown[i] = channel
  /\ vForm' = Choose(vForm, channel, "")
  /\ UNCHANGED <<vRules, vMade, vShown, vKnown, vChains, vAsked, vWhole>>

EditRule(r) ==
  /\ vShown[r] # NoRule
  /\ vForm' = Choose([vForm EXCEPT !.editing = r, !.server = vShown[r].server,
                                   !.on = vShown[r].on],
                     ChannelOf(vShown[r], vKnown), vShown[r].to)
  /\ UNCHANGED <<vRules, vMade, vShown, vKnown, vChains, vAsked, vWhole>>

ResetRuleForm ==
  /\ vForm' = EmptyForm
  /\ UNCHANGED <<vRules, vMade, vShown, vKnown, vChains, vAsked, vWhole>>

-----------------------------------------------------------------------------
(* The chains of requests.                                                  *)

Start(op, id, rule, pc) ==
  /\ vAsked < MaxChange /\ vAsked' = vAsked + 1
  /\ \E c \in Chain :
       /\ vChains[c] = NoChain
       /\ vChains' = [d \in Chain |->
            IF d = c THEN [NoChain EXCEPT !.op = op, !.pc = pc, !.id = id, !.rule = rule,
                                          !.alone = Quiet]
            ELSE [vChains[d] EXCEPT !.alone = FALSE]]
  /\ UNCHANGED <<vRules, vMade, vShown, vKnown, vForm, vWhole>>

LoadRules == Start("load", 0, NoRule, "config")

UpsertRule ==
  Start("save", vForm.editing, [on |-> vForm.on, to |-> vForm.to, server |-> vForm.server],
        "write")

ToggleRule(r) ==
  vShown[r] # NoRule
  /\ Start("toggle", r, [vShown[r] EXCEPT !.on = ~vShown[r].on], "write")

DeleteRule(r) == vShown[r] # NoRule /\ Start("delete", r, NoRule, "write")

\* An empty target leaves the one there was.
Cleaned(rule, old) ==
  IF rule.to = "default" /\ old # NoRule THEN [rule EXCEPT !.to = old.to] ELSE rule

\* The server does what is asked, of a rule it still has.
RuleServed(c) ==
  LET ask == vChains[c]
      id == IF ask.op = "save" /\ ask.id = 0 THEN vMade + 1 ELSE ask.id
  IN  /\ ask.pc = "write" /\ id \in RuleId
      /\ ask.id = 0 \/ vRules[id] # NoRule
      /\ vRules' = [vRules EXCEPT ![id] =
                       CASE ask.op = "save" -> Cleaned(ask.rule, @)
                         [] ask.op = "toggle" -> [@ EXCEPT !.on = ask.rule.on]
                         [] OTHER -> NoRule]
      /\ vMade' = IF id > vMade THEN id ELSE vMade
      /\ vChains' = [vChains EXCEPT ![c].pc = "fetch"]
      /\ UNCHANGED <<vShown, vKnown, vForm, vAsked, vWhole>>

\* The configuration, before the rules: the settings are not known yet.
ConfigArrives(c) ==
  /\ vChains[c].pc = "config"
  /\ vKnown' = IF vKnown = <<>> THEN <<"telegram">> ELSE vKnown
  /\ vForm' = RenderBotOptions(vForm, vKnown')
  /\ vChains' = [vChains EXCEPT ![c].pc = "fetch"]
  /\ UNCHANGED <<vRules, vMade, vShown, vAsked, vWhole>>

RulesRead(c) ==
  /\ vChains[c].pc = "fetch"
  /\ vChains' = [vChains EXCEPT ![c].pc = "answered", ![c].data = vRules]
  /\ UNCHANGED <<vRules, vMade, vShown, vKnown, vForm, vAsked, vWhole>>

\* Mutant: the list is not asked for after a delete, the row is left.
ApplyRulesUnlessDeleted(ask) == IF ask.op = "delete" THEN vShown ELSE ask.data

ApplyRules(ask) == ask.data

\* The list comes; a load brings the settings too, if they could be read.  After
\* a save the form is emptied, whatever it holds by now.
RulesArrive(c, settings) ==
  LET ask == vChains[c]
      known == CASE ask.op = "load" /\ settings -> Channels
                 [] ask.op = "load" \/ (vKnown = <<>> /\ ask.op # "delete") -> <<"telegram">>
                 [] OTHER -> vKnown
  IN  /\ ask.pc = "answered"
      /\ vKnown' = known
      /\ vForm' = CASE ask.op = "save" -> EmptyForm
                    [] ask.op = "delete" -> vForm
                    [] OTHER -> RenderBotOptions(vForm, known)
      /\ vShown' = ApplyRules(ask) /\ vWhole' = ask.alone
      /\ vChains' = [vChains EXCEPT ![c] = NoChain]
      /\ UNCHANGED <<vRules, vMade, vAsked>>

\* Refused, as for a rule that is gone, or lost: a message at most, the list stays.
ChainFails(c) ==
  /\ vChains[c] # NoChain
  /\ vChains' = [vChains EXCEPT ![c] = NoChain] /\ vWhole' = FALSE
  /\ UNCHANGED <<vRules, vMade, vShown, vKnown, vForm, vAsked>>

AlertStep ==
  \/ PrefillRule \/ ResetRuleForm \/ LoadRules \/ UpsertRule
  \/ \E i \in DOMAIN Channels : RenderRuleTargetOptions(Channels[i])
  \/ \E r \in RuleId : EditRule(r) \/ ToggleRule(r) \/ DeleteRule(r)
  \/ \E c \in Chain :
       \/ RuleServed(c) \/ ConfigArrives(c) \/ RulesRead(c) \/ ChainFails(c)
       \/ \E settings \in BOOLEAN : RulesArrive(c, settings)

-----------------------------------------------------------------------------
RuleType == [on : BOOLEAN, to : Target \union {"absent"}, server : {0, 1}]

AlertTypeOK ==
  /\ vRules \in [RuleId -> RuleType] /\ vShown \in [RuleId -> RuleType]
  /\ vMade \in RuleId /\ vAsked \in 0..MaxChange
  /\ vForm.editing \in {0} \union RuleId /\ vForm.to \in Target

\* However stale the list was, a change or a load that was alone from its start to
\* its end leaves the server's rules in it; and the form never offers a target
\* that its channel does not have.  (Two changes at once may leave the older list.)
RulesShown ==
  /\ Quiet /\ vWhole => vShown = vRules
  /\ \E i \in DOMAIN TargetsOf(vForm.channel) : TargetsOf(vForm.channel)[i] = vForm.to
=============================================================================
