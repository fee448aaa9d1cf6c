---------------------------- MODULE PingTargets ----------------------------
(***************************************************************************)
(* The ping targets of the administration console: PingTool, whose editor   *)
(* holds the targets of the chosen node, and what the server has of them.   *)
(*                                                                         *)
(* Each button is disabled during its own request only; the choice of the   *)
(* node and the editor never are.  The results of a probe are left out, and  *)
(* the rest of the agent's configuration, which a save writes back as it was *)
(* loaded.                                                                  *)
(***************************************************************************)
EXTENDS Integers, Sequences, SequencesExt

CONSTANTS
  Host,         \* what may be typed as a host
  PortTyped,    \* what may be typed as a port
  PingNode,     \* the nodes, by their numbers
  MaxTargets,   \* bound: targets of a node
  MaxRuns,      \* bound: probes at once
  MaxSaves,     \* bound: requests
  MaxEdits      \* bound: changes in the editor

ASSUME PingAssumption ==
  PortTyped \subseteq Nat /\ "" \in Host /\ Host # {""} /\ "ip" \notin Host
  /\ PingNode # {} /\ MaxTargets \in Nat \ {0}
  /\ MaxRuns \in Nat /\ MaxSaves \in Nat /\ MaxEdits \in Nat

VARIABLES
  pStored,      \* the targets stored on the server
  pKnown,       \* the same, as the console loaded them
  pSelected,    \* the chosen node
  pTargets,     \* the editor
  pButtons,     \* the requests of the buttons that save and clear
  pRuns,        \* the probes under way, with the lists they put aside
  pRunOff,      \* the button that probes is disabled
  pSent,        \* how many requests there were
  pEdits,       \* how many changes in the editor
  pMine,        \* history: the list as it was loaded, entered or saved last
  pCrossed      \* history: the list was touched while it was lent or sent

pingVars == <<pStored, pKnown, pSelected, pTargets, pButtons, pRuns, pRunOff, pSent, pEdits,
              pMine, pCrossed>>

NoPort == -1
Protocol == {"tcp", "icmp", "http"}
Unset == <<[protocol |-> "unset", host |-> "", port |-> NoPort]>>
NoSave == [pc |-> "idle", node |-> 0, list |-> <<>>]

\* The editor's list is lent to a probe of the node, or sent.
Busy == \/ \E b \in DOMAIN pButtons : pButtons[b] # NoSave
        \/ \E i \in DOMAIN pRuns : pRuns[i].node

-----------------------------------------------------------------------------
(* Targets.                                                                 *)

Normalized(t) ==
  IF t.port # 0 THEN t ELSE [t EXCEPT !.port = IF t.protocol = "http" THEN 80 ELSE 443]

NormalizedAll(list) == [i \in DOMAIN list |-> Normalized(list[i])]

TargetApiPort(t) ==
  CASE t.protocol = "icmp" -> 0
    [] t.port # NoPort -> t.port
    [] t.protocol = "http" -> 80
    [] OTHER -> 443

ExportTarget(t) ==
  [t EXCEPT !.port = CASE t.protocol = "tcp" -> TargetApiPort(t)
                       [] t.protocol = "http" -> t.port
                       [] OTHER -> NoPort]

WithHost(t) == t.host # ""
WithHosts(list) ==
  LET upTo[k \in 0..Len(list)] ==
        IF k = 0 THEN <<>>
        ELSE IF WithHost(list[k]) THEN Append(upTo[k - 1], list[k]) ELSE upTo[k - 1]
  IN  upTo[Len(list)]

Exported(list) ==
  LET kept == WithHosts(list) IN [i \in DOMAIN kept |-> ExportTarget(kept[i])]

\* _collectTargets: the fields as they are drawn; that of the port is disabled for
\* icmp, and then empty.
Collected(list) ==
  NormalizedAll([i \in DOMAIN list |-> IF list[i].protocol = "icmp"
                                       THEN [list[i] EXCEPT !.port = NoPort] ELSE list[i]])

\* One stands for the four.
DefaultTargets == <<[protocol |-> "tcp", host |-> CHOOSE h \in Host : h # "", port |-> 443]>>

\* _loadTargetsFromServer: of what the console knows.
Loaded(config) ==
  NormalizedAll(IF config = Unset THEN DefaultTargets ELSE config)

PingInit ==
  /\ pStored = [n \in PingNode |-> Unset]
  /\ pKnown = pStored
  /\ pSelected = CHOOSE n \in PingNode : TRUE
  /\ pTargets = Loaded(pKnown[pSelected]) /\ pMine = pTargets
  /\ pButtons = [b \in {"save", "clear"} |-> NoSave]
  /\ pRuns = <<>> /\ pRunOff = FALSE /\ pSent = 0 /\ pEdits = 0
  /\ pCrossed = FALSE

-----------------------------------------------------------------------------
(* The editor.                                                              *)

Shows(list) == pTargets' = list /\ pMine' = list /\ pCrossed' = Busy

\* setServers, when the tab is opened: with what the manager of the nodes has.
OpenNetworkTab ==
  /\ pKnown' \in {pKnown, pStored}
  /\ Shows(Loaded(pKnown'[pSelected]))
  /\ UNCHANGED <<pStored, pSelected, pButtons, pRuns, pRunOff, pSent, pEdits>>

ChooseNode(n) ==
  /\ pSelected' = n
  /\ Shows(Loaded(pKnown[n]))
  /\ UNCHANGED <<pStored, pKnown, pButtons, pRuns, pRunOff, pSent, pEdits>>

Edit(list) ==
  /\ pEdits < MaxEdits /\ pEdits' = pEdits + 1
  /\ pTargets' = list /\ pMine' = list /\ pCrossed' = (pCrossed \/ Busy)
  /\ UNCHANGED <<pStored, pKnown, pSelected, pButtons, pRuns, pRunOff, pSent>>

AddTarget ==
  /\ Len(pTargets) < MaxTargets
  /\ Edit(Append(pTargets, [protocol |-> "tcp", host |-> "", port |-> 443]))

RemoveTarget(i) == i \in DOMAIN pTargets /\ Edit(RemoveAt(pTargets, i))

TypeHost(i, host) ==
  i \in DOMAIN pTargets /\ Edit([Collected(pTargets) EXCEPT ![i].host = host])

TypePort(i, port) ==
  /\ i \in DOMAIN pTargets /\ pTargets[i].protocol # "icmp"
  /\ Edit(NormalizedAll([Collected(pTargets) EXCEPT ![i].port = port]))

\* Collected before it is drawn anew.
PickProtocol(i, protocol) ==
  i \in DOMAIN pTargets /\ Edit([Collected(pTargets) EXCEPT ![i].protocol = protocol])

-----------------------------------------------------------------------------
(* The probes.                                                              *)

RunPing ==
  /\ Len(pRuns) < MaxRuns /\ ~pRunOff
  /\ \E i \in DOMAIN pTargets : WithHost(pTargets[i])
  /\ pTargets' = Collected(pTargets)
  /\ pMine' = IF \E i \in DOMAIN pRuns : pRuns[i].node THEN pMine ELSE pTargets'
  /\ pRuns' = Append(pRuns, [node |-> FALSE, old |-> <<>>]) /\ pRunOff' = TRUE
  /\ UNCHANGED <<pStored, pKnown, pSelected, pButtons, pSent, pEdits, pCrossed>>

\* The list is put aside and the node's own address takes its place.
RunCurrentNode ==
  /\ Len(pRuns) < MaxRuns
  /\ pRuns' = Append(pRuns, [node |-> TRUE, old |-> pTargets]) /\ pRunOff' = TRUE
  /\ pTargets' = <<[protocol |-> "tcp", host |-> "ip", port |-> 80]>>
  /\ pCrossed' = (pCrossed \/ Busy)
  /\ UNCHANGED <<pStored, pKnown, pSelected, pButtons, pSent, pEdits, pMine>>

\* Mutant: the node's own address stays.
KeptAddress(run) == pTargets

\* The list that was put aside comes back, reached or not.
Restored(run) == IF run.node THEN run.old ELSE pTargets

RunEnds(i) ==
  /\ i \in DOMAIN pRuns
  /\ pTargets' = Restored(pRuns[i])
  /\ pRuns' = RemoveAt(pRuns, i) /\ pRunOff' = FALSE
  /\ UNCHANGED <<pStored, pKnown, pSelected, pButtons, pSent, pEdits, pMine, pCrossed>>

-----------------------------------------------------------------------------
(* Saving.                                                                  *)

AskToSave(button, list) ==
  /\ pButtons[button] = NoSave /\ pSent < MaxSaves /\ pSent' = pSent + 1
  /\ pButtons' = [pButtons EXCEPT ![button] =
       [pc |-> "sent", node |-> pSelected, list |-> list]]
  /\ pCrossed' = (pCrossed \/ Busy)
  /\ UNCHANGED <<pStored, pKnown, pSelected, pRuns, pRunOff, pEdits>>

SaveTargets ==
  /\ AskToSave("save", Exported(Collected(pTargets)))
  /\ pTargets' = Collected(pTargets) /\ pMine' = pTargets'

ClearSavedTargets == AskToSave("clear", <<>>) /\ UNCHANGED <<pTargets, pMine>>

ConfigStored(b) ==
  /\ pButtons[b].pc = "sent"
  /\ pStored' = [pStored EXCEPT ![pButtons[b].node] = pButtons[b].list]
  /\ pButtons' = [pButtons EXCEPT ![b].pc = "stored"]
  /\ UNCHANGED <<pKnown, pSelected, pTargets, pRuns, pRunOff, pSent, pEdits, pMine, pCrossed>>

\* The editor shows what was stored, whatever node is chosen by now.
SaveAnswered(b) ==
  /\ pButtons[b].pc = "stored"
  /\ pKnown' = [pKnown EXCEPT ![pButtons[b].node] = pButtons[b].list]
  /\ pTargets' = NormalizedAll(pButtons[b].list) /\ pMine' = pTargets'
  /\ pButtons' = [pButtons EXCEPT ![b] = NoSave]
  /\ UNCHANGED <<pStored, pSelected, pRuns, pRunOff, pSent, pEdits, pCrossed>>

SaveFails(b) ==
  /\ pButtons[b] # NoSave
  /\ pButtons' = [pButtons EXCEPT ![b] = NoSave]
  /\ UNCHANGED <<pStored, pKnown, pSelected, pTargets, pRuns, pRunOff, pSent, pEdits, pMine, pCrossed>>

PingStep ==
  \/ OpenNetworkTab \/ AddTarget \/ RunPing \/ RunCurrentNode
  \/ SaveTargets \/ ClearSavedTargets
  \/ \E n \in PingNode : ChooseNode(n)
  \/ \E i \in 1..MaxTargets :
       \/ RemoveTarget(i)
       \/ \E host \in Host : TypeHost(i, host)
       \/ \E port \in PortTyped \union {NoPort} : TypePort(i, port)
       \/ \E protocol \in Protocol : PickProtocol(i, protocol)
  \/ \E i \in 1..MaxRuns : RunEnds(i)
  \/ \E b \in DOMAIN pButtons : ConfigStored(b) \/ SaveAnswered(b) \/ SaveFails(b)

-----------------------------------------------------------------------------
Targets ==
  [protocol : Protocol, host : Host \union {"ip"}, port : PortTyped \union {NoPort, 80, 443}]

PingTypeOK ==
  /\ pTargets \in BoundedSeq(Targets, MaxTargets) /\ pMine \in BoundedSeq(Targets, MaxTargets)
  /\ pSelected \in PingNode /\ Len(pRuns) <= MaxRuns /\ pSent \in 0..MaxSaves

\* A probe of the node gives the list back as it was lent, and what is saved is what
\* will be shown and saved again, port for port, unless the list was touched while
\* a probe had it or a request was under way.
TargetsKept ==
  /\ ~Busy /\ ~pCrossed => pTargets = pMine
  /\ \A n \in PingNode : pStored[n] # Unset =>
       Exported(Collected(Loaded(pStored[n]))) = pStored[n]
=============================================================================
