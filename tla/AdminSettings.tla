--------------------------- MODULE AdminSettings ---------------------------
(***************************************************************************)
(* The settings of the administration console: the sections of             *)
(* SettingsPanel and the theme panel, and the server's settings file.       *)
(*                                                                         *)
(* Any number of requests may be under way, nothing is disabled meanwhile.  *)
(* The server reads the whole file, changes one section and writes it back. *)
(* Secrets do not come back: the panel shows a mask, or an empty field, and *)
(* sends what was typed; but the mask itself, of a channel's secret.        *)
(*                                                                         *)
(* The sections share nothing but the load, so that one of them is followed; *)
(* of its fields only the secrets, and one number for all the others.  The  *)
(* fields hold anything the administrator may have typed when they are sent. *)
(***************************************************************************)
EXTENDS Naturals

CONSTANTS
  Secret,       \* what may be typed as a secret
  Provider,     \* the providers of single sign-on
  Channel,      \* the names of notification channels
  Slot,         \* bound: requests under way at once
  MaxSent       \* bound: requests in all

ASSUME SettingsAssumption ==
  /\ Secret \intersect {"blank", "masked", "edited", "draft", "absent"} = {}
  /\ Channel # {}
  /\ MaxSent \in Nat

VARIABLES
  tSection,    \* the section that is followed
  tStored,     \* the server's settings
  tHeld,       \* what the panels keep of the last answers
  tAsked,      \* the requests under way
  tSent,       \* how many there were
  tTyped,      \* history: the secrets typed last in a save the server accepted
  tRaced       \* history: the file was written from an old reading

settingsVars == <<tSection, tStored, tHeld, tAsked, tSent, tTyped, tRaced>>

NoRequest == [op |-> "none", pc |-> "none", payload |-> <<>>, data |-> <<>>]
Number == {0, 1}
Config == {"absent", "draft", "blank", "masked"} \union Secret

\* setSection: the section of the address or of the menu.
SettingsInit ==
  /\ tSection \in {"site", "login", "notify", "general", "proxy"}
  /\ tStored = [token |-> "blank", key |-> "blank", sso |-> [p \in Provider |-> 0],
                channels |-> [c \in Channel |-> "absent"],
                default |-> CHOOSE c \in Channel : TRUE,
                site |-> 0, look |-> 0, general |-> 0, path |-> 0]
  /\ tHeld = [key |-> "blank", sso |-> tStored.sso, channels |-> tStored.channels,
              channel |-> tStored.default, default |-> tStored.default, site |-> 0]
  /\ tAsked = [q \in Slot |-> NoRequest] /\ tSent = 0
  /\ tTyped = [token |-> "blank", key |-> "blank", channels |-> [c \in Channel |-> "blank"]]
  /\ tRaced = FALSE

-----------------------------------------------------------------------------
(* What an answer makes of the panel.                                       *)

Hidden(secret) == IF secret \in Secret THEN "masked" ELSE secret

\* _redact_sensitive_settings.
Redacted(channels) == [c \in Channel |-> Hidden(channels[c])]

FillLogin(held, data) == [held EXCEPT !.key = Hidden(data.key), !.sso = data.sso]

RefreshOptions(held, data) ==
  [held EXCEPT !.channels = Redacted(data.channels), !.default = data.default]

FillNotify(held, data) ==
  [RefreshOptions(held, data) EXCEPT !.channel = data.default]

\* The channels of the list: the default one, drafts, and what has a parameter.
ChannelList(held) ==
  {c \in Channel : /\ held.channels[c] # "absent"
                   /\ c = held.default \/ held.channels[c] # "blank"}

\* The fields of the chosen channel.
ChannelFields(held) ==
  LET config == held.channels[held.channel]
  IN  IF config \in {"absent", "draft"} THEN "blank" ELSE config

-----------------------------------------------------------------------------
(* The buttons.                                                             *)

Send(op, payload) ==
  /\ tSent < MaxSent /\ tSent' = tSent + 1
  /\ \E q \in Slot : tAsked[q] = NoRequest
  /\ tAsked' = [tAsked EXCEPT ![CHOOSE q \in Slot : tAsked[q] = NoRequest] =
                    [op |-> op, pc |-> "sent", payload |-> payload, data |-> <<>>]]
  /\ UNCHANGED <<tSection, tStored, tHeld, tTyped, tRaced>>

\* load, of one panel and of the other.
LoadSettings == Send("load", <<>>)
LoadTheme == tSection = "site" /\ Send("theme", <<>>)

SaveSite(number) == tSection = "site" /\ Send("put", [site |-> number])
SaveGeneral(number) == tSection = "general" /\ Send("put", [general |-> number])

\* The theme panel sends what it loaded, with its own fields.
SaveTheme(number) ==
  tSection = "site" /\ Send("theme", [site |-> tHeld.site, look |-> number])

SaveCloudflare(typed) ==
  /\ tSection = "proxy"
  /\ Send("put", IF typed = "blank" THEN [path |-> 0] ELSE [token |-> typed, path |-> 0])

RefreshCloudflare == tSection = "proxy" /\ Send("load", <<>>)

\* The key only if the field was changed; of one provider the fields, of the
\* others what was loaded.
SaveLogin(typed, provider, number) ==
  LET sso == [tHeld.sso EXCEPT ![provider] = number]
  IN  /\ tSection = "login"
      /\ Send("login", IF typed \in {"blank", tHeld.key} THEN [sso |-> sso]
                       ELSE [sso |-> sso, key |-> typed])

\* Only in the panel, until the next save.
AddChannel(c) ==
  /\ tSection = "notify"
  /\ tHeld' = [tHeld EXCEPT !.channel = c,
                            !.channels[c] = IF @ = "absent" THEN "draft" ELSE @]
  /\ UNCHANGED <<tSection, tStored, tAsked, tSent, tTyped, tRaced>>

SelectChannel(c) ==
  /\ tSection = "notify" /\ c \in ChannelList(tHeld)
  /\ tHeld' = [tHeld EXCEPT !.channel = c]
  /\ UNCHANGED <<tSection, tStored, tAsked, tSent, tTyped, tRaced>>

\* All the channels are sent, the others as they were loaded.
SaveNotify(typed) ==
  /\ tSection = "notify" /\ typed \in Secret \union {"blank", ChannelFields(tHeld)}
  /\ Send("notify", [channels |-> [tHeld.channels EXCEPT ![tHeld.channel] = typed],
                     default |-> tHeld.channel])

DeleteChannel(c) ==
  LET left == {d \in Channel \ {c} : tHeld.channels[d] # "absent"}
  IN  /\ tSection = "notify" /\ c \in ChannelList(tHeld)
      /\ \E next \in IF left = {} THEN {CHOOSE d \in Channel : TRUE} ELSE left :
           Send("notify", [channels |-> [tHeld.channels EXCEPT ![c] = "absent"],
                           default |-> next])

\* A backup has no secrets: those of the channels are masks in it.
RestoreBackup(number, configs) ==
  Send("put", CASE tSection = "notify" -> [channels |-> Redacted(configs)]
                    [] tSection = "site" -> [site |-> number, look |-> number]
                    [] tSection = "general" -> [general |-> number]
                    [] tSection = "login" -> [sso |-> [p \in Provider |-> number]]
                    [] OTHER -> [path |-> number])

-----------------------------------------------------------------------------
(* The server.                                                              *)

\* A key with a star in it is not taken.
Taken(payload) ==
  IF "key" \in DOMAIN payload /\ payload.key = "edited" THEN [sso |-> payload.sso]
  ELSE payload

ServerReads(q) ==
  /\ tAsked[q].pc = "sent"
  /\ tAsked' = [tAsked EXCEPT ![q].data = tStored,
                    ![q].pc = IF tAsked[q].payload = <<>> THEN "answered" ELSE "read"]
  /\ UNCHANGED <<tSection, tStored, tHeld, tSent, tTyped, tRaced>>

\* Field by field, what was sent takes the place of what was there.
Merged(sent, data) ==
  [field \in DOMAIN data |-> IF field \in DOMAIN sent THEN sent[field] ELSE data[field]]

\* update_admin_settings, from its reading of the file.  From the answer to a
\* "put" nothing is filled that is followed.
ServerWrites(q) ==
  LET taken == Taken(tAsked[q].payload)
      saved == Merged(taken, tAsked[q].data)
      last(name) == IF name \in DOMAIN taken /\ taken[name] # "blank" THEN taken[name]
                    ELSE tTyped[name]
      channel(c) == IF "channels" \in DOMAIN taken /\ taken.channels[c] \in Secret
                    THEN taken.channels[c] ELSE tTyped.channels[c]
  IN  /\ tAsked[q].pc = "read"
      /\ tAsked' = IF tAsked[q].op = "put" THEN [tAsked EXCEPT ![q] = NoRequest]
                   ELSE [tAsked EXCEPT ![q].pc = "answered", ![q].data = saved]
      /\ tStored' = saved
      /\ tTyped' = [token |-> last("token"), key |-> last("key"),
                    channels |-> [c \in Channel |-> channel(c)]]
      /\ tRaced' = (tRaced \/ tAsked[q].data # tStored)
      /\ UNCHANGED <<tSection, tHeld, tSent>>

\* The section that is filled from the answer, if it is the one that was saved.
SettingsAnswered(q) ==
  LET ask == tAsked[q]
      filled == CASE ask.op = "load" -> FillNotify(FillLogin(tHeld, ask.data), ask.data)
                  [] ask.op = "login" -> FillLogin(tHeld, ask.data)
                  [] ask.op = "notify" ->
                       [RefreshOptions(tHeld, ask.data) EXCEPT !.channel = ask.payload.default]
                  [] OTHER -> [tHeld EXCEPT !.site = ask.data.site]
  IN  /\ ask.pc = "answered"
      /\ tHeld' = filled
      /\ tAsked' = [tAsked EXCEPT ![q] = NoRequest]
      /\ UNCHANGED <<tSection, tStored, tSent, tTyped, tRaced>>

\* Refused, or the answer is lost: the message is shown, the panel stays.
SettingsFail(q) ==
  /\ tAsked[q].pc \in {"sent", "answered"}
  /\ tAsked' = [tAsked EXCEPT ![q] = NoRequest]
  /\ UNCHANGED <<tSection, tStored, tHeld, tSent, tTyped, tRaced>>

SettingsStep ==
  \/ LoadSettings \/ LoadTheme \/ RefreshCloudflare
  \/ \E number \in Number : SaveSite(number) \/ SaveGeneral(number) \/ SaveTheme(number)
  \/ \E typed \in Secret \union {"blank"} : SaveCloudflare(typed)
  \/ \E typed \in Secret \union {"blank", tHeld.key} \union {"edited"}, p \in Provider,
        number \in Number : SaveLogin(typed, p, number)
  \/ \E c \in Channel : AddChannel(c) \/ SelectChannel(c) \/ DeleteChannel(c)
  \/ \E typed \in Config : SaveNotify(typed)
  \/ \E number \in Number, config \in {"absent", "masked"} :
       RestoreBackup(number, [c \in Channel |-> config])
  \/ \E q \in Slot : \/ ServerReads(q) \/ ServerWrites(q)
                     \/ SettingsAnswered(q) \/ SettingsFail(q)

-----------------------------------------------------------------------------
SettingsTypeOK ==
  /\ tStored.token \in Config /\ tStored.key \in Config
  /\ tStored.sso \in [Provider -> Number] /\ tHeld.sso \in [Provider -> Number]
  /\ tStored.channels \in [Channel -> Config]
  /\ tHeld.channel \in Channel /\ tHeld.site \in Number /\ tSent \in 0..MaxSent

\* The stored token and key are those that were typed last, whatever else is
\* saved or restored in between: not what the panel shows instead of them, a mask
\* or an empty field.  A channel's secret has no such promise: every save sends
\* the masks of the other channels, which the server stores, and the secret is
\* gone.  But it is gone then: no channel gets an earlier secret of its own back,
\* or that of another one.  All this unless two requests wrote the file from one
\* reading of it.  And no answer brings a secret back to the panel.
SecretsTyped ==
  /\ tStored.token \in Secret \union {"blank"} /\ tStored.key \in Secret \union {"blank"}
  /\ ~tRaced =>
       /\ tStored.token = tTyped.token /\ tStored.key = tTyped.key
       /\ \A c \in Channel : tStored.channels[c] \in Secret =>
                              tStored.channels[c] = tTyped.channels[c]
  /\ tHeld.key \notin Secret /\ \A c \in Channel : tHeld.channels[c] \notin Secret
=============================================================================
