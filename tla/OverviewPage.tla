---------------------------- MODULE OverviewPage ----------------------------
(***************************************************************************)
(* The overview of all nodes (/?overview=1, pages/overviewPage.js).  The    *)
(* page is made anew, as a whole, from the list of servers, the currency,  *)
(* the exchange rates and the group chosen last, which the browser stores:  *)
(* when a list is refreshed, a group, a language or a currency chosen.      *)
(*                                                                         *)
(* The calculator in front of it is of its own: what it was opened with     *)
(* stays.  Amounts are whole numbers and prices multiples of their period;  *)
(* a node's place in the alphabet stands for its location and its name.     *)
(***************************************************************************)
EXTENDS Integers, Sequences, FiniteSets, SequencesExt, OrderedSets

CONSTANTS
  Fleet,      \* the lists there may be, of records [id, status, group, name,
              \* used, limit, days, price, symbol, months, region, master]
  Rates,      \* the exchange rates there may be: [cny, eur], from one dollar
  Premium     \* what may be typed as a premium, in percent

\* A price of -1 says that a node is free, 0 that it is not shown.
ListedNode ==
  [id : Nat, status : STRING, group : Nat, name : STRING, used : Nat, limit : Int, days : Int,
   price : Nat \union {-1}, symbol : STRING, months : Nat \ {0}, region : STRING,
   master : BOOLEAN]

ASSUME OverviewAssumption ==
  /\ Fleet \subseteq Seq(ListedNode)
  /\ \A list \in Fleet : \A i, j \in DOMAIN list : list[i].id = list[j].id => i = j
  /\ Rates \subseteq [cny : Nat \ {0}, eur : Nat \ {0}]
  /\ Premium \subseteq Int

VARIABLES
  wList,      \* state.servers
  wRates,     \* state.exchangeRates
  wCurrency,  \* state.currency
  wStored,    \* vps_overview_group_filter
  wPage,      \* what is on the page
  wOpen,      \* the panels that are folded out
  wPrice      \* the calculator: the node, its value, the ratio and the price

overviewVars == <<wList, wRates, wCurrency, wStored, wPage, wOpen, wPrice>>

Total(numbers) == SumOver(numbers, DOMAIN numbers)
First(seq, n) == SubSeq(seq, 1, IF Len(seq) < n THEN Len(seq) ELSE n)

-----------------------------------------------------------------------------
(* utils/currency.js and utils/traffic.js.                                  *)

\* sourceAmountToCny.
InCny(amount, symbol, rates) ==
  CASE symbol = "$" -> amount * rates.cny
    [] symbol = "E" -> (amount * rates.cny) \div rates.eur
    [] OTHER -> amount

\* getMonthlyPrice.
Monthly(server, rates) == InCny(server.price, server.symbol, rates) \div server.months

\* calcResidualValue: by days, of a period counted in whole days.
PeriodDays(months) ==
  CASE months = 12 -> 365 [] months = 6 -> 183 [] months = 3 -> 92 [] OTHER -> 30

Residual(server, rates) ==
  LET days == PeriodDays(server.months)
      left == IF server.days > days THEN days ELSE server.days
  IN  IF server.days <= 0 THEN 0
      ELSE (InCny(server.price, server.symbol, rates) * left) \div days

\* getTrafficPct: not limited, not counted.
TrafficPct(server) ==
  IF server.limit <= 0 THEN 0
  ELSE LET pct == (100 * server.used) \div server.limit IN IF pct > 100 THEN 100 ELSE pct

-----------------------------------------------------------------------------
(* The page.                                                                *)

\* classifyStatus: what is not known is offline.
Class(server) == IF server.status \in {"online", "warn"} THEN server.status ELSE "offline"

CountOf(list, class) == Cardinality({i \in DOMAIN list : Class(list[i]) = class})

\* Mutant: a node that is offline is abnormal only with much traffic.
AbnormalIfUsed(list) == Picked(list, {i \in DOMAIN list : TrafficPct(list[i]) >= 85})

Abnormal(list) ==
  Picked(list, {i \in DOMAIN list : Class(list[i]) # "online" \/ TrafficPct(list[i]) >= 85})

\* badNodes: those offline first, then by traffic; six of them.
Worse(a, b) ==
  \/ Class(a) = "offline" /\ Class(b) # "offline"
  \/ /\ Class(a) = "offline" <=> Class(b) = "offline"
     /\ TrafficPct(a) > TrafficPct(b)

BadNodes(list) ==
  LET abnormal == Abnormal(list)
  IN  First(StableSort(abnormal, {p \in (DOMAIN abnormal) \X (DOMAIN abnormal) :
                                    Worse(abnormal[p[1]], abnormal[p[2]])}), 6)

\* monthlyByRegion: the four that cost most.
ByRegion(list, rates) ==
  LET cost(region) == Total([i \in DOMAIN list |->
                               IF list[i].region = region THEN Monthly(list[i], rates) ELSE 0])
      regions == SetToSeq({[region |-> r, cost |-> cost(r)] :
                             r \in {list[i].region : i \in DOMAIN list}})
  IN  First(StableSort(regions, {p \in (DOMAIN regions) \X (DOMAIN regions) :
                                   regions[p[1]].cost > regions[p[2]].cost}), 4)

\* summarizeMoonPanel.
Summary(list, rates) ==
  [total |-> Len(list), online |-> CountOf(list, "online"), warn |-> CountOf(list, "warn"),
   offline |-> CountOf(list, "offline"),
   expiring |-> Picked(list, {i \in DOMAIN list : list[i].days \in 0..7}),
   bad |-> BadNodes(list),
   monthly |-> Total([i \in DOMAIN list |-> Monthly(list[i], rates)]),
   regions |-> ByRegion(list, rates)]

\* serverGroupMeta: the group's number, or its name when it has none.
GroupKey(server) == IF server.group > 0 THEN <<"id", server.group>> ELSE <<"name", server.name>>

\* buildBackendGroups.
BackendGroups(list) ==
  {[key |-> k, servers |-> Picked(list, {i \in DOMAIN list : GroupKey(list[i]) = k})] :
     k \in {GroupKey(list[i]) : i \in DOMAIN list}}

Rank(server) ==
  CASE Class(server) = "offline" -> 0 [] Class(server) = "warn" -> 1 [] OTHER -> 2

\* compareOverviewNodes: masters, then those that are offline, then warned.
Before(a, b) ==
  IF a.master # b.master THEN a.master
  ELSE IF Rank(a) # Rank(b) THEN Rank(a) < Rank(b) ELSE a.id < b.id

\* collectFilteredNodes.
FilteredNodes(list, active) ==
  LET nodes == IF active = <<"all">> THEN list
               ELSE Picked(list, {i \in DOMAIN list : GroupKey(list[i]) = active})
  IN  StableSort(nodes, {p \in (DOMAIN nodes) \X (DOMAIN nodes) :
                           Before(nodes[p[1]], nodes[p[2]])})

\* toDisplay, of an amount in CNY.
Displayed(amount, currency, rates) ==
  CASE currency = "USD" -> <<"$", amount \div rates.cny>>
    [] currency = "EUR" -> <<"E", (amount * rates.eur) \div rates.cny>>
    [] OTHER -> <<"Y", amount>>

\* A group that is no longer there is forgotten.
ActiveGroup(list, stored) ==
  IF stored \in {g.key : g \in BackendGroups(list)} THEN stored ELSE <<"all">>

Rendered(list, stored, currency, rates) ==
  LET active == ActiveGroup(list, stored)
      summary == Summary(list, rates)
  IN  [active |-> active, summary |-> summary,
       tabs |-> {[key |-> g.key, count |-> Len(g.servers)] : g \in BackendGroups(list)},
       cards |-> FilteredNodes(list, active),
       cost |-> Displayed(summary.monthly, currency, rates)]

\* The panels are folded out when there is something in them.
Unfolded(summary) ==
  {panel \in {"expiry", "abnormal"} :
     IF panel = "expiry" THEN summary.expiring # <<>> ELSE summary.bad # <<>>}

\* renderPublicOverviewPage.
Render(list, stored, currency, rates) ==
  /\ wList' = list /\ wCurrency' = currency /\ wRates' = rates
  /\ wPage' = Rendered(list, stored, currency, rates)
  /\ wStored' = ActiveGroup(list, stored)
  /\ wOpen' = Unfolded(wPage'.summary)

Closed == [node |-> 0, base |-> 0, ratio |-> 0, final |-> 0]

-----------------------------------------------------------------------------
\* The rates are asked for first; the defaults stay when no source has them.  The
\* page is rendered also when the first list could not be had.
OverviewInit ==
  \E rates \in Rates, stored \in {<<"all">>, <<"id", 1>>}, list \in Fleet :
    /\ wList = list /\ wRates = rates /\ wCurrency = "CNY"
    /\ wStored = ActiveGroup(list, stored)
    /\ wPage = Rendered(list, stored, "CNY", rates)
    /\ wOpen = Unfolded(wPage.summary)
    /\ wPrice = Closed

\* A failed request leaves the list, and the page is made all the same.
OverviewRefreshes(list) ==
  Render(list, wStored, wCurrency, wRates) /\ UNCHANGED wPrice

PickGroup(key) ==
  /\ key = <<"all">> \/ key \in {tab.key : tab \in wPage.tabs}
  /\ Render(wList, key, wCurrency, wRates) /\ UNCHANGED wPrice

SwitchCurrency(currency) ==
  Render(wList, wStored, currency, wRates) /\ UNCHANGED wPrice

\* Until the page is made again.
FoldPanel(panel) ==
  /\ wOpen' = IF panel \in wOpen THEN wOpen \ {panel} ELSE wOpen \union {panel}
  /\ UNCHANGED <<wList, wRates, wCurrency, wStored, wPage, wPrice>>

\* openPremiumCalculator, with the value that is on the card, or 0 if that is below.
OpenCalculator(i) ==
  /\ i \in DOMAIN wPage.cards
  /\ LET left == Residual(wPage.cards[i], wRates)
         value == IF left < 0 THEN 0 ELSE left
     IN  wPrice' = [node |-> wPage.cards[i].id, base |-> value, ratio |-> 0, final |-> value]
  /\ UNCHANGED <<wList, wRates, wCurrency, wStored, wPage, wOpen>>

\* syncFromRatio.
TypeRatio(ratio) ==
  LET final == (wPrice.base * (100 + ratio)) \div 100
  IN  /\ wPrice.node # 0
      /\ wPrice' = [wPrice EXCEPT !.ratio = ratio, !.final = IF final < 0 THEN 0 ELSE final]
      /\ UNCHANGED <<wList, wRates, wCurrency, wStored, wPage, wOpen>>

\* syncFromFinal.
TypeFinal(typed) ==
  LET final == IF typed < 0 THEN 0 ELSE typed
  IN  /\ wPrice.node # 0
      /\ wPrice' = [wPrice EXCEPT !.final = final,
                      !.ratio = IF wPrice.base > 0 THEN (100 * final) \div wPrice.base - 100
                                ELSE 0]
      /\ UNCHANGED <<wList, wRates, wCurrency, wStored, wPage, wOpen>>

CloseCalculator ==
  /\ wPrice.node # 0 /\ wPrice' = Closed
  /\ UNCHANGED <<wList, wRates, wCurrency, wStored, wPage, wOpen>>

OverviewStep ==
  \/ \E list \in Fleet : OverviewRefreshes(list)
  \/ \E tab \in wPage.tabs : PickGroup(tab.key)
  \/ PickGroup(<<"all">>)
  \/ \E currency \in {"CNY", "USD", "EUR"} : SwitchCurrency(currency)
  \/ \E panel \in {"expiry", "abnormal"} : FoldPanel(panel)
  \/ \E i \in DOMAIN wPage.cards : OpenCalculator(i)
  \/ \E ratio \in Premium : TypeRatio(ratio) \/ TypeFinal(ratio + 100)
  \/ CloseCalculator

-----------------------------------------------------------------------------
OverviewTypeOK ==
  /\ wList \in Fleet /\ wRates \in Rates /\ wCurrency \in {"CNY", "USD", "EUR"}
  /\ wOpen \subseteq {"expiry", "abnormal"}
  /\ wPrice.ratio \in Int /\ wPrice.final \in Nat

\* Whatever was chosen, refreshed or folded before: every node of the list is
\* counted once under a status and in one group's tab, its card is there exactly
\* when that tab is chosen, masters and then what is offline stand first, and what
\* is not online or short of traffic is among the abnormal ones unless six are.
OverviewComplete ==
  LET summary == wPage.summary
      shown == {wPage.cards[i].id : i \in DOMAIN wPage.cards}
      abnormal == {s \in ToSet(wList) : Class(s) # "online" \/ TrafficPct(s) >= 85}
  IN  /\ summary.online + summary.warn + summary.offline = Len(wList)
      /\ Total([k \in 1..Cardinality(wPage.tabs) |-> SetToSeq(wPage.tabs)[k].count]) = Len(wList)
      /\ \A s \in ToSet(wList) :
           s.id \in shown <=> wPage.active \in {<<"all">>, GroupKey(s)}
      /\ Len(wPage.cards) = Cardinality(shown)
      /\ \A i, j \in DOMAIN wPage.cards :
           /\ wPage.cards[i].master /\ ~wPage.cards[j].master => i < j
           /\ wPage.cards[i].status = "offline" /\ wPage.cards[j].status = "online"
                /\ i > j => wPage.cards[j].master
      /\ Len(summary.bad) < 6 => abnormal \subseteq ToSet(summary.bad)
      /\ wPage.active # <<"all">> => wPage.cards # <<>>
      /\ wStored = wPage.active
=============================================================================
