----------------------------- MODULE MCFrontend -----------------------------
(* The instance of Frontend for TLC. *)
EXTENDS Frontend

\* An idle host, one that is busy, and a burst; the latency beyond the steps of
\* its axis.
Readings ==
  {[rate |-> 5, ms |-> 40, load |-> 5, count |-> 1],
   [rate |-> 90, ms |-> 700, load |-> 60, count |-> 26],
   [rate |-> 30000, ms |-> 6000, load |-> 100, count |-> 11]}

\* One group for two purposes, one of its servers without the group's number.
Groups ==
  <<[group |-> "asia", purpose |-> "core", number |-> 1],
    [group |-> "asia", purpose |-> "edge", number |-> 1],
    [group |-> "asia", purpose |-> "core", number |-> 0]>>

At(place, status) == [place |-> place, status |-> status]

\* The page's server shares a place, has one of its own, or only a name.
MarkerLists ==
  {<<At(6, "online"), At(12, "online"), At(18, "online")>>,
   <<At(18, "online"), At(6, "offline"), At(Nowhere, "online")>>}

N(id, status, group, name, used, days, symbol, months, region, master) ==
  [id |-> id, status |-> status, group |-> group, name |-> name, used |-> used, limit |-> 100,
   days |-> days, price |-> 12, symbol |-> symbol, months |-> months, region |-> region,
   master |-> master]

\* Nodes of two groups and of none, in every state, short of traffic, expired and
\* about to expire; the same ones changed, one of them free.
Overviews ==
  LET m == N(1, "online", 1, "core", 10, 40, "$", 12, "fra", TRUE)
      a == N(2, "offline", 1, "core", 20, 3, "E", 1, "hkg", FALSE)
      b == N(3, "warn", 0, "core", 90, 0, "Y", 3, "fra", FALSE)
      c == N(4, "online", 2, "edge", 95, -2, "Y", 1, "nrt", FALSE)
  IN  {<<>>, <<m, a>>, <<c, b, a, m>>, <<b, c>>,
       <<[a EXCEPT !.status = "unknown", !.price = -1], [c EXCEPT !.group = 0]>>}
RateSet == {[cny |-> 7, eur |-> 1], [cny |-> 8, eur |-> 2]}
Premiums == {-120, -15, 0, 20}

\* The channels of the alert rules, and their targets.
ChannelRows == <<"email", "telegram">>
ChannelTargets == [email |-> <<"mail">>, telegram |-> <<"chat">>]

\* The visitor's clock is right, or behind or ahead by more than is tolerated.
ClockSkews == {-2, 0, 2}
=============================================================================
