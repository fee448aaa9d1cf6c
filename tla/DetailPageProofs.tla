-------------------------- MODULE DetailPageProofs --------------------------
(***************************************************************************)
(* What the page of one server tells is of one time: for any number of     *)
(* samples and of answers, in whatever order they come, and for all        *)
(* lifetimes of the cache and of a request.                                *)
(***************************************************************************)
EXTENDS DetailPage, ChartScales, HealthVerdict, RequestCache, IntegerLemmas,
        FiniteSetTheorems, SequenceTheorems, TLAPS

(* The requests.  Young ones are shared, and nobody is handed an old answer.*)
(* The invariant adds only that the entry is never a request whose failure was*)
(* noticed.                                                                 *)

USE CacheAssumption

SharedInv ==
  /\ RequestTypeOK /\ OneYoungRequest
  /\ qEntry # 0 => qState[qEntry] # "failed"

LEMMA FetchNumbers ==
  ASSUME NEW r \in Fetch PROVE r \in Int /\ r # 0
  BY Fetch = 1..Cardinality(Fetch), r \in 1..Cardinality(Fetch)

LEMMA SharedInit == RequestInit => SharedInv
  BY DEF RequestInit, SharedInv, RequestTypeOK, OneYoungRequest

LEMMA SharedStep == SharedInv /\ [RequestStep]_requestVars => SharedInv'
  <1> SUFFICES ASSUME SharedInv, [RequestStep]_requestVars PROVE SharedInv'
    OBVIOUS
  <1> USE DEF SharedInv, RequestTypeOK
  <1>1. CASE Moves
    BY <1>1 DEF Moves, OneYoungRequest, Young
  <1>2. CASE ShareRequest
    BY <1>2 DEF ShareRequest, Hand, OneYoungRequest, Young
  <1>3. CASE SendRequest
    <2>1. PICK r \in Fetch :
            /\ qState[r] = "unsent"
            /\ qSent' = [qSent EXCEPT ![r] = qClock]
            /\ qState' = [qState EXCEPT ![r] = "pending"]
            /\ qEntry' = r /\ qTimers' = qTimers \union {r} /\ qClock' = qClock
            /\ qHanded' = [request |-> r, at |-> qClock, state |-> qState'[r]]
            /\ ~(qEntry # 0 /\ Young(qEntry))
      BY <1>3 DEF SendRequest, Hand
    <2>2. RequestTypeOK' /\ qState'[qEntry'] # "failed"
      BY <2>1
    <2>3. ASSUME NEW s \in Fetch, s # r, qState[s] \in {"pending", "done"}
          PROVE  ~Young(s)
      BY <2>1, <2>3, FetchNumbers DEF OneYoungRequest
    <2>4. ASSUME NEW s \in Fetch, qState'[s] \in {"pending", "done"}, Young(s)'
          PROVE  s = r
      BY <2>1, <2>3, <2>4 DEF Young
    <2>5. qHanded'.at - qSent'[r] < Cache /\ qHanded'.state = "pending"
      BY <2>1
    <2> QED BY <2>1, <2>2, <2>4, <2>5 DEF OneYoungRequest
  <1>4. ASSUME NEW r \in Fetch, Answered(r) PROVE SharedInv'
    BY <1>4 DEF Answered, OneYoungRequest, Young
  <1>5. ASSUME NEW r \in Fetch, Rejected(r) PROVE SharedInv'
    BY <1>5 DEF Rejected, OneYoungRequest, Young
  <1>6. ASSUME NEW r \in Fetch, ForgetFailed(r) PROVE SharedInv'
    BY <1>6 DEF ForgetFailed, OneYoungRequest, Young
  <1>7. ASSUME NEW r \in Fetch, TimerFires(r) PROVE SharedInv'
    BY <1>7 DEF TimerFires, OneYoungRequest, Young
  <1>8. CASE UNCHANGED requestVars
    BY <1>8 DEF requestVars, OneYoungRequest, Young
  <1> QED BY <1>1, <1>2, <1>3, <1>4, <1>5, <1>6, <1>7, <1>8 DEF RequestStep

\* Of young requests there is one, which is shared; nobody is handed an answer
\* older than the cache keeps it, or a failure of the past.
THEOREM YoungShared == RequestSpec => []OneYoungRequest
  <1>1. SharedInv => OneYoungRequest
    BY DEF SharedInv
  <1> QED BY <1>1, SharedInit, SharedStep, PTL DEF RequestSpec

HIDE CacheAssumption

-----------------------------------------------------------------------------
(* The detail page.                                                         *)

Points == SUBSET (1..MaxSample)
CacheType ==
  [net : SampleNo, resource : Points, process : SampleNo, live : SampleNo, health : SampleNo]
ViewType ==
  [cpu : Points, process : SampleNo, net : SampleNo, row : SampleNo, card : SampleNo]
RowsType == [cpu : Points, process : SampleNo, net : SampleNo]

PageTypes ==
  /\ dPhase \in {"boot", "notFound", "fetching", "late", "drawing", "ready", "error"}
  /\ dSample \in SampleNo /\ dAsked \in SampleNo
  /\ dCharts \in {"none", "loading", "loaded", "failed"}
  /\ dDraws \in Seq(RowsType)
  /\ dCache \in CacheType /\ dView \in ViewType
  /\ dRange \subseteq SampleNo
  /\ dRefresh \in [pc : {"idle", "live", "heavy"}, asked : SampleNo]
  /\ dHeavyDue \in BOOLEAN /\ dHidden \in BOOLEAN
  /\ dPing \in [cache : SampleNo, stored : SampleNo]

BlankView(view) == view.cpu = {} /\ view.process = 0 /\ view.net = 0

\* What each phase has done already.
Early == {"boot", "notFound", "fetching", "late"}
Phases ==
  /\ dPhase = "drawing" => dCharts = "loading"
  /\ dPhase = "ready" => dCharts = "loaded"
  /\ dPhase # "ready" => BlankView(dView) /\ dCache.live = 0 /\ dRefresh = NoRefresh
  /\ dPhase \in Early => dRange = {} /\ dCache = EmptyCache
  /\ dPhase = "error" /\ dRange # {} => dCharts = "failed"
  /\ dDraws # <<>> => dCharts = "loading"

\* The row is as new as the live point, and the card tells it too.
CardInv ==
  /\ dCache.live <= dCache.health
  /\ CardAgreesWithRow

PingKept == dPhase # "boot" => dPing.cache >= dPing.stored

\* Nothing is drawn, nor waits to be drawn, that is newer than the timeline.
Ahead ==
  dCache.resource # {} =>
    /\ Newest(dView.cpu) <= Newest(dCache.resource)
    /\ dDraws # <<>> => Newest(Last(dDraws).cpu) <= Newest(dCache.resource)

\* Without a timeline there are no process rows either: both charts end where
\* the coarse rows do.
EvenEnds(rows) == rows.process = Newest(rows.cpu)
Even ==
  dCache.resource = {} =>
    /\ dCache.process = 0 /\ EvenEnds(dView)
    /\ dDraws # <<>> => EvenEnds(Last(dDraws))

DetailInv == PageTypes /\ Phases /\ CardInv /\ PingKept /\ Ahead /\ Even

LEMMA DetailBounds == MaxSample \in Nat /\ MaxRange \in Nat /\ Stale \in Nat
  BY DetailAssumption

LEMMA NewestOf ==
  ASSUME NEW points \in Points
  PROVE  /\ Newest(points) \in SampleNo
         /\ points # {} => Newest(points) \in points
         /\ \A n \in points : n <= Newest(points)
         /\ points = {} => Newest(points) = 0
  <1>1. CASE points = {}
    BY <1>1, DetailBounds DEF Newest, SampleNo
  <1>2. CASE points # {}
    <2>1. points \in SUBSET Int /\ \A x \in points : x <= MaxSample
      BY DetailBounds DEF Points
    <2>2. Max(points) \in points /\ \A x \in points : x <= Max(points)
      BY <1>2, <2>1, MaxOf, DetailBounds
    <2>3. Newest(points) = Max(points)
      BY <1>2 DEF Newest
    <2>4. Newest(points) \in 1..MaxSample
      BY <2>2, <2>3 DEF Points
    <2> QED BY <1>2, <2>2, <2>3, <2>4, DetailBounds DEF SampleNo
  <1> QED BY <1>1, <1>2

LEMMA NewestGrows ==
  ASSUME NEW a \in Points, NEW b \in Points, a \subseteq b
  PROVE  Newest(a) <= Newest(b)
  <1>1. CASE a = {}
    BY <1>1, NewestOf DEF SampleNo
  <1>2. CASE a # {}
    BY <1>2, NewestOf
  <1> QED BY <1>1, <1>2

\* A new timeline is not older than the one it replaces; history leaves the
\* newest sample as it is.
LEMMA ReplacedNewer ==
  ASSUME NEW current \in Points, NEW candidate \in Points
  PROVE  /\ Replaced(current, candidate) \in Points
         /\ Newest(Replaced(current, candidate)) >= Newest(current)
         /\ current # {} \/ candidate # {} => Replaced(current, candidate) # {}
  <1>1. Newest(current) \in SampleNo /\ Newest(candidate) \in SampleNo
    BY NewestOf
  <1>2. CASE candidate # {} /\ ShouldReplace(current, candidate)
    BY <1>2 DEF Replaced, ShouldReplace
  <1>3. CASE ~(candidate # {} /\ ShouldReplace(current, candidate))
    <2>1. current = {} => Newest(current) = 0 /\ Cardinality(current) = 0
      BY NewestOf, FS_EmptySet
    <2>2. candidate = {} \/ current # {}
      BY <1>1, <1>3, <2>1 DEF ShouldReplace, NotCoarser, SampleNo
    <2> QED BY <1>1, <1>3, <2>2 DEF Replaced, SampleNo
  <1> QED BY <1>2, <1>3

LEMMA MergeHistoryKeeps ==
  ASSUME NEW current \in Points, NEW history \in Points
  PROVE  /\ MergeHistory(current, history) \in Points
         /\ history # {} => MergeHistory(current, history) # {}
         /\ current # {} => /\ MergeHistory(current, history) # {}
                            /\ Newest(MergeHistory(current, history)) >= Newest(current)
  <1>1. CASE current = {}
    BY <1>1 DEF MergeHistory
  <1>2. CASE current # {}
    <2>1. MergeHistory(current, history) \in Points /\ current \subseteq MergeHistory(current, history)
      BY <1>2 DEF MergeHistory, Points
    <2>2. Newest(MergeHistory(current, history)) >= Newest(current)
      BY <2>1, NewestGrows, NewestOf DEF SampleNo
    <2> QED BY <1>2, <2>1, <2>2
  <1> QED BY <1>1, <1>2

LEMMA RowsOf ==
  ASSUME NEW cache \in CacheType
  PROVE  /\ Rows(cache) \in RowsType /\ Rows(cache).cpu = Telemetry(cache)
         /\ Rows(cache).net = cache.net
         /\ Telemetry(cache) \in Points
         /\ cache.resource # {} => Telemetry(cache) = cache.resource
  <1>1. Telemetry(cache) \in Points /\ (cache.resource # {} => Telemetry(cache) = cache.resource)
    BY DEF Telemetry, CacheType, Points, SampleNo
  <1>2. Newest(Telemetry(cache)) \in SampleNo
    BY <1>1, NewestOf
  <1> QED BY <1>1, <1>2 DEF Rows, RowsType, CacheType

LEMMA NewestCountType ==
  ASSUME NEW rows \in Points, NEW current \in SampleNo
  PROVE  NewestCount(rows, current) \in SampleNo
  BY NewestOf DEF NewestCount

LEMMA AnswersType ==
  ASSUME dSample \in SampleNo, NEW a \in SampleNo, NEW n \in Answers(a)
  PROVE  n \in SampleNo /\ n <= dSample /\ \A rows \in Timelines(n) : rows \in Points
  <1>1. a - Stale \in Int
    BY DetailBounds DEF SampleNo
  <1> DEFINE b == a - Stale
             first == Max({0, b})
  <1>2. first \in Int /\ first >= 0
    <2>1. b \in Int /\ 0 \in Int
      BY <1>1
    <2> HIDE DEF b
    <2>2. first \in {0, b} /\ first >= 0
      BY <2>1, MaxOfTwo
    <2> QED BY <2>1, <2>2
  <1>3. n \in SampleNo /\ n <= dSample
    <2>1. n \in first..dSample
      BY DEF Answers
    <2> HIDE DEF first
    <2> QED BY <1>2, <2>1, DetailBounds DEF SampleNo
  <1>4. \A rows \in Timelines(n) : rows \in Points
    BY <1>3, DetailBounds DEF Timelines, Points, SampleNo
  <1> QED BY <1>3, <1>4

LEMMA PingMerged ==
  ASSUME NEW ping \in [cache : SampleNo, stored : SampleNo], NEW available \in BOOLEAN, NEW n \in SampleNo,
         ping.cache >= ping.stored
  PROVE  LET merged == MergePing(ping, available, n)
         IN  /\ merged \in [cache : SampleNo, stored : SampleNo]
             /\ merged.cache >= merged.stored /\ merged.stored >= ping.stored
  <1>1. ping.cache \in SampleNo /\ ping.stored \in SampleNo /\ \A k \in SampleNo : k \in Int /\ k >= 0
    BY DEF SampleNo
  <1>2. Max({ping.cache, n}) \in SampleNo /\ Max({ping.cache, n}) >= ping.cache
    BY <1>1, MaxOfTwo
  <1>3. CASE available /\ n > 0
    BY <1>1, <1>2, <1>3 DEF MergePing, SampleNo
  <1>4. CASE ~(available /\ n > 0)
    BY <1>1, <1>4 DEF MergePing
  <1> QED BY <1>3, <1>4

LEMMA PingLoaded ==
  ASSUME NEW ping \in [cache : SampleNo, stored : SampleNo]
  PROVE  /\ LoadPing(ping) \in [cache : SampleNo, stored : SampleNo]
         /\ LoadPing(ping).stored = ping.stored /\ LoadPing(ping).cache >= ping.stored
  BY DEF LoadPing, SampleNo

LEMMA Submitted ==
  ASSUME PageTypes, dDraws # <<>> => dCharts = "loading",
         NEW view \in ViewType, NEW rows \in RowsType, NEW mounted \in BOOLEAN, Submit(view, rows, mounted)
  PROVE  /\ dView' \in ViewType /\ dView'.row = view.row /\ dView'.card = view.card
         /\ dDraws' \in Seq(RowsType) /\ dCharts' \in {"none", "loading", "loaded", "failed"}
         /\ dDraws' # <<>> => dCharts' = "loading"
         /\ \/ /\ dCharts = "loaded" /\ mounted /\ dView'.cpu = rows.cpu
               /\ dDraws' = dDraws /\ dCharts' = dCharts
            \/ /\ dCharts = "failed" \/ (dCharts = "loaded" /\ ~mounted)
               /\ dView' = view /\ dDraws' = dDraws /\ dCharts' = dCharts
            \/ /\ dCharts \in {"none", "loading"} /\ dCharts' = "loading" /\ dView' = view
               /\ Last(dDraws') = rows /\ Len(dDraws') = Len(dDraws) + 1
  <1>1. CASE dCharts \in {"loaded", "failed"}
    <2>1. UNCHANGED <<dDraws, dCharts>>
            /\ dView' = IF dCharts = "loaded" /\ mounted THEN Draw(rows, view) ELSE view
      BY <1>1 DEF Submit
    <2>0. dCharts = "loaded" \/ dCharts = "failed"
      BY <1>1
    <2>2. /\ Draw(rows, view) \in ViewType /\ Draw(rows, view).cpu = rows.cpu
          /\ Draw(rows, view).row = view.row /\ Draw(rows, view).card = view.card
      BY DEF Draw, ViewType, RowsType
    <2>3. dDraws \in Seq(RowsType) /\ dCharts \in {"none", "loading", "loaded", "failed"}
      BY DEF PageTypes
    <2>4. CASE dCharts = "loaded" /\ mounted
      BY <2>1, <2>2, <2>3, <2>4
    <2>5. CASE ~(dCharts = "loaded" /\ mounted)
      <3>1. dView' = view
        BY <2>1, <2>5, Zenon
      <3>2. dCharts = "failed" \/ (dCharts = "loaded" /\ ~mounted)
        BY <2>0, <2>5
      <3> QED BY <2>1, <2>3, <3>1, <3>2
    <2> QED BY <2>4, <2>5
  <1>2. CASE dCharts \in {"none", "loading"}
    <2>1. dDraws' = Append(dDraws, rows) /\ dDraws \in Seq(RowsType) /\ dCharts' = "loading" /\ dView' = view
      BY <1>2 DEF Submit, PageTypes
    <2>2. dDraws' \in Seq(RowsType) /\ Len(dDraws') = Len(dDraws) + 1 /\ Last(dDraws') = rows
      BY <2>1 DEF Last
    <2> QED BY <1>2, <2>1, <2>2
  <1> QED BY <1>1, <1>2 DEF PageTypes

LEMMA EvenDrawn ==
  ASSUME PageTypes, Even, NEW view \in ViewType, view.cpu = dView.cpu, view.process = dView.process,
         NEW cache \in CacheType, dCache' = cache,
         cache.resource = {} => dCache.resource = {} /\ cache.process = 0,
         NEW mounted \in BOOLEAN, Submit(view, Rows(cache), mounted)
  PROVE  Even'
  <1> SUFFICES ASSUME cache.resource = {}
               PROVE  EvenEnds(dView') /\ (dDraws' # <<>> => EvenEnds(Last(dDraws')))
    BY DEF Even
  <1> DEFINE rows == Rows(cache)
  <1>1. EvenEnds(rows)
    BY DEF EvenEnds, Rows
  <1>2. EvenEnds(view) /\ (dDraws # <<>> => EvenEnds(Last(dDraws)))
    BY DEF Even, EvenEnds
  <1>3. EvenEnds(Draw(rows, view))
    BY <1>1 DEF EvenEnds, Draw, ViewType
  <1> HIDE DEF rows
  <1>4. dView' = view \/ dView' = Draw(rows, view)
    BY DEF Submit, rows
  <1>5. dDraws' = dDraws \/ dDraws' = Append(dDraws, rows)
    BY DEF Submit, rows
  <1>6. rows \in RowsType /\ dDraws \in Seq(RowsType)
    BY RowsOf DEF rows, PageTypes
  <1>7. Last(Append(dDraws, rows)) = rows
    BY <1>6 DEF Last
  <1>8. EvenEnds(dView')
    BY <1>2, <1>3, <1>4
  <1>9. dDraws' # <<>> => EvenEnds(Last(dDraws'))
    BY <1>1, <1>2, <1>5, <1>7
  <1> QED BY <1>8, <1>9

LEMMA DetailInvInit == DetailInit => DetailInv
  <1> SUFFICES ASSUME DetailInit PROVE DetailInv
    OBVIOUS
  <1>1. 0 \in SampleNo
    BY DetailBounds DEF SampleNo
  <1>2. EmptyCache \in CacheType /\ EmptyView \in ViewType /\ EmptyCache.live = 0 /\ EmptyCache.health = 0
          /\ EmptyView.cpu = {} /\ BlankView(EmptyView) /\ EmptyCache.resource = {}
    BY <1>1 DEF EmptyCache, EmptyView, CacheType, ViewType, Points, BlankView
  <1>3. PageTypes
    <2>1. /\ [cache |-> 0, stored |-> 0] \in [cache : SampleNo, stored : SampleNo]
          /\ NoRefresh \in [pc : {"idle", "live", "heavy"}, asked : SampleNo]
          /\ <<>> \in Seq(RowsType) /\ {} \subseteq SampleNo
      BY <1>1 DEF NoRefresh
    <2> QED BY <1>1, <1>2, <2>1 DEF DetailInit, PageTypes
  <1> QED BY <1>2, <1>3 DEF DetailInit, DetailInv, Phases, CardInv, CardAgreesWithRow, PingKept, Ahead,
             Even, EvenEnds, EmptyCache, EmptyView, Newest

-----------------------------------------------------------------------------
\* Every step keeps the types.
Fits(cache, n, rows) ==
  [cache EXCEPT !.net = IF n > 0 THEN n ELSE @, !.resource = Replaced(@, rows)]

LEMMA HydratedFits ==
  ASSUME NEW cache \in CacheType, NEW n \in SampleNo, NEW rows \in Points
  PROVE  /\ Hydrated(cache, n, rows) \in CacheType
         /\ Hydrated(cache, n, rows).resource = Replaced(cache.resource, rows)
         /\ Hydrated(cache, n, rows).process = NewestCount(rows, cache.process)
         /\ Hydrated(cache, n, rows).live = cache.live
         /\ Hydrated(cache, n, rows).health >= cache.health
         /\ Fits(cache, n, rows) \in CacheType
         /\ Fits(cache, n, rows).resource = Replaced(cache.resource, rows)
         /\ Fits(cache, n, rows).process = cache.process
         /\ Fits(cache, n, rows).live = cache.live
         /\ Fits(cache, n, rows).health = cache.health
  <1>1. Replaced(cache.resource, rows) \in Points
    BY ReplacedNewer DEF CacheType
  <1>2. AcceptHealth(cache.health, n) \in SampleNo /\ AcceptHealth(cache.health, n) >= cache.health
    BY DetailBounds DEF AcceptHealth, CacheType, SampleNo
  <1>3. (IF n > 0 THEN n ELSE cache.net) \in SampleNo
    BY DEF CacheType
  <1>4. NewestCount(rows, cache.process) \in SampleNo
    BY NewestCountType DEF CacheType
  <1> QED BY <1>1, <1>2, <1>3, <1>4 DEF Hydrated, Fits, CacheType

\* The page is rendered: from then on nothing is waited for but the import.
LEMMA RenderAnswerKeeps == ASSUME DetailInv, RenderAnswer PROVE DetailInv'
  <1>0. PageTypes /\ Phases /\ CardInv /\ PingKept /\ Ahead /\ Even
    BY DEF DetailInv
  <1>1. PICK n \in Answers(dAsked), available \in BOOLEAN : \E rows \in Timelines(n) :
          LET cache == Hydrated(dCache, n, rows)
          IN  /\ dCache' = cache
              /\ dPing' = MergePing(LoadPing(dPing), available, n)
              /\ Submit([dView EXCEPT !.row = cache.health, !.card = Newest(Telemetry(cache))],
                        Rows(cache), TRUE)
    BY DEF RenderAnswer
  <1>2. PICK rows \in Timelines(n) :
          LET cache == Hydrated(dCache, n, rows)
          IN  /\ dCache' = cache
              /\ dPing' = MergePing(LoadPing(dPing), available, n)
              /\ Submit([dView EXCEPT !.row = cache.health, !.card = Newest(Telemetry(cache))],
                        Rows(cache), TRUE)
    BY <1>1
  <1>3. n \in SampleNo /\ rows \in Points
    BY <1>0, AnswersType DEF PageTypes
  <1> DEFINE cache == Hydrated(dCache, n, rows)
             drawn == Telemetry(cache)
             lines == Rows(cache)
             view == [dView EXCEPT !.row = cache.health, !.card = Newest(drawn)]
  <1>4. /\ dCache' = cache /\ dPing' = MergePing(LoadPing(dPing), available, n)
        /\ Submit(view, lines, TRUE)
    BY <1>2
  <1>5. cache \in CacheType /\ cache.live = dCache.live /\ cache.health >= dCache.health
    BY <1>0, <1>3, HydratedFits DEF PageTypes
  <1>5a. cache.resource = {} => dCache.resource = {} /\ cache.process = 0
    <2>1. /\ cache.resource = Replaced(dCache.resource, rows)
          /\ cache.process = NewestCount(rows, dCache.process)
          /\ dCache.resource \in Points
      BY <1>0, <1>3, HydratedFits DEF PageTypes, CacheType
    <2> HIDE DEF cache
    <2>2. cache.resource = {} => dCache.resource = {} /\ rows = {}
      BY <1>3, <2>1, ReplacedNewer
    <2> QED BY <1>0, <2>1, <2>2 DEF Even, NewestCount
  <1> HIDE DEF cache
  <1>6. /\ drawn \in Points /\ (cache.resource # {} => drawn = cache.resource)
        /\ lines \in RowsType /\ lines.cpu = drawn
    BY <1>5, RowsOf
  <1> HIDE DEF drawn
  <1>7. view \in ViewType /\ view.cpu = dView.cpu /\ view.process = dView.process
          /\ (BlankView(dView) => BlankView(view))
    BY <1>0, <1>5, <1>6, NewestOf DEF PageTypes, ViewType, CacheType, BlankView
  <1> HIDE DEF view
  <1>7a. Even'
    BY <1>0, <1>4, <1>5, <1>7, <1>5a, EvenDrawn
  <1> HIDE DEF lines
  <1>8. /\ dPhase \in {"fetching", "late"} /\ dPhase' = Drawn(dCharts)
        /\ UNCHANGED <<dSample, dAsked, dRange, dRefresh, dHeavyDue, dHidden>>
    BY DEF RenderAnswer
  <1>9. BlankView(dView) /\ dView.cpu = {} /\ dRange = {} /\ dRefresh = NoRefresh /\ dCache.live = 0
          /\ (dDraws # <<>> => dCharts = "loading")
    BY <1>0, <1>8 DEF Phases, Early, BlankView
  <1>10. /\ dView' \in ViewType /\ dDraws' \in Seq(RowsType)
         /\ dCharts' \in {"none", "loading", "loaded", "failed"}
         /\ dDraws' # <<>> => dCharts' = "loading"
         /\ \/ dCharts = "loaded" /\ dView'.cpu = drawn /\ dDraws' = dDraws /\ dCharts' = dCharts
            \/ dCharts = "failed" /\ dView' = view /\ dDraws' = dDraws /\ dCharts' = dCharts
            \/ /\ dCharts \in {"none", "loading"} /\ dCharts' = "loading" /\ dView' = view
               /\ Last(dDraws').cpu = drawn
    BY <1>0, <1>4, <1>6, <1>7, <1>9, Submitted
  <1>11. dPing' \in [cache : SampleNo, stored : SampleNo] /\ dPing'.cache >= dPing'.stored
    BY <1>0, <1>3, <1>4, PingLoaded, PingMerged DEF PageTypes
  <1>12. PageTypes'
    BY <1>0, <1>4, <1>5, <1>8, <1>10, <1>11 DEF PageTypes, Drawn
  <1>13. Phases'
    BY <1>4, <1>5, <1>7, <1>8, <1>9, <1>10 DEF Phases, Drawn, Early
  <1>14. CardInv'
    <2>1. dCache'.live = 0 /\ dCache'.health \in SampleNo
      BY <1>4, <1>5, <1>9 DEF CacheType
    <2> QED BY <2>1 DEF CardInv, CardAgreesWithRow, SampleNo
  <1>15. Ahead'
    <2> SUFFICES ASSUME dCache'.resource # {}
                 PROVE  /\ Newest(dView'.cpu) <= Newest(dCache'.resource)
                        /\ dDraws' # <<>> => Newest(Last(dDraws').cpu) <= Newest(dCache'.resource)
      BY DEF Ahead
    <2>1. drawn = dCache'.resource
      BY <1>4, <1>6
    <2>2. Newest(drawn) \in SampleNo /\ Newest({}) = 0 /\ \A k \in SampleNo : k \in Int /\ k >= 0
      BY <1>6, NewestOf DEF SampleNo, Points
    <2>3. Newest(dView'.cpu) <= Newest(drawn)
      <3>1. dView'.cpu = drawn \/ dView'.cpu = {}
        BY <1>7, <1>9, <1>10
      <3> QED BY <2>2, <3>1
    <2>4. ASSUME dDraws' # <<>> PROVE Newest(Last(dDraws').cpu) <= Newest(drawn)
      <3>1. Last(dDraws').cpu = drawn
        BY <1>9, <1>10, <2>4
      <3> QED BY <2>2, <3>1
    <2> QED BY <2>1, <2>3, <2>4
  <1> QED BY <1>11, <1>12, <1>13, <1>14, <1>15, <1>7a DEF DetailInv, PingKept

LEMMA StartKeepsDetail ==
  ASSUME DetailInv, AgentSamples \/ RenderStart \/ BudgetExpires \/ RenderFails PROVE DetailInv'
  <1>0. PageTypes /\ Phases /\ CardInv /\ PingKept /\ Ahead /\ Even
    BY DEF DetailInv
  <1>1. CASE AgentSamples
    <2>1. dSample' \in SampleNo
      BY <1>0, <1>1, DetailBounds DEF AgentSamples, PageTypes, SampleNo
    <2>2. PageTypes'
      BY <1>0, <1>1, <2>1 DEF AgentSamples, PageTypes
    <2>3. Phases' /\ CardInv' /\ PingKept' /\ Ahead' /\ Even'
      BY <1>0, <1>1 DEF AgentSamples, Phases, CardInv, CardAgreesWithRow, PingKept, Ahead, Even, EvenEnds
    <2> QED BY <2>2, <2>3 DEF DetailInv
  <1>2. CASE RenderStart
    <2>1. /\ dPhase = "boot" /\ dPhase' \in {"fetching", "notFound"} /\ dAsked' \in SampleNo
          /\ dPing' = LoadPing(dPing)
          /\ UNCHANGED <<dSample, dCharts, dDraws, dCache, dView, dRange, dRefresh, dHeavyDue, dHidden>>
      BY <1>0, <1>2 DEF RenderStart, PageTypes
    <2>2. dPing' \in [cache : SampleNo, stored : SampleNo] /\ dPing'.cache >= dPing'.stored
      BY <1>0, <2>1, PingLoaded DEF PageTypes
    <2>3. PageTypes'
      BY <1>0, <2>1, <2>2 DEF PageTypes
    <2>4. Phases'
      BY <1>0, <2>1 DEF Phases, Early
    <2>5. CardInv' /\ PingKept' /\ Ahead' /\ Even'
      BY <1>0, <2>1, <2>2 DEF CardInv, CardAgreesWithRow, PingKept, Ahead, Even, EvenEnds
    <2> QED BY <2>3, <2>4, <2>5 DEF DetailInv
  <1>3. CASE BudgetExpires \/ RenderFails
    <2>1. /\ dPhase \in {"fetching", "late"} /\ dPhase' \in {"late", "error"}
          /\ UNCHANGED <<dSample, dAsked, dCharts, dDraws, dCache, dView, dRange, dRefresh,
                         dHeavyDue, dHidden, dPing>>
      BY <1>3 DEF BudgetExpires, RenderFails
    <2>2. PageTypes'
      BY <1>0, <2>1 DEF PageTypes
    <2>3. Phases'
      BY <1>0, <2>1 DEF Phases, Early
    <2>4. CardInv' /\ PingKept' /\ Ahead' /\ Even'
      BY <1>0, <2>1 DEF CardInv, CardAgreesWithRow, PingKept, Ahead, Even, EvenEnds
    <2> QED BY <2>2, <2>3, <2>4 DEF DetailInv
  <1> QED BY <1>1, <1>2, <1>3

LEMMA ImportKeeps == ASSUME DetailInv, ChartsLoaded \/ ChartsFail PROVE DetailInv'
  <1>0. PageTypes /\ Phases /\ CardInv /\ PingKept /\ Ahead /\ Even
    BY DEF DetailInv
  <1>1. dCharts = "loading" /\ dDraws' = <<>> /\ dPhase # "ready" /\ BlankView(dView)
          /\ dCache.live = 0 /\ dRefresh = NoRefresh
          /\ UNCHANGED <<dSample, dAsked, dCache, dRange, dRefresh, dHeavyDue, dHidden, dPing>>
    BY <1>0 DEF ChartsLoaded, ChartsFail, Phases
  <1>2. <<>> \in Seq(RowsType)
    OBVIOUS
  <1>3. dView' = dView \/ (dDraws # <<>> /\ Mounted /\ dCharts' = "loaded" /\ dView' = Draw(Last(dDraws), dView))
    BY DEF ChartsLoaded, ChartsFail
  <1>4. dDraws # <<>> => Last(dDraws) \in RowsType
    <2> HAVE dDraws # <<>>
    <2>1. dDraws \in Seq(RowsType) /\ Len(dDraws) \in 1..Len(dDraws)
      BY <1>0 DEF PageTypes
    <2> QED BY <2>1 DEF Last
  <1>5. dView' \in ViewType /\ (dView' = dView \/ dView'.cpu = Last(dDraws).cpu)
          /\ dView'.row = dView.row /\ dView'.card = dView.card
    BY <1>0, <1>3, <1>4 DEF PageTypes, Draw, ViewType, RowsType
  <1>6. PageTypes'
    BY <1>0, <1>1, <1>2, <1>5 DEF PageTypes, ChartsLoaded, ChartsFail
  <1>7. CASE ChartsLoaded
    <2>1. dCharts' = "loaded" /\ dPhase' = IF dPhase = "drawing" THEN "ready" ELSE dPhase
      BY <1>7 DEF ChartsLoaded
    <2>2. dPhase' # "ready" => BlankView(dView')
      BY <1>0, <1>1, <1>3, <2>1 DEF Mounted
    <2>3. Phases'
      <3>1. dPhase = "error" /\ dRange # {} => FALSE
        BY <1>0, <1>1 DEF Phases
      <3>2. dPhase' # "drawing" /\ (dPhase' \in Early => dPhase \in Early)
              /\ (dPhase' = "error" => dPhase = "error")
        BY <2>1 DEF Early
      <3> QED BY <1>0, <1>1, <2>1, <2>2, <3>1, <3>2 DEF Phases
    <2>4. CardInv'
      BY <1>0, <1>1 DEF CardInv, CardAgreesWithRow
    <2>5. Ahead'
      <3> SUFFICES ASSUME dCache.resource # {} PROVE Newest(dView'.cpu) <= Newest(dCache.resource)
        BY <1>1 DEF Ahead
      <3>1. Newest(dView.cpu) <= Newest(dCache.resource)
              /\ (dDraws # <<>> => Newest(Last(dDraws).cpu) <= Newest(dCache.resource))
        BY <1>0 DEF Ahead
      <3>2. CASE dView' = dView
        BY <3>1, <3>2
      <3>3. CASE dView' # dView
        BY <1>3, <1>5, <3>1, <3>3
      <3> QED BY <3>2, <3>3
    <2>6. PingKept'
      BY <1>0, <1>1, <2>1 DEF PingKept
    <2>7. Even'
      <3> SUFFICES ASSUME dCache.resource = {} PROVE EvenEnds(dView')
        BY <1>0, <1>1 DEF Even
      <3>1. EvenEnds(dView) /\ (dDraws # <<>> => EvenEnds(Last(dDraws)))
        BY <1>0 DEF Even
      <3>2. dDraws # <<>> => EvenEnds(Draw(Last(dDraws), dView))
        BY <1>0, <3>1 DEF EvenEnds, Draw, PageTypes, ViewType
      <3> QED BY <1>3, <3>1, <3>2
    <2> QED BY <1>6, <2>3, <2>4, <2>5, <2>6, <2>7 DEF DetailInv
  <1>8. CASE ChartsFail
    <2>1. dCharts' = "failed" /\ dView' = dView /\ dPhase' = IF dPhase = "drawing" THEN "error" ELSE dPhase
      BY <1>8 DEF ChartsFail
    <2>2. Phases'
      <3>1. dPhase' # "drawing" /\ dPhase' # "ready" /\ (dPhase' \in Early => dPhase \in Early)
        BY <1>1, <2>1 DEF Early
      <3> QED BY <1>0, <1>1, <2>1, <3>1 DEF Phases
    <2>3. CardInv' /\ PingKept' /\ Ahead' /\ Even'
      BY <1>0, <1>1, <2>1 DEF CardInv, CardAgreesWithRow, PingKept, Ahead, Even, EvenEnds
    <2> QED BY <1>6, <2>2, <2>3 DEF DetailInv
  <1> QED BY <1>7, <1>8

LEMMA RangeClickKeeps == ASSUME DetailInv, RangeClick PROVE DetailInv'
  <1>0. PageTypes /\ Phases /\ CardInv /\ PingKept /\ Ahead /\ Even
    BY DEF DetailInv
  <1>1. /\ dPhase \in {"drawing", "ready"} /\ dRange' = dRange \union {dSample}
        /\ UNCHANGED <<dPhase, dSample, dAsked, dCharts, dDraws, dCache, dView, dRefresh,
                       dHeavyDue, dHidden, dPing>>
    BY DEF RangeClick, Mounted
  <1>2. PageTypes'
    BY <1>0, <1>1 DEF PageTypes
  <1>3. Phases'
    BY <1>0, <1>1 DEF Phases, Early
  <1>4. CardInv' /\ PingKept' /\ Ahead' /\ Even'
    BY <1>0, <1>1 DEF CardInv, CardAgreesWithRow, PingKept, Ahead, Even, EvenEnds
  <1> QED BY <1>2, <1>3, <1>4 DEF DetailInv

\* What was drawn from the cache is as new as the timeline, and not older than
\* what was there.
LEMMA DrawnNewer ==
  ASSUME PageTypes, Ahead, dDraws # <<>> => dCharts = "loading",
         NEW view \in ViewType, view.cpu = dView.cpu, NEW cache \in CacheType,
         NEW mounted \in BOOLEAN, Submit(view, Rows(cache), mounted), dCache' = cache,
         dCache.resource # {} => /\ cache.resource # {}
                                 /\ Newest(cache.resource) >= Newest(dCache.resource),
         \/ mounted /\ dCharts # "failed" /\ (dCharts # "loaded" => dView.cpu = {})
         \/ dView.cpu = {} /\ cache = dCache
  PROVE  /\ Ahead'
         /\ dCache.resource # {} => Newest(dView'.cpu) >= Newest(dView.cpu)
  <1> DEFINE rows == Rows(cache)
  <1>1. rows \in RowsType /\ rows.cpu \in Points /\ (cache.resource # {} => rows.cpu = cache.resource)
    BY RowsOf
  <1> HIDE DEF rows
  <1>2. /\ dView' \in ViewType /\ dDraws' \in Seq(RowsType)
        /\ dDraws' # <<>> => dCharts' = "loading"
        /\ \/ /\ dCharts = "loaded" /\ mounted /\ dView'.cpu = rows.cpu
              /\ dDraws' = dDraws /\ dCharts' = dCharts
           \/ /\ dCharts = "failed" \/ (dCharts = "loaded" /\ ~mounted)
              /\ dView' = view /\ dDraws' = dDraws /\ dCharts' = dCharts
           \/ /\ dCharts \in {"none", "loading"} /\ dCharts' = "loading" /\ dView' = view
              /\ Last(dDraws') = rows /\ Len(dDraws') = Len(dDraws) + 1
    BY <1>1, Submitted DEF rows
  <1>3. /\ Newest(dView.cpu) \in SampleNo /\ Newest(rows.cpu) \in SampleNo /\ Newest({}) = 0
        /\ Newest(dView'.cpu) \in SampleNo /\ Newest(dCache.resource) \in SampleNo
        /\ Newest(cache.resource) \in SampleNo /\ \A k \in SampleNo : k \in Int /\ k >= 0
    <2>1. /\ dView.cpu \in Points /\ dView'.cpu \in Points /\ {} \in Points
          /\ dCache.resource \in Points /\ cache.resource \in Points
      BY <1>2 DEF PageTypes, ViewType, CacheType, Points
    <2>2. \A k \in SampleNo : k \in Int /\ k >= 0
      BY DEF SampleNo
    <2> QED BY <1>1, <2>1, <2>2, NewestOf
  <1>4. dCache.resource # {} => Newest(dView.cpu) <= Newest(dCache.resource)
    BY DEF Ahead
  <1>5. CASE dCharts = "loaded" /\ mounted
    <2>1. dView'.cpu = rows.cpu /\ dDraws' = <<>>
      BY <1>2, <1>5
    <2>2. cache.resource # {} => Newest(dView'.cpu) = Newest(cache.resource)
      BY <1>1, <2>1
    <2> QED BY <1>3, <1>4, <2>1, <2>2 DEF Ahead
  <1>6. CASE dCharts = "failed" \/ (dCharts = "loaded" /\ ~mounted)
    <2>1. dView' = view /\ dDraws' = <<>> /\ dView.cpu = {}
      BY <1>2, <1>6
    <2> QED BY <1>3, <2>1 DEF Ahead
  <1>7. CASE dCharts \notin {"loaded", "failed"}
    <2>1. dView' = view /\ Last(dDraws') = rows /\ dView.cpu = {}
      BY <1>2, <1>7
    <2>2. cache.resource # {} => Newest(rows.cpu) = Newest(cache.resource)
      BY <1>1
    <2>3. dView'.cpu = {}
      BY <2>1
    <2>4. dCache'.resource # {} =>
            /\ Newest(dView'.cpu) <= Newest(dCache'.resource)
            /\ Newest(Last(dDraws').cpu) <= Newest(dCache'.resource)
      <3>1. Newest(dView'.cpu) = 0 /\ Newest(Last(dDraws').cpu) = Newest(rows.cpu)
        BY <1>3, <2>1, <2>3
      <3>2. Newest(cache.resource) >= 0
        BY <1>3
      <3> QED BY <1>3, <2>2, <3>1, <3>2
    <2> QED BY <1>3, <2>1, <2>3, <2>4 DEF Ahead
  <1> QED BY <1>5, <1>6, <1>7

\* The things the charts may not do, of one step.
LatestRows ==
  /\ dView'.process < dView.process => dView'.process = Rows(dCache').process
  /\ dView'.net < dView.net => dView'.net = dCache'.net
Forward ==
  dPhase' # "boot" =>
    /\ dCache.resource # {} => Newest(dView'.cpu) >= Newest(dView.cpu)
    /\ LatestRows
PingForward ==
  /\ dPing'.stored >= dPing.stored
  /\ Mounted' => dPing'.cache >= dPing'.stored

LEMMA SameCharts ==
  ASSUME PageTypes, dView'.cpu = dView.cpu, dView'.process = dView.process, dView'.net = dView.net
  PROVE  Forward
  <1>1. Newest(dView.cpu) \in SampleNo /\ dView.process \in SampleNo /\ dView.net \in SampleNo
    BY NewestOf DEF PageTypes, ViewType
  <1> QED BY <1>1 DEF Forward, LatestRows, SampleNo

\* The process and network charts are as they were or show what the cache has.
LEMMA LatestDrawn ==
  ASSUME PageTypes, NEW view \in ViewType, view.process = dView.process, view.net = dView.net,
         NEW mounted \in BOOLEAN, Submit(view, Rows(dCache'), mounted)
  PROVE  LatestRows
  <1>1. dView' = view \/ dView' = Draw(Rows(dCache'), view)
    BY DEF Submit
  <1>2. CASE dView' = view
    <2>1. dView.process \in SampleNo /\ dView.net \in SampleNo
      BY DEF PageTypes, ViewType
    <2> QED BY <1>2, <2>1 DEF LatestRows, SampleNo
  <1>3. CASE dView' = Draw(Rows(dCache'), view)
    <2>1. dView'.process = Rows(dCache').process /\ dView'.net = Rows(dCache').net
      BY <1>3 DEF Draw, ViewType
    <2> QED BY <2>1 DEF LatestRows, Rows
  <1> QED BY <1>1, <1>2, <1>3

LEMMA RangeSettlesKeeps ==
  ASSUME DetailInv, NEW r \in dRange, RangeSettles(r) PROVE DetailInv' /\ Forward
  <1>0. PageTypes /\ Phases /\ CardInv /\ PingKept /\ Ahead /\ Even
    BY DEF DetailInv
  <1>1. PICK n \in Answers(r) \union {0}, available \in BOOLEAN : \E rows \in Timelines(n) :
          LET cache == Fits(dCache, n, rows)
          IN  /\ dCache' = cache
              /\ dPing' = MergePing(dPing, available, n)
              /\ IF Mounted THEN Submit(dView, Rows(cache), TRUE)
                 ELSE UNCHANGED <<dView, dDraws, dCharts>>
    BY DEF RangeSettles, Fits
  <1>2. PICK rows \in Timelines(n) :
          LET cache == Fits(dCache, n, rows)
          IN  /\ dCache' = cache
              /\ dPing' = MergePing(dPing, available, n)
              /\ IF Mounted THEN Submit(dView, Rows(cache), TRUE)
                 ELSE UNCHANGED <<dView, dDraws, dCharts>>
    BY <1>1
  <1>3. n \in SampleNo /\ rows \in Points
    <2>1. CASE n \in Answers(r)
      BY <1>0, <2>1, AnswersType DEF PageTypes
    <2>2. CASE n = 0
      BY <2>2, DetailBounds DEF SampleNo, Timelines, Points
    <2> QED BY <2>1, <2>2
  <1> DEFINE cache == Fits(dCache, n, rows)
  <1>4. /\ dCache' = cache /\ dPing' = MergePing(dPing, available, n)
        /\ IF Mounted THEN Submit(dView, Rows(cache), TRUE)
           ELSE UNCHANGED <<dView, dDraws, dCharts>>
    BY <1>2
  <1>5. /\ cache \in CacheType /\ cache.live = dCache.live /\ cache.health = dCache.health
        /\ cache.resource = Replaced(dCache.resource, rows) /\ cache.process = dCache.process
    BY <1>0, <1>3, HydratedFits DEF PageTypes
  <1> HIDE DEF cache
  <1>6. dCache.resource # {} => cache.resource # {} /\ Newest(cache.resource) >= Newest(dCache.resource)
    BY <1>0, <1>3, <1>5, ReplacedNewer DEF PageTypes, CacheType
  <1>7. /\ dRange' = dRange \ {r} /\ dRange # {}
        /\ UNCHANGED <<dPhase, dSample, dAsked, dRefresh, dHeavyDue, dHidden>>
    BY DEF RangeSettles
  <1>8. dPhase \in {"drawing", "ready", "error"} /\ (dPhase = "error" => dCharts = "failed")
    BY <1>0, <1>7 DEF PageTypes, Phases, Early
  <1>9. dPing' \in [cache : SampleNo, stored : SampleNo] /\ dPing'.cache >= dPing'.stored
    BY <1>0, <1>3, <1>4, <1>8, PingMerged DEF PageTypes, PingKept
  <1>10. Rows(cache) \in RowsType /\ dView \in ViewType
    BY <1>0, <1>5, RowsOf DEF PageTypes
  <1>11. /\ dView' \in ViewType /\ dView'.row = dView.row /\ dView'.card = dView.card
         /\ dDraws' \in Seq(RowsType) /\ dCharts' \in {"none", "loading", "loaded", "failed"}
         /\ dDraws' # <<>> => dCharts' = "loading"
         /\ dPhase = "ready" => dCharts' = "loaded"
         /\ dPhase = "drawing" => dCharts' = "loading" /\ BlankView(dView')
         /\ dPhase = "error" => dCharts' = "failed" /\ BlankView(dView')
    <2>1. CASE Mounted
      <3>1. Submit(dView, Rows(cache), TRUE)
        BY <1>4, <2>1
      <3>2. /\ \/ dPhase = "ready" /\ dCharts = "loaded"
               \/ dPhase = "drawing" /\ dCharts = "loading" /\ BlankView(dView)
            /\ dDraws # <<>> => dCharts = "loading"
        BY <1>0, <2>1 DEF Mounted, Phases
      <3> QED BY <1>0, <1>10, <3>1, <3>2, Submitted
    <2>2. CASE ~Mounted
      <3>1. UNCHANGED <<dView, dDraws, dCharts>> /\ dPhase = "error"
        BY <1>4, <1>8, <2>2 DEF Mounted
      <3> QED BY <1>0, <1>8, <3>1 DEF PageTypes, Phases
    <2> QED BY <2>1, <2>2
  <1>12. PageTypes'
    <2>1. dRange' \subseteq SampleNo
      BY <1>0, <1>7 DEF PageTypes
    <2> QED BY <1>0, <1>4, <1>5, <1>7, <1>9, <1>11, <2>1 DEF PageTypes
  <1>13. Phases'
    BY <1>0, <1>4, <1>5, <1>7, <1>8, <1>11 DEF Phases, Early
  <1>14. CardInv'
    BY <1>0, <1>4, <1>5, <1>7, <1>11 DEF CardInv, CardAgreesWithRow
  <1>15. Ahead' /\ (dCache.resource # {} => Newest(dView'.cpu) >= Newest(dView.cpu))
    <2>1. CASE Mounted
      <3>1. Submit(dView, Rows(cache), TRUE)
        BY <1>4, <2>1
      <3>2. dCharts # "failed" /\ (dCharts # "loaded" => dView.cpu = {})
              /\ (dDraws # <<>> => dCharts = "loading")
        BY <1>0, <2>1 DEF Mounted, Phases, BlankView
      <3> QED BY <1>0, <1>4, <1>5, <1>6, <1>10, <3>1, <3>2, DrawnNewer
    <2>2. CASE ~Mounted
      <3>1. UNCHANGED <<dView, dDraws, dCharts>> /\ dDraws = <<>> /\ dView.cpu = {}
        BY <1>0, <1>4, <1>8, <2>2 DEF Mounted, Phases, BlankView
      <3>2. Newest(dView.cpu) = 0 /\ Newest(cache.resource) >= 0
        BY <1>5, <3>1, NewestOf DEF CacheType, SampleNo, Points
      <3> QED BY <1>4, <3>1, <3>2 DEF Ahead
    <2> QED BY <2>1, <2>2
  <1>16. LatestRows
    <2>1. CASE Mounted
      BY <1>0, <1>4, <1>10, <2>1, LatestDrawn
    <2>2. CASE ~Mounted
      BY <1>0, <1>4, <2>2, SameCharts, <1>7, <1>8 DEF Forward
    <2> QED BY <2>1, <2>2
  <1>17. Even'
    <2>1. cache.resource = {} => dCache.resource = {} /\ cache.process = 0
      BY <1>0, <1>5, <1>6 DEF Even
    <2>2. CASE Mounted
      BY <1>0, <1>4, <1>5, <1>10, <2>1, <2>2, EvenDrawn
    <2>3. CASE ~Mounted
      BY <1>0, <1>4, <2>1, <2>3 DEF Even, EvenEnds
    <2> QED BY <2>2, <2>3
  <1> QED BY <1>9, <1>12, <1>13, <1>14, <1>15, <1>16, <1>17 DEF DetailInv, PingKept, Forward

LEMMA LanguageKeeps == ASSUME DetailInv, SwitchLanguage PROVE DetailInv' /\ Forward
  <1>0. PageTypes /\ Phases /\ CardInv /\ PingKept /\ Ahead /\ Even
    BY DEF DetailInv
  <1>1. /\ dPhase \in {"drawing", "ready", "fetching", "late"}
        /\ Submit(dView, Rows(dCache), Mounted)
        /\ UNCHANGED <<dPhase, dSample, dAsked, dCache, dRange, dRefresh, dHeavyDue, dHidden, dPing>>
    BY DEF SwitchLanguage, Mounted
  <1>2. Rows(dCache) \in RowsType /\ dView \in ViewType /\ dCache \in CacheType
          /\ Mounted \in BOOLEAN /\ (dDraws # <<>> => dCharts = "loading")
    BY <1>0, RowsOf DEF PageTypes, Mounted, Phases
  <1>3. \/ Mounted /\ dCharts # "failed" /\ (dCharts # "loaded" => dView.cpu = {})
        \/ dView.cpu = {} /\ ~Mounted
    BY <1>0, <1>1 DEF Phases, Mounted, BlankView
  <1>4. /\ dView' \in ViewType /\ dView'.row = dView.row /\ dView'.card = dView.card
        /\ dDraws' \in Seq(RowsType) /\ dCharts' \in {"none", "loading", "loaded", "failed"}
        /\ dDraws' # <<>> => dCharts' = "loading"
        /\ dCharts \in {"loaded", "failed"} => dCharts' = dCharts
        /\ dCharts = "loading" => dCharts' = "loading"
        /\ ~(dCharts = "loaded" /\ Mounted) => dView' = dView
    BY <1>0, <1>1, <1>2, Submitted
  <1>5. PageTypes'
    BY <1>0, <1>1, <1>4 DEF PageTypes
  <1>6. Phases'
    <2>1. dPhase # "ready" => BlankView(dView')
      BY <1>0, <1>4 DEF Phases, Mounted
    <2> QED BY <1>0, <1>1, <1>4, <2>1 DEF Phases, Early
  <1>7. CardInv' /\ PingKept'
    BY <1>0, <1>1, <1>4 DEF CardInv, CardAgreesWithRow, PingKept
  <1>8. Newest(dCache.resource) >= Newest(dCache.resource)
    BY <1>2, NewestOf DEF CacheType, SampleNo
  <1>9. Ahead' /\ (dCache.resource # {} => Newest(dView'.cpu) >= Newest(dView.cpu))
    <2>1. CASE Mounted
      BY <1>0, <1>1, <1>2, <1>3, <1>8, <2>1, DrawnNewer
    <2>2. CASE ~Mounted
      BY <1>0, <1>1, <1>2, <1>3, <1>8, <2>2, DrawnNewer
    <2> QED BY <2>1, <2>2
  <1>10. LatestRows
    BY <1>0, <1>1, <1>2, LatestDrawn
  <1>11. Even'
    BY <1>0, <1>1, <1>2, EvenDrawn DEF Even
  <1> QED BY <1>5, <1>6, <1>7, <1>9, <1>10, <1>11 DEF DetailInv, Forward

LEMMA TicksKeep == ASSUME DetailInv, RefreshTick \/ TwentySeconds \/ HideOrShow PROVE DetailInv'
  <1>0. PageTypes /\ Phases /\ CardInv /\ PingKept /\ Ahead /\ Even
    BY DEF DetailInv
  <1>1. /\ dPhase = "ready" /\ (dRefresh' = dRefresh \/ dRefresh' = [pc |-> "live", asked |-> dSample])
        /\ UNCHANGED <<dPhase, dSample, dAsked, dCharts, dDraws, dCache, dView, dRange, dPing>>
    BY DEF RefreshTick, TwentySeconds, HideOrShow
  <1>2. dHeavyDue' \in BOOLEAN /\ dHidden' \in BOOLEAN
    BY <1>0 DEF RefreshTick, TwentySeconds, HideOrShow, PageTypes
  <1>3. dRefresh' \in [pc : {"idle", "live", "heavy"}, asked : SampleNo]
    BY <1>0, <1>1 DEF PageTypes
  <1>4. PageTypes'
    BY <1>0, <1>1, <1>2, <1>3 DEF PageTypes
  <1>5. Phases'
    BY <1>0, <1>1 DEF Phases, Early
  <1>6. CardInv' /\ PingKept' /\ Ahead' /\ Even'
    BY <1>0, <1>1 DEF CardInv, CardAgreesWithRow, PingKept, Ahead, Even, EvenEnds
  <1> QED BY <1>4, <1>5, <1>6 DEF DetailInv

LEMMA NewestAdded ==
  ASSUME NEW points \in Points, NEW n \in 1..MaxSample
  PROVE  /\ points \union {n} \in Points
         /\ Newest(points \union {n}) >= n
         /\ n >= Newest(points) => Newest(points \union {n}) = n
  <1>1. points \union {n} \in Points
    BY DEF Points
  <1>2. Newest(points \union {n}) >= n /\ Newest(points \union {n}) \in points \union {n}
    BY <1>1, NewestOf DEF SampleNo
  <1>3. ASSUME n >= Newest(points) PROVE Newest(points \union {n}) = n
    <2>1. \A m \in points : m <= Newest(points)
      BY NewestOf
    <2>2. Newest(points) \in SampleNo
      BY NewestOf
    <2>3. CASE Newest(points \union {n}) \in points
      <3> DEFINE v == Newest(points \union {n})
                 w == Newest(points)
      <3>1. v \in SampleNo /\ v <= w /\ v >= n
        BY <1>1, <1>2, <2>1, <2>3, NewestOf
      <3> HIDE DEF v, w
      <3>2. w \in SampleNo /\ n >= w
        BY <1>3, <2>2 DEF w
      <3>3. v = n
        BY <3>1, <3>2 DEF SampleNo
      <3> QED BY <3>3 DEF v
    <2> QED BY <1>2, <2>3
  <1> QED BY <1>1, <1>2, <1>3

LEMMA LiveKeeps == ASSUME DetailInv, LiveAnswer \/ LiveFails PROVE DetailInv' /\ Forward
  <1>0. PageTypes /\ Phases /\ CardInv /\ PingKept /\ Ahead /\ Even
    BY DEF DetailInv
  <1>1. dRefresh.pc = "live" /\ dPhase = "ready" /\ dCharts = "loaded" /\ dDraws = <<>>
          /\ UNCHANGED <<dPhase, dSample, dAsked, dCharts, dDraws, dRange, dHeavyDue, dHidden, dPing>>
    <2>1. dRefresh.pc = "live"
            /\ UNCHANGED <<dPhase, dSample, dAsked, dCharts, dDraws, dRange, dHeavyDue, dHidden, dPing>>
      BY DEF LiveAnswer, LiveFails
    <2>2. dRefresh # NoRefresh
      BY <2>1 DEF NoRefresh
    <2> QED BY <1>0, <2>1, <2>2 DEF Phases
  <1>2. \A view : Continue(view) =>
          /\ dRefresh' \in [pc : {"idle", "live", "heavy"}, asked : SampleNo]
          /\ dView' = IF dHeavyDue THEN view ELSE [view EXCEPT !.card = view.row]
    BY <1>0, DetailBounds DEF Continue, RebuildPanel, NoRefresh, PageTypes, SampleNo
  <1>3. \A view \in ViewType, health \in SampleNo : Continue(ShowHealth(view, health)) =>
          /\ dView' \in ViewType /\ dView'.row = health /\ dView'.card = health
          /\ dView'.cpu = view.cpu /\ dView'.process = view.process /\ dView'.net = view.net
          /\ dRefresh' \in [pc : {"idle", "live", "heavy"}, asked : SampleNo]
    <2> TAKE view \in ViewType, health \in SampleNo
    <2> HAVE Continue(ShowHealth(view, health))
    <2> DEFINE shown == ShowHealth(view, health)
    <2>1. shown \in ViewType /\ shown.row = health /\ shown.card = health /\ shown.cpu = view.cpu
            /\ shown.process = view.process /\ shown.net = view.net
      BY DEF ShowHealth, ViewType
    <2> HIDE DEF shown
    <2>2. [shown EXCEPT !.card = shown.row] \in ViewType
            /\ [shown EXCEPT !.card = shown.row].row = health
            /\ [shown EXCEPT !.card = shown.row].card = health
            /\ [shown EXCEPT !.card = shown.row].cpu = view.cpu
            /\ [shown EXCEPT !.card = shown.row].process = view.process
            /\ [shown EXCEPT !.card = shown.row].net = view.net
      BY <2>1 DEF ViewType
    <2>3. dView' = IF dHeavyDue THEN shown ELSE [shown EXCEPT !.card = shown.row]
      BY <1>2 DEF shown
    <2>4. dRefresh' \in [pc : {"idle", "live", "heavy"}, asked : SampleNo]
      BY <1>2
    <2> QED BY <2>1, <2>2, <2>3, <2>4
  <1>4. dCache \in CacheType /\ dView \in ViewType /\ dCache.health \in SampleNo
          /\ dCache.live \in SampleNo /\ dCache.resource \in Points /\ dView.cpu \in Points
          /\ dCache.live <= dCache.health
    BY <1>0 DEF PageTypes, CacheType, ViewType, CardInv
  <1>5. SUFFICES /\ dCache' \in CacheType /\ dView' \in ViewType
                 /\ dRefresh' \in [pc : {"idle", "live", "heavy"}, asked : SampleNo]
                 /\ dView'.row = dView'.card /\ dView'.row >= dCache'.live
                 /\ dCache'.live <= dCache'.health
                 /\ Newest(dView'.cpu) >= Newest(dView.cpu)
                 /\ dView'.process >= dView.process /\ dView'.net >= dView.net
                 /\ dCache'.resource # {} => Newest(dView'.cpu) <= Newest(dCache'.resource)
                 /\ dCache'.resource = {} => dCache'.process = 0 /\ EvenEnds(dView')
    <2>1. PageTypes'
      BY <1>0, <1>1, <1>5 DEF PageTypes
    <2>2. Phases'
      BY <1>0, <1>1 DEF Phases, Early
    <2>3. CardInv' /\ PingKept' /\ Ahead' /\ Even'
      BY <1>0, <1>1, <1>5 DEF CardInv, CardAgreesWithRow, PingKept, Ahead, Even
    <2>4. Forward
      BY <1>4, <1>5 DEF Forward, LatestRows, ViewType, SampleNo
    <2> QED BY <2>1, <2>2, <2>3, <2>4 DEF DetailInv
  <1>6. CASE LiveFails
    <2>1. dCache' = dCache /\ Continue(ShowHealth(dView, dCache.health))
      BY <1>6 DEF LiveFails
    <2>2. dView' \in ViewType /\ dView'.row = dCache.health /\ dView'.card = dCache.health
            /\ dView'.cpu = dView.cpu /\ dView'.process = dView.process /\ dView'.net = dView.net
            /\ dRefresh' \in [pc : {"idle", "live", "heavy"}, asked : SampleNo]
      BY <1>3, <1>4, <2>1
    <2>3. Newest(dView.cpu) >= Newest(dView.cpu) /\ dView.process >= dView.process
            /\ dView.net >= dView.net
      BY <1>4, NewestOf DEF SampleNo, ViewType
    <2> QED BY <1>0, <1>4, <2>1, <2>2, <2>3 DEF Ahead, Even, EvenEnds
  <1>7. CASE LiveAnswer
    <2>1. PICK n \in dRefresh.asked..dSample, history \in BOOLEAN :
            LET health == AcceptHealth(dCache.health, n)
                new == n > dCache.live
                appended == new /\ \E last \in {Newest(dView.cpu), dView.process} :
                                      n > last \/ (n = last /\ history)
            IN  /\ dCache' = [dCache EXCEPT
                                !.health = health,
                                !.live = IF new THEN n ELSE @,
                                !.resource = IF appended THEN @ \union {n} ELSE @]
                /\ Continue(ShowHealth(IF new THEN AppendLive(dView, n) ELSE dView, health))
      BY <1>7 DEF LiveAnswer
    <2>2. n \in SampleNo
      BY <1>0, DetailBounds DEF PageTypes, SampleNo
    <2> DEFINE health == AcceptHealth(dCache.health, n)
               new == n > dCache.live
               latest == Newest(dView.cpu)
               appended == new /\ \E last \in {Newest(dView.cpu), dView.process} :
                                     n > last \/ (n = last /\ history)
               live == IF new THEN n ELSE dCache.live
               resource == IF appended THEN dCache.resource \union {n} ELSE dCache.resource
               view == IF new THEN AppendLive(dView, n) ELSE dView
    <2>3. health \in SampleNo /\ health >= n /\ health >= dCache.health
      BY <1>4, <2>2 DEF AcceptHealth, SampleNo
    <2>4. dCache' = [dCache EXCEPT !.health = health, !.live = live, !.resource = resource]
            /\ Continue(ShowHealth(view, health))
      BY <2>1
    <2> HIDE DEF health
    <2>5. live \in SampleNo /\ live <= health
      BY <1>4, <2>2, <2>3 DEF SampleNo
    <2>6. latest \in SampleNo
      BY <1>4, NewestOf
    <2>7. new => n \in 1..MaxSample
      BY <1>4, <2>2 DEF SampleNo
    <2>8. resource \in Points /\ dCache.resource \subseteq resource
      BY <1>4, <2>7 DEF Points
    <2> HIDE DEF live, latest
    <2>9. /\ view \in ViewType
          /\ view.cpu = IF new /\ n >= latest THEN dView.cpu \union {n} ELSE dView.cpu
          /\ view.process = (IF new /\ n >= dView.process THEN n ELSE dView.process)
          /\ view.net = dView.net
      <3>1. CASE new
        <4> DEFINE cpu == IF n < Newest(dView.cpu) THEN dView.cpu ELSE dView.cpu \union {n}
                   process == Max({dView.process, n})
        <4>1. view = [dView EXCEPT !.cpu = cpu, !.process = process]
          BY <3>1 DEF AppendLive
        <4>2. cpu \in Points
          BY <1>4, <2>7, <3>1, NewestAdded
        <4>3. process \in SampleNo /\ process = IF n >= dView.process THEN n ELSE dView.process
          <5>1. dView.process \in SampleNo
            BY <1>4 DEF ViewType
          <5>2. Max({dView.process, n}) \in {dView.process, n}
                  /\ Max({dView.process, n}) >= dView.process /\ Max({dView.process, n}) >= n
            <6> DEFINE old == dView.process
            <6>1. old \in Int /\ n \in Int
              BY <2>2, <5>1 DEF SampleNo
            <6> HIDE DEF old
            <6>2. Max({old, n}) \in {old, n} /\ Max({old, n}) >= old /\ Max({old, n}) >= n
              BY <6>1, MaxOfTwo
            <6> QED BY <6>2 DEF old
          <5> QED BY <2>2, <5>1, <5>2 DEF SampleNo
        <4>4. cpu = IF n >= latest THEN dView.cpu \union {n} ELSE dView.cpu
          BY <2>2, <2>6 DEF latest, SampleNo
        <4> HIDE DEF cpu, process
        <4> QED BY <1>4, <3>1, <4>1, <4>2, <4>3, <4>4 DEF ViewType
      <3>2. CASE ~new
        <4>1. view = dView
          BY <3>2
        <4> QED BY <1>4, <3>2, <4>1 DEF ViewType, SampleNo
      <3> QED BY <3>1, <3>2
    <2>10. Newest(view.cpu) >= latest /\ (new /\ n >= latest => Newest(view.cpu) = n)
             /\ (~(new /\ n >= latest) => Newest(view.cpu) = latest)
      <3>1. CASE new /\ n >= latest
        BY <1>4, <2>2, <2>6, <2>7, <2>9, <3>1, NewestAdded DEF latest, SampleNo
      <3>2. CASE ~(new /\ n >= latest)
        BY <1>4, <2>6, <2>9, <3>2 DEF latest, SampleNo
      <3> QED BY <3>1, <3>2
    <2>11. resource # {} => Newest(view.cpu) <= Newest(resource)
      <3> SUFFICES ASSUME resource # {} PROVE Newest(view.cpu) <= Newest(resource)
        OBVIOUS
      <3>1. Newest(resource) \in SampleNo
        BY <2>8, NewestOf
      <3>2. latest <= Newest(resource)
        <4>1. CASE dCache.resource # {}
          BY <1>0, <1>4, <2>6, <2>8, <3>1, <4>1, NewestGrows, NewestOf DEF Ahead, latest, SampleNo
        <4>2. CASE dCache.resource = {}
          <5>1. appended /\ resource = {n} /\ new
            BY <4>2
          <5>2. dView.process = latest
            BY <1>0, <4>2 DEF Even, EvenEnds, latest
          <5>3. n >= latest
            BY <2>2, <2>6, <5>1, <5>2 DEF latest, SampleNo
          <5>4. Newest(resource) >= n
            BY <1>4, <2>7, <5>1, NewestAdded
          <5> QED BY <2>2, <2>6, <3>1, <5>3, <5>4 DEF SampleNo
        <4> QED BY <4>1, <4>2
      <3>3. new /\ n >= latest /\ n # latest => n <= Newest(resource)
        BY <1>4, <2>2, <2>6, <2>7, NewestAdded DEF latest, SampleNo
      <3> QED BY <2>2, <2>6, <2>10, <3>1, <3>2, <3>3 DEF SampleNo
    <2>11a. resource = {} => dCache.process = 0 /\ view.process = Newest(view.cpu)
      <3> SUFFICES ASSUME resource = {} PROVE dCache.process = 0 /\ view.process = Newest(view.cpu)
        OBVIOUS
      <3>1. ~appended /\ dCache.resource = {}
        OBVIOUS
      <3>2. dCache.process = 0 /\ dView.process = latest
        BY <1>0, <3>1 DEF Even, EvenEnds, latest
      <3>3. new /\ n >= latest => n = latest
        BY <2>2, <2>6, <3>1 DEF latest, SampleNo
      <3> QED BY <2>2, <2>6, <2>9, <2>10, <3>2, <3>3
    <2>11b. view.process >= dView.process /\ view.net >= dView.net
      BY <1>4, <2>2, <2>9 DEF ViewType, SampleNo
    <2> HIDE DEF view, resource, new, appended
    <2>12. dCache' \in CacheType /\ dCache'.live = live /\ dCache'.health = health
             /\ dCache'.resource = resource /\ dCache'.process = dCache.process
      BY <1>4, <2>3, <2>4, <2>5, <2>8 DEF CacheType
    <2>13. dView' \in ViewType /\ dView'.row = health /\ dView'.card = health /\ dView'.cpu = view.cpu
             /\ dView'.process = view.process /\ dView'.net = view.net
             /\ dRefresh' \in [pc : {"idle", "live", "heavy"}, asked : SampleNo]
      BY <1>3, <2>3, <2>4, <2>9
    <2>14. health >= live
      BY <2>3, <2>5 DEF SampleNo
    <2> QED BY <2>5, <2>10, <2>11, <2>12, <2>13, <2>14, <2>11a, <2>11b DEF latest, EvenEnds
  <1> QED BY <1>6, <1>7

\* The charts are there: what the aggregate brought is drawn at once.
LEMMA FinishKeeps ==
  ASSUME DetailInv, dRefresh.pc = "heavy", NEW cache \in CacheType, FinishHeavy(cache),
         cache.live = dCache.live, cache.health >= dCache.health,
         dCache.resource # {} => /\ cache.resource # {}
                                 /\ Newest(cache.resource) >= Newest(dCache.resource),
         cache.resource = {} => cache.process = 0,
         dPing' \in [cache : SampleNo, stored : SampleNo], dPing'.cache >= dPing'.stored
  PROVE  DetailInv' /\ Forward
  <1>0. PageTypes /\ Phases /\ CardInv /\ PingKept /\ Ahead /\ Even
    BY DEF DetailInv
  <1>1. dPhase = "ready" /\ dCharts = "loaded" /\ dDraws = <<>>
    BY <1>0 DEF Phases, NoRefresh
  <1> DEFINE view == RebuildPanel(dView, cache)
  <1>2. /\ dCache' = cache /\ dRefresh' = NoRefresh /\ dHeavyDue' = FALSE
        /\ Submit(view, Rows(cache), TRUE)
        /\ UNCHANGED <<dPhase, dSample, dAsked, dRange, dHidden>>
    BY DEF FinishHeavy
  <1>3. view \in ViewType /\ view.cpu = dView.cpu /\ view.card = dView.row /\ view.row = dView.row
          /\ view.process = dView.process /\ view.net = dView.net
    BY <1>0 DEF RebuildPanel, PageTypes, ViewType
  <1> HIDE DEF view
  <1>4. Rows(cache) \in RowsType
    BY RowsOf
  <1>5. /\ dView' \in ViewType /\ dView'.row = dView.row /\ dView'.card = dView.row
        /\ dDraws' = <<>> /\ dCharts' = "loaded"
    BY <1>0, <1>1, <1>2, <1>3, <1>4, Submitted
  <1>6. NoRefresh \in [pc : {"idle", "live", "heavy"}, asked : SampleNo]
    BY DetailBounds DEF NoRefresh, SampleNo
  <1>7. PageTypes'
    <2>1. dDraws' \in Seq(RowsType)
      BY <1>5
    <2> QED BY <1>0, <1>2, <1>5, <1>6, <2>1 DEF PageTypes
  <1>8. Phases'
    BY <1>0, <1>1, <1>2, <1>5 DEF Phases, Early
  <1>9. CardInv'
    <2>1. cache.live <= cache.health
      BY <1>0 DEF CardInv, PageTypes, CacheType, SampleNo
    <2>2. dCache.live > 0 => dView.row >= dCache.live
      BY <1>0, <1>1 DEF CardInv, CardAgreesWithRow
    <2> QED BY <1>2, <1>5, <2>1, <2>2 DEF CardInv, CardAgreesWithRow
  <1>10. Ahead' /\ (dCache.resource # {} => Newest(dView'.cpu) >= Newest(dView.cpu))
    BY <1>0, <1>1, <1>2, <1>3, DrawnNewer
  <1>11. LatestRows
    BY <1>0, <1>2, <1>3, LatestDrawn
  <1>12. Even'
    BY <1>0, <1>2, <1>3, EvenDrawn
  <1> QED BY <1>7, <1>8, <1>9, <1>10, <1>11, <1>12 DEF DetailInv, PingKept, Forward

LEMMA HeavyKeeps == ASSUME DetailInv, HeavyAnswer \/ HeavyFails PROVE DetailInv' /\ Forward
  <1>0. PageTypes /\ Phases /\ CardInv /\ PingKept /\ Ahead /\ Even
    BY DEF DetailInv
  <1>1. dRefresh.pc = "heavy" /\ dPhase = "ready"
    <2>1. dRefresh.pc = "heavy"
      BY DEF HeavyAnswer, HeavyFails
    <2>2. dRefresh # NoRefresh
      BY <2>1 DEF NoRefresh
    <2> QED BY <1>0, <2>1, <2>2 DEF Phases
  <1>2. dPing.cache >= dPing.stored /\ dPing \in [cache : SampleNo, stored : SampleNo]
          /\ dCache \in CacheType /\ dCache.resource \in Points /\ dCache.health \in SampleNo
          /\ dRefresh.asked \in SampleNo /\ dSample \in SampleNo /\ dCache.net \in SampleNo
          /\ dCache.process \in SampleNo
    BY <1>0, <1>1 DEF PingKept, PageTypes, CacheType
  <1>3. CASE HeavyFails
    <2>1. FinishHeavy(dCache) /\ dPing' = dPing
      BY <1>3 DEF HeavyFails
    <2>2. Newest(dCache.resource) >= Newest(dCache.resource) /\ dCache.health >= dCache.health
      BY <1>2, NewestOf DEF SampleNo
    <2>3. dCache.resource = {} => dCache.process = 0
      BY <1>0 DEF Even
    <2> QED BY <1>1, <1>2, <2>1, <2>2, <2>3, FinishKeeps
  <1>4. CASE HeavyAnswer
    <2>0. PICK n \in Answers(dRefresh.asked), available \in BOOLEAN : \E rows \in Timelines(n) :
            /\ FinishHeavy([dCache EXCEPT !.net = IF n > 0 THEN n ELSE @,
                                          !.resource = MergeHistory(@, rows),
                                          !.process = NewestCount(rows, @),
                                          !.health = AcceptHealth(@, n)])
            /\ dPing' = MergePing(dPing, available, n)
      BY <1>4 DEF HeavyAnswer
    <2>1. PICK rows \in Timelines(n) :
            /\ FinishHeavy([dCache EXCEPT !.net = IF n > 0 THEN n ELSE @,
                                          !.resource = MergeHistory(@, rows),
                                          !.process = NewestCount(rows, @),
                                          !.health = AcceptHealth(@, n)])
            /\ dPing' = MergePing(dPing, available, n)
      BY <2>0
    <2>2. n \in SampleNo /\ rows \in Points
      BY <1>2, AnswersType
    <2> DEFINE resource == MergeHistory(dCache.resource, rows)
               health == AcceptHealth(dCache.health, n)
               net == IF n > 0 THEN n ELSE dCache.net
               process == NewestCount(rows, dCache.process)
               cache == [dCache EXCEPT !.net = net, !.resource = resource, !.process = process,
                                       !.health = health]
    <2>3. resource \in Points /\ (dCache.resource # {} =>
            resource # {} /\ Newest(resource) >= Newest(dCache.resource))
      BY <1>2, <2>2, MergeHistoryKeeps
    <2>4. health \in SampleNo /\ health >= dCache.health /\ net \in SampleNo
      BY <1>2, <2>2 DEF AcceptHealth, SampleNo
    <2>5. FinishHeavy(cache) /\ dPing' = MergePing(dPing, available, n)
      BY <2>1
    <2>6. process \in SampleNo /\ (resource = {} => process = 0)
      <3>1. process \in SampleNo
        BY <1>2, <2>2, NewestCountType
      <3>2. resource = {} => rows = {} /\ dCache.process = 0
        BY <1>0, <1>2, <2>2, <2>3, MergeHistoryKeeps DEF Even
      <3> QED BY <3>1, <3>2 DEF NewestCount
    <2> HIDE DEF resource, health, net, process
    <2>7. cache \in CacheType /\ cache.live = dCache.live /\ cache.health = health
            /\ cache.resource = resource /\ cache.process = process
      BY <1>2, <2>3, <2>4, <2>6 DEF CacheType
    <2> HIDE DEF cache
    <2>8. dPing' \in [cache : SampleNo, stored : SampleNo] /\ dPing'.cache >= dPing'.stored
      BY <1>2, <2>2, <2>5, PingMerged
    <2> QED BY <1>1, <2>3, <2>4, <2>5, <2>6, <2>7, <2>8, FinishKeeps
  <1> QED BY <1>3, <1>4

LEMMA ReloadKeeps == ASSUME DetailInv, DetailReload PROVE DetailInv' /\ Forward
  <1>0. PageTypes
    BY DEF DetailInv
  <1>1. /\ dPhase' = "boot" /\ dAsked' = 0 /\ dCharts' = "none" /\ dDraws' = <<>>
        /\ dCache' = EmptyCache /\ dView' = EmptyView /\ dRange' = {} /\ dRefresh' = NoRefresh
        /\ dHeavyDue' = FALSE /\ dHidden' = FALSE /\ dPing' = [dPing EXCEPT !.cache = 0]
        /\ UNCHANGED dSample
    BY DEF DetailReload
  <1>2. 0 \in SampleNo
    BY DetailBounds DEF SampleNo
  <1>3. EmptyCache \in CacheType /\ EmptyView \in ViewType /\ EmptyCache.live = 0 /\ EmptyCache.health = 0
          /\ EmptyView.cpu = {} /\ BlankView(EmptyView) /\ EmptyCache.resource = {}
    BY <1>2 DEF EmptyCache, EmptyView, CacheType, ViewType, Points, BlankView
  <1>4. PageTypes'
    <2>1. /\ dPing' \in [cache : SampleNo, stored : SampleNo]
          /\ NoRefresh \in [pc : {"idle", "live", "heavy"}, asked : SampleNo]
          /\ <<>> \in Seq(RowsType) /\ {} \subseteq SampleNo
      BY <1>0, <1>1, <1>2 DEF NoRefresh, PageTypes
    <2> QED BY <1>0, <1>1, <1>2, <1>3, <2>1 DEF PageTypes
  <1>5. Phases' /\ CardInv' /\ PingKept' /\ Ahead' /\ Even'
    BY <1>1, <1>3 DEF Phases, CardInv, CardAgreesWithRow, PingKept, Ahead, Even, EvenEnds,
       EmptyCache, EmptyView, Newest
  <1> QED BY <1>1, <1>4, <1>5 DEF DetailInv, Forward

LEMMA DetailInvStep == DetailInv /\ [DetailStep]_detailVars => DetailInv' /\ Forward
  <1> SUFFICES ASSUME DetailInv, [DetailStep]_detailVars PROVE DetailInv' /\ Forward
    OBVIOUS
  <1>0. PageTypes /\ Phases
    BY DEF DetailInv
  <1>1. CASE UNCHANGED detailVars
    <2>1. DetailInv'
      BY <1>1 DEF detailVars, DetailInv, PageTypes, Phases, CardInv, CardAgreesWithRow, PingKept, Ahead, Even, EvenEnds
    <2> QED BY <1>0, <1>1, <2>1, SameCharts DEF detailVars
  <1>2. CASE AgentSamples \/ RenderStart \/ BudgetExpires \/ RenderFails
    <2>1. dView' = dView
      BY <1>2 DEF AgentSamples, RenderStart, BudgetExpires, RenderFails
    <2> QED BY <1>0, <1>2, <2>1, SameCharts, StartKeepsDetail
  <1>3. CASE RenderAnswer \/ ChartsLoaded \/ ChartsFail
    <2>1. DetailInv'
      BY <1>3, RenderAnswerKeeps, ImportKeeps
    <2>2. BlankView(dView)
      BY <1>0, <1>3 DEF RenderAnswer, ChartsLoaded, ChartsFail, Phases
    <2>3. Newest(dView'.cpu) >= 0 /\ Newest(dView.cpu) = 0
      <3>1. dView'.cpu \in Points /\ {} \in Points
        BY <2>1 DEF DetailInv, PageTypes, ViewType, Points
      <3> QED BY <2>2, <3>1, NewestOf DEF SampleNo, BlankView
    <2>4. LatestRows
      <3>1. dView'.process \in SampleNo /\ dView'.net \in SampleNo
        BY <2>1 DEF DetailInv, PageTypes, ViewType
      <3> QED BY <2>2, <3>1 DEF LatestRows, SampleNo, BlankView
    <2> QED BY <2>1, <2>3, <2>4 DEF Forward
  <1>4. CASE RangeClick
    <2>1. dView' = dView
      BY <1>4 DEF RangeClick
    <2> QED BY <1>0, <1>4, <2>1, SameCharts, RangeClickKeeps
  <1>5. CASE RefreshTick \/ TwentySeconds \/ HideOrShow
    <2>1. dView' = dView
      BY <1>5 DEF RefreshTick, TwentySeconds, HideOrShow
    <2> QED BY <1>0, <1>5, <2>1, SameCharts, TicksKeep
  <1> QED BY <1>1, <1>2, <1>3, <1>4, <1>5, RangeSettlesKeeps, LanguageKeeps, LiveKeeps,
             HeavyKeeps, ReloadKeeps DEF DetailStep

\* What is stored of the PING chart only grows.
LEMMA PingStepForward == DetailInv /\ [DetailStep]_detailVars => PingForward
  <1> SUFFICES ASSUME DetailInv, [DetailStep]_detailVars PROVE PingForward
    OBVIOUS
  <1>0. PageTypes /\ Phases /\ PingKept
    BY DEF DetailInv
  <1>1. PageTypes' /\ PingKept'
    BY DetailInvStep DEF DetailInv
  <1>2. Mounted' => dPing'.cache >= dPing'.stored
    BY <1>1 DEF Mounted, PingKept
  <1> SUFFICES dPing'.stored >= dPing.stored
    BY <1>2 DEF PingForward
  <1>3. dPing \in [cache : SampleNo, stored : SampleNo] /\ dPing.stored \in SampleNo
          /\ dPing.stored >= dPing.stored
    BY <1>0 DEF PageTypes, SampleNo
  <1>4. CASE dPing' = dPing
    BY <1>3, <1>4
  <1>5. CASE RenderStart
    BY <1>3, <1>5, PingLoaded DEF RenderStart
  <1>6. CASE RenderAnswer
    <2>1. PICK n \in Answers(dAsked), available \in BOOLEAN :
            dPing' = MergePing(LoadPing(dPing), available, n)
      BY <1>6 DEF RenderAnswer
    <2>2. n \in SampleNo
      BY <1>0, AnswersType DEF PageTypes
    <2> QED BY <1>3, <2>1, <2>2, PingLoaded, PingMerged
  <1>7. ASSUME NEW r \in dRange, RangeSettles(r) PROVE dPing'.stored >= dPing.stored
    <2>1. PICK n \in Answers(r) \union {0}, available \in BOOLEAN :
            dPing' = MergePing(dPing, available, n)
      BY <1>7 DEF RangeSettles
    <2>2. n \in SampleNo
      BY <1>0, AnswersType, DetailBounds DEF PageTypes, SampleNo
    <2>3. dPing.cache >= dPing.stored
      BY <1>0, <1>7 DEF Phases, Early, PingKept
    <2> QED BY <1>3, <2>1, <2>2, <2>3, PingMerged
  <1>8. CASE HeavyAnswer
    <2>1. PICK n \in Answers(dRefresh.asked), available \in BOOLEAN :
            dPing' = MergePing(dPing, available, n)
      BY <1>8 DEF HeavyAnswer
    <2>2. n \in SampleNo
      BY <1>0, AnswersType DEF PageTypes
    <2>3. dPing.cache >= dPing.stored
      BY <1>0, <1>8 DEF HeavyAnswer, Phases, NoRefresh, PingKept
    <2> QED BY <1>3, <2>1, <2>2, <2>3, PingMerged
  <1>9. CASE DetailReload
    BY <1>3, <1>9 DEF DetailReload
  <1>10. CASE UNCHANGED detailVars
    BY <1>4, <1>10 DEF detailVars
  <1> QED BY <1>4, <1>5, <1>6, <1>7, <1>8, <1>9, <1>10 DEF DetailStep, AgentSamples, BudgetExpires,
             RenderFails, ChartsLoaded, ChartsFail, RangeClick, SwitchLanguage, RefreshTick, LiveAnswer,
             LiveFails, HeavyFails, TwentySeconds, HideOrShow

\* No more draws wait than were asked for, one of them by the page itself.
DrawsWaiting == Len(dDraws) + Cardinality(dRange)
DrawsBounded ==
  /\ IsFiniteSet(dRange)
  /\ DrawsWaiting <= IF dPhase \in Early THEN MaxRange ELSE MaxRange + 1

LEMMA DrawsSubmitted ==
  ASSUME PageTypes, NEW view, NEW rows, NEW mounted, Submit(view, rows, mounted)
  PROVE  Len(dDraws') \in Nat /\ (dDraws' = dDraws \/ Len(dDraws') = Len(dDraws) + 1)
         /\ (dCharts = "loaded" => dDraws' = dDraws)
  BY DEF PageTypes, Submit

LEMMA DrawsInit == DetailInit => DrawsBounded
  BY FS_EmptySet, DetailBounds DEF DetailInit, DrawsBounded, DrawsWaiting, Early

LEMMA DrawsStep == DetailInv /\ DrawsBounded /\ [DetailStep]_detailVars => DrawsBounded'
  <1> SUFFICES ASSUME DetailInv, DrawsBounded, [DetailStep]_detailVars PROVE DrawsBounded'
    OBVIOUS
  <1>0. PageTypes /\ Phases /\ IsFiniteSet(dRange)
    BY DEF DetailInv, DrawsBounded
  <1>1. Len(dDraws) \in Nat /\ Cardinality(dRange) \in Nat /\ MaxRange \in Nat
    BY <1>0, FS_CardinalityType, DetailBounds DEF PageTypes
  <1>2. CASE dDraws' \in {dDraws, <<>>} /\ dRange' \in {dRange, {}} /\ (dPhase' \in Early => dPhase \in Early)
    <2>1. IsFiniteSet(dRange') /\ Cardinality(dRange') <= Cardinality(dRange) /\ Cardinality(dRange') \in Nat
      <3>1. CASE dRange' = dRange
        BY <1>0, <1>1, <3>1
      <3>2. CASE dRange' = {}
        BY <1>1, <3>2, FS_EmptySet
      <3> QED BY <1>2, <3>1, <3>2
    <2>2. Len(dDraws') <= Len(dDraws) /\ Len(dDraws') \in Nat
      BY <1>1, <1>2
    <2> QED BY <1>1, <1>2, <2>1, <2>2 DEF DrawsBounded, DrawsWaiting
  <1>3. CASE DetailReload
    BY <1>1, <1>3, FS_EmptySet DEF DetailReload, DrawsBounded, DrawsWaiting, Early
  <1>4. CASE RenderAnswer
    <2>1. Len(dDraws') \in Nat /\ Len(dDraws') <= Len(dDraws) + 1
      <3>1. PICK view, rows : Submit(view, rows, TRUE)
        BY <1>4 DEF RenderAnswer
      <3>2. Len(dDraws') \in Nat /\ (dDraws' = dDraws \/ Len(dDraws') = Len(dDraws) + 1)
        BY <1>0, <3>1, DrawsSubmitted
      <3> QED BY <1>1, <3>2
    <2>2. dPhase \in Early /\ dPhase' \notin Early /\ dRange' = dRange
      BY <1>4 DEF RenderAnswer, Drawn, Early
    <2> QED BY <1>1, <2>1, <2>2 DEF DrawsBounded, DrawsWaiting
  <1>5. CASE RangeClick
    <2>1. /\ IsFiniteSet(dRange') /\ Cardinality(dRange') \in Nat
          /\ Cardinality(dRange') <= Cardinality(dRange) + 1
      <3>1. dRange' = dRange \union {dSample}
        BY <1>5 DEF RangeClick
      <3>2. /\ IsFiniteSet(dRange \union {dSample})
            /\ Cardinality(dRange \union {dSample}) \in {Cardinality(dRange), Cardinality(dRange) + 1}
        BY <1>0, FS_AddElement
      <3> QED BY <1>1, <3>1, <3>2
    <2>2. DrawsWaiting < MaxRange /\ dPhase' = dPhase /\ dDraws' = dDraws
      BY <1>5 DEF RangeClick, DrawsWaiting
    <2> QED BY <1>1, <2>1, <2>2 DEF DrawsBounded, DrawsWaiting
  <1>6. ASSUME NEW r \in dRange, RangeSettles(r) PROVE DrawsBounded'
    <2>1. /\ IsFiniteSet(dRange') /\ Cardinality(dRange') \in Nat
          /\ Cardinality(dRange') = Cardinality(dRange) - 1
      BY <1>0, <1>1, <1>6, FS_RemoveElement, FS_CardinalityType DEF RangeSettles
    <2>2. Len(dDraws') \in Nat /\ Len(dDraws') <= Len(dDraws) + 1 /\ dPhase' = dPhase
      <3>1. (\E view, rows : Submit(view, rows, TRUE)) \/ dDraws' = dDraws
        BY <1>6 DEF RangeSettles
      <3>2. dPhase' = dPhase
        BY <1>6 DEF RangeSettles
      <3>3. CASE dDraws' = dDraws
        BY <1>1, <3>2, <3>3
      <3>4. CASE \E view, rows : Submit(view, rows, TRUE)
        <4>1. PICK view, rows : Submit(view, rows, TRUE)
          BY <3>4
        <4>2. Len(dDraws') \in Nat /\ (dDraws' = dDraws \/ Len(dDraws') = Len(dDraws) + 1)
          BY <1>0, <4>1, DrawsSubmitted
        <4> QED BY <1>1, <3>2, <4>2
      <3> QED BY <3>1, <3>3, <3>4
    <2> QED BY <1>1, <2>1, <2>2 DEF DrawsBounded, DrawsWaiting
  <1>7. CASE SwitchLanguage
    <2>1. Len(dDraws') \in Nat /\ Len(dDraws') <= Len(dDraws) + 1
      BY <1>0, <1>1, <1>7, DrawsSubmitted DEF SwitchLanguage
    <2>2. DrawsWaiting < MaxRange /\ dPhase' = dPhase /\ dRange' = dRange
      BY <1>7 DEF SwitchLanguage, DrawsWaiting
    <2> QED BY <1>0, <1>1, <2>1, <2>2 DEF DrawsBounded, DrawsWaiting
  <1>8. CASE HeavyAnswer \/ HeavyFails
    <2>1. dCharts = "loaded"
      <3>1. dRefresh.pc = "heavy"
        BY <1>8 DEF HeavyAnswer, HeavyFails
      <3>2. dRefresh # NoRefresh
        BY <3>1 DEF NoRefresh
      <3> QED BY <1>0, <3>2 DEF Phases
    <2>2. dDraws' = dDraws
      BY <1>0, <1>8, <2>1, DrawsSubmitted DEF HeavyAnswer, HeavyFails, FinishHeavy
    <2>3. dPhase' = dPhase /\ dRange' = dRange
      BY <1>8 DEF HeavyAnswer, HeavyFails, FinishHeavy
    <2> QED BY <1>2, <2>2, <2>3
  <1>9. CASE AgentSamples \/ RenderStart \/ BudgetExpires \/ RenderFails \/ ChartsLoaded \/ ChartsFail
    <2>1. dDraws' \in {dDraws, <<>>} /\ dRange' = dRange
      BY <1>9 DEF AgentSamples, RenderStart, BudgetExpires, RenderFails, ChartsLoaded, ChartsFail
    <2>2. dPhase' \in Early => dPhase \in Early
      BY <1>9 DEF AgentSamples, RenderStart, BudgetExpires, RenderFails, ChartsLoaded, ChartsFail, Early
    <2> QED BY <1>2, <2>1, <2>2
  <1>10. CASE RefreshTick \/ LiveAnswer \/ LiveFails \/ TwentySeconds \/ HideOrShow \/ UNCHANGED detailVars
    <2>1. UNCHANGED <<dDraws, dRange, dPhase>>
      BY <1>10 DEF RefreshTick, LiveAnswer, LiveFails, TwentySeconds, HideOrShow, detailVars
    <2> QED BY <1>2, <2>1
  <1> QED BY <1>3, <1>4, <1>5, <1>6, <1>7, <1>8, <1>9, <1>10 DEF DetailStep

LEMMA DetailInvImplies == DetailInv /\ DrawsBounded => DetailTypeOK /\ CardAgreesWithRow
  <1> SUFFICES ASSUME DetailInv, DrawsBounded PROVE DetailTypeOK /\ CardAgreesWithRow
    OBVIOUS
  <1>1. PageTypes /\ CardAgreesWithRow
    BY DEF DetailInv, CardInv
  <1>2. Len(dDraws) \in Nat /\ Cardinality(dRange) \in Nat /\ MaxRange \in Nat
    BY <1>1, FS_CardinalityType, DetailBounds DEF PageTypes, DrawsBounded
  <1>3. Len(dDraws) <= MaxRange + 1
    BY <1>2 DEF DrawsBounded, DrawsWaiting
  <1>4. DetailTypeOK
    BY <1>1, <1>3 DEF PageTypes, DetailTypeOK, CacheType, ViewType, Points
  <1> QED BY <1>1, <1>4

-----------------------------------------------------------------------------
(* The verdict.                                                             *)

Moment == 0..MaxClock
Status == {"unknown", "online", "offline"}
Level == {"fine", "high", "critical"}
UpdateType == [at : 1..MaxClock, status : Status, level : Level, sample : BOOLEAN]
LiveType ==
  [at : Moment, status : Status \union {"none"}, level : Level, loss : Losses \union {"unknown"}]

\* The row's time moves on with every change, so that it names the change.
HistoryInv ==
  /\ eUpdates \in Seq(UpdateType) /\ Len(eUpdates) \in 1..MaxUpdates
  /\ \A i, j \in 1..Len(eUpdates) : i < j => eUpdates[i].at < eUpdates[j].at
  /\ \A i \in 1..Len(eUpdates) : eUpdates[i].at <= eClock

\* The snapshot is the newest row and the newest sample that were received.
SeenInv ==
  /\ eSnapshot.live \in LiveType /\ eSnapshot.raw.latest \in Moment
  /\ eSeen \in [row : Moment, sample : Moment, loss : BOOLEAN]
  /\ eSnapshot.live.at = eSeen.row /\ eSnapshot.raw.latest = eSeen.sample
  /\ eSeen.loss => eSnapshot.live.loss # "unknown"
  /\ eSeen.row = 0 => eSnapshot = NoSnapshot
  /\ eSeen.row # 0 => \E i \in 1..Len(eUpdates) :
                        /\ eUpdates[i].at = eSeen.row
                        /\ eUpdates[i].status = eSnapshot.live.status
                        /\ eUpdates[i].level = eSnapshot.live.level

HealthInv ==
  /\ eClock \in 1..MaxClock /\ eSkew \in Skews
  /\ eAsked.kind \in {"none", "live", "aggregate"} /\ eAsked.since \in 0..Len(eUpdates)
  /\ eAsked.kind # "none" => eAsked.since >= 1
  /\ HistoryInv /\ SeenInv

LEMMA HealthBounds ==
  /\ MaxUpdates \in Nat /\ MaxUpdates >= 1 /\ MaxClock \in Nat /\ MaxClock >= 1
  /\ WarnAge \in Nat /\ DangerAge \in Nat /\ Tolerance \in Nat /\ CacheLag \in Nat
  /\ Levels \subseteq Level /\ Skews \subseteq Int
  <1>1. MaxUpdates \in Nat \ {0} /\ MaxClock \in Nat \ {0}
    BY HealthAssumption, Zenon
  <1>2. WarnAge \in Nat /\ DangerAge \in Nat /\ Tolerance \in Nat /\ CacheLag \in Nat
    BY HealthAssumption, Zenon
  <1>3. Levels \subseteq Level /\ Skews \subseteq Int
    BY HealthAssumption, Zenon DEF Level
  <1> QED BY <1>1, <1>2, <1>3

LEMMA HealthInvInit == HealthInit => HealthInv
  <1> SUFFICES ASSUME HealthInit PROVE HealthInv
    OBVIOUS
  <1> DEFINE first == [at |-> 1, status |-> "unknown", level |-> "fine", sample |-> FALSE]
  <1>1. first \in UpdateType /\ first.at = 1
    BY HealthBounds DEF UpdateType, Status, Level
  <1>2. eUpdates = <<first>>
    BY DEF HealthInit
  <1> HIDE DEF first
  <1>3. eUpdates \in Seq(UpdateType) /\ Len(eUpdates) = 1 /\ eUpdates[1] = first
    BY <1>1, <1>2
  <1>4. HistoryInv
    BY <1>1, <1>3, HealthBounds DEF HistoryInv, HealthInit
  <1>5. SeenInv
    BY HealthBounds DEF SeenInv, HealthInit, NoSnapshot, LiveType, Moment, Status, Level
  <1> QED BY <1>3, <1>4, <1>5, HealthBounds DEF HealthInv, HealthInit, NothingAsked

\* The change that the row's time names.
LEMMA OneUpdate ==
  ASSUME HistoryInv, NEW i \in 1..Len(eUpdates)
  PROVE  (CHOOSE u \in ToSet(eUpdates) : u.at = eUpdates[i].at) = eUpdates[i]
  <1>1. DOMAIN eUpdates = 1..Len(eUpdates) /\ Len(eUpdates) \in Nat
          /\ \A j \in 1..Len(eUpdates) : eUpdates[j] \in UpdateType /\ eUpdates[j].at \in Int
    <2>1. eUpdates \in Seq(UpdateType)
      BY DEF HistoryInv
    <2>2. DOMAIN eUpdates = 1..Len(eUpdates) /\ Len(eUpdates) \in Nat
            /\ \A j \in 1..Len(eUpdates) : eUpdates[j] \in UpdateType
      BY <2>1
    <2>3. \A u \in UpdateType : u.at \in Int
      BY HealthBounds DEF UpdateType
    <2> QED BY <2>2, <2>3
  <1>2. ToSet(eUpdates) = {eUpdates[j] : j \in 1..Len(eUpdates)}
    BY <1>1 DEF ToSet
  <1>3. \A j \in 1..Len(eUpdates) : eUpdates[j].at = eUpdates[i].at => j = i
    <2> TAKE j \in 1..Len(eUpdates)
    <2>1. i < j \/ j < i \/ i = j
      OBVIOUS
    <2> QED BY <1>1, <2>1 DEF HistoryInv
  <1>4. \A u \in ToSet(eUpdates) : u.at = eUpdates[i].at => u = eUpdates[i]
    BY <1>2, <1>3
  <1>5. eUpdates[i] \in ToSet(eUpdates)
    BY <1>2
  <1> QED BY <1>4, <1>5

LEMMA VerdictTrue == HealthInv => HealthHonest
  <1> SUFFICES ASSUME HealthInv, eSnapshot # NoSnapshot
               PROVE  LET update == CHOOSE u \in ToSet(eUpdates) : u.at = eSeen.row
                          age    == Now - eSeen.sample
                      IN  /\ update.status = "offline" \/ update.level = "critical" => Verdict = "danger"
                          /\ Verdict \in {"ok", "warn"} =>
                               update.status = "online" /\ eSeen.sample # 0 /\ age \in -Tolerance..DangerAge
                          /\ Verdict = "ok" => update.level = "fine" /\ age <= WarnAge
                          /\ eSeen.loss => eSnapshot.live.loss # "unknown"
    BY DEF HealthHonest
  <1> DEFINE update == CHOOSE u \in ToSet(eUpdates) : u.at = eSeen.row
             live == eSnapshot.live
             raw == eSnapshot.raw
             since == Now - eSeen.sample
             age == IF raw.latest = 0 THEN 0 ELSE Now - raw.latest
  <1>1. PICK i \in 1..Len(eUpdates) :
          /\ eUpdates[i].at = eSeen.row /\ eUpdates[i].status = live.status
          /\ eUpdates[i].level = live.level
    BY DEF HealthInv, SeenInv
  <1>2. update.status = live.status /\ update.level = live.level
    BY <1>1, OneUpdate DEF HealthInv
  <1>3. live.level \in Level /\ raw.latest = eSeen.sample /\ eSeen.sample \in Int /\ Now \in Int
          /\ (eSeen.loss => live.loss # "unknown")
    BY HealthBounds DEF HealthInv, SeenInv, LiveType, Moment, Now
  <1>4. age \in Int /\ (raw.latest # 0 => age = since) /\ since \in Int
    BY <1>3
  <1>5. Verdict = CASE Danger(live, age) -> "danger"
                    [] ~Danger(live, age) /\ Unknown(live, raw, age) -> "unknown"
                    [] OTHER -> IF live.level = "high" \/ live.loss = "some" \/ age > WarnAge
                                THEN "warn" ELSE "ok"
    BY DEF Verdict
  <1> HIDE DEF update, live, age, since
  <1>6. CASE Danger(live, age)
    <2>1. Verdict = "danger"
      BY <1>5, <1>6
    <2> QED BY <1>3, <2>1 DEF live
  <1>7. CASE ~Danger(live, age) /\ Unknown(live, raw, age)
    <2>1. Verdict = "unknown"
      BY <1>5, <1>7
    <2>2. update.status # "offline" /\ update.level # "critical"
      BY <1>2, <1>7 DEF Danger
    <2> QED BY <1>3, <2>1, <2>2 DEF live, update
  <1>8. CASE ~Danger(live, age) /\ ~Unknown(live, raw, age)
    <2>1. Verdict = IF live.level = "high" \/ live.loss = "some" \/ age > WarnAge THEN "warn" ELSE "ok"
      BY <1>5, <1>8
    <2>2. /\ live.status # "offline" /\ live.level # "critical" /\ ~(age > DangerAge)
          /\ raw.latest # 0 /\ live.status \in {"online", "offline"} /\ ~(age < -Tolerance)
      BY <1>8 DEF Danger, Unknown
    <2>3. update.status = "online" /\ update.level # "critical" /\ eSeen.sample # 0
            /\ since \in -Tolerance..DangerAge /\ age = since
      BY <1>2, <1>3, <1>4, <2>2, HealthBounds
    <2>4. Verdict = "ok" => live.level = "fine" /\ since <= WarnAge
      BY <1>3, <1>4, <2>1, <2>2, <2>3, HealthBounds DEF Level
    <2> QED BY <1>2, <1>3, <2>3, <2>4 DEF live, update, since
  <1> QED BY <1>6, <1>7, <1>8

\* What is merged from an answer that tells some change of the row: nothing of it
\* is older than what was received before.
LEMMA MergedTrue ==
  ASSUME HealthInv, NEW candidate, NEW n \in 1..Len(eUpdates),
         candidate.live \in LiveType, candidate.raw.latest \in Moment,
         candidate.live.at = eUpdates[n].at, candidate.live.status = eUpdates[n].status,
         candidate.live.level = eUpdates[n].level,
         Receive(candidate)
  PROVE  HealthInv'
  <1> DEFINE current == eSnapshot.live
             coming == candidate.live
             merged == AcceptLive(current, coming)
             samples == AcceptRaw(eSnapshot.raw, candidate.raw)
  <1>1. /\ eSnapshot' = [live |-> merged, raw |-> samples]
        /\ eSeen' = [row |-> Max({eSeen.row, coming.at}),
                     sample |-> Max({eSeen.sample, candidate.raw.latest}),
                     loss |-> eSeen.loss \/ eSnapshot'.live.loss # "unknown"]
        /\ eAsked' = NothingAsked /\ UNCHANGED <<eClock, eSkew, eUpdates>>
    BY DEF Receive, Accept
  <1>2. /\ current \in LiveType /\ eSnapshot.raw.latest \in Moment
        /\ eSeen \in [row : Moment, sample : Moment, loss : BOOLEAN]
        /\ current.at = eSeen.row /\ eSnapshot.raw.latest = eSeen.sample
        /\ eSeen.loss => current.loss # "unknown"
    BY DEF HealthInv, SeenInv
  <1>3. current.at \in Moment /\ coming.at \in Moment /\ coming.at \in 1..MaxClock
          /\ eSeen.sample \in Moment /\ eSeen.row \in Moment
    <2>1. eUpdates[n] \in UpdateType
      BY DEF HealthInv, HistoryInv
    <2> QED BY <1>2, <2>1, HealthBounds DEF LiveType, UpdateType, Moment
  <1>4. /\ CarryLoss(current, coming) \in LiveType /\ CarryLoss(current, coming).at = coming.at
        /\ CarryLoss(current, coming).status = coming.status
        /\ CarryLoss(current, coming).level = coming.level
        /\ current.loss # "unknown" => CarryLoss(current, coming).loss # "unknown"
    <2> DEFINE carried == [coming EXCEPT !.loss = current.loss]
    <2>1. current.loss \in Losses \union {"unknown"}
      BY <1>2 DEF LiveType
    <2>2. /\ carried \in LiveType /\ carried.at = coming.at /\ carried.status = coming.status
          /\ carried.level = coming.level /\ carried.loss = current.loss
      BY <2>1 DEF LiveType
    <2>3. CarryLoss(current, coming) = IF coming.loss = "unknown" THEN carried ELSE coming
      BY DEF CarryLoss
    <2> HIDE DEF carried
    <2> QED BY <2>2, <2>3
  <1>5. merged = IF coming.at < current.at THEN current ELSE CarryLoss(current, coming)
    BY DEF AcceptLive
  <1>6. samples = IF candidate.raw.latest = 0 \/ candidate.raw.latest < eSnapshot.raw.latest
                  THEN eSnapshot.raw ELSE candidate.raw
    BY DEF AcceptRaw
  <1>7. eSnapshot'.live = merged /\ eSnapshot'.raw = samples
    BY <1>1
  <1>8. /\ eSeen'.row = Max({eSeen.row, coming.at})
        /\ eSeen'.sample = Max({eSeen.sample, candidate.raw.latest})
        /\ eSeen'.loss = (eSeen.loss \/ eSnapshot'.live.loss # "unknown")
        /\ eSeen'.loss \in BOOLEAN
    BY <1>1
  <1>9. Max({eSeen.row, coming.at}) \in {eSeen.row, coming.at}
          /\ Max({eSeen.row, coming.at}) >= eSeen.row /\ Max({eSeen.row, coming.at}) >= coming.at
    <2>1. eSeen.row \in Int /\ coming.at \in Int
      BY <1>3 DEF Moment
    <2> HIDE DEF coming
    <2> QED BY <2>1, MaxOfTwo
  <1>10. /\ Max({eSeen.sample, candidate.raw.latest}) \in {eSeen.sample, candidate.raw.latest}
         /\ Max({eSeen.sample, candidate.raw.latest}) >= eSeen.sample
         /\ Max({eSeen.sample, candidate.raw.latest}) >= candidate.raw.latest
    <2>1. eSeen.sample \in Int /\ candidate.raw.latest \in Int
      BY <1>3 DEF Moment
    <2> QED BY <2>1, MaxOfTwo
  <1> HIDE DEF merged, samples, current, coming
  <1>11. merged \in LiveType /\ merged.at = Max({eSeen.row, coming.at})
    BY <1>2, <1>3, <1>4, <1>5, <1>9, HealthBounds DEF Moment
  <1>12. samples.latest = Max({eSeen.sample, candidate.raw.latest})
    BY <1>2, <1>3, <1>6, <1>10, HealthBounds DEF Moment
  <1>13. eSeen' \in [row : Moment, sample : Moment, loss : BOOLEAN]
    <2>1. Max({eSeen.row, coming.at}) \in Moment
      BY <1>3, <1>9
    <2>2. Max({eSeen.sample, candidate.raw.latest}) \in Moment
      BY <1>3, <1>10
    <2> QED BY <1>1, <1>8, <2>1, <2>2 DEF coming
  <1>14. eSeen'.loss => merged.loss # "unknown"
    <2>1. eSeen.loss => merged.loss # "unknown"
      BY <1>2, <1>4, <1>5
    <2> QED BY <1>7, <1>8, <2>1
  <1>15. eSeen'.row # 0
    BY <1>3, <1>8, <1>9, HealthBounds DEF Moment
  <1>16. \E i \in 1..Len(eUpdates) :
           eUpdates[i].at = eSeen'.row /\ eUpdates[i].status = merged.status
             /\ eUpdates[i].level = merged.level
    <2>1. CASE coming.at < current.at
      <3>1. eSeen.row # 0 /\ eSeen'.row = eSeen.row /\ merged = current
        BY <1>2, <1>3, <1>5, <1>8, <1>9, <2>1, HealthBounds DEF Moment
      <3> QED BY <3>1 DEF HealthInv, SeenInv, current
    <2>2. CASE ~(coming.at < current.at)
      <3>1. eSeen'.row = eUpdates[n].at /\ merged = CarryLoss(current, coming)
        BY <1>2, <1>3, <1>5, <1>8, <1>9, <2>2, HealthBounds DEF Moment, coming
      <3> QED BY <1>4, <3>1 DEF coming
    <2> QED BY <2>1, <2>2
  <1>17. SeenInv'
    <2>1. eSnapshot'.raw.latest \in Moment
      BY <1>3, <1>7, <1>10, <1>12
    <2>2. eUpdates' = eUpdates
      BY <1>1
    <2> QED BY <1>7, <1>8, <1>11, <1>12, <1>13, <1>14, <1>15, <1>16, <2>1, <2>2 DEF SeenInv
  <1>18. HistoryInv'
    BY <1>1 DEF HealthInv, HistoryInv
  <1> QED BY <1>1, <1>17, <1>18 DEF HealthInv, HistoryInv, NothingAsked

\* The times of samples.
LEMMA LatestSample ==
  ASSUME HealthInv, NEW m \in 0..Len(eUpdates)
  PROVE  Max(RawRows(m) \union {0}) \in Moment
  <1> DEFINE rows == RawRows(m) \union {0}
  <1>1. \A i \in 1..Len(eUpdates) : eUpdates[i] \in UpdateType
    BY DEF HealthInv, HistoryInv
  <1>2. Len(eUpdates) \in Nat
    BY DEF HealthInv, HistoryInv
  <1>3. \A i \in 1..m : i \in 1..Len(eUpdates) /\ eUpdates[i].at \in Moment
    BY <1>1, <1>2, HealthBounds DEF UpdateType, Moment
  <1>4. rows \subseteq Moment
    BY <1>3, HealthBounds DEF RawRows, Moment
  <1>5. /\ rows # {} /\ rows \in SUBSET Int /\ MaxClock \in Int
        /\ \A x \in rows : x <= MaxClock
    BY <1>4, HealthBounds DEF Moment
  <1> HIDE DEF rows
  <1>6. Max(rows) \in rows
    BY <1>5, MaxOf
  <1> QED BY <1>4, <1>6 DEF rows

\* An answer tells one change of the row.
LEMMA AnswerTold ==
  ASSUME HealthInv, NEW n \in 1..Len(eUpdates), NEW rows, NEW loss \in Losses \union {"unknown"},
         Max(rows \union {0}) \in Moment
  PROVE  /\ Snapshot(eUpdates[n], rows, loss).live \in LiveType
         /\ Snapshot(eUpdates[n], rows, loss).raw.latest \in Moment
         /\ Snapshot(eUpdates[n], rows, loss).live.at = eUpdates[n].at
         /\ Snapshot(eUpdates[n], rows, loss).live.status = eUpdates[n].status
         /\ Snapshot(eUpdates[n], rows, loss).live.level = eUpdates[n].level
  <1>1. eUpdates[n] \in UpdateType
    BY DEF HealthInv, HistoryInv
  <1>2. eUpdates[n].at \in Moment /\ eUpdates[n].status \in Status /\ eUpdates[n].level \in Level
    BY <1>1, HealthBounds DEF UpdateType, Moment
  <1> QED BY <1>2 DEF Snapshot, LiveType

LEMMA WriteKeeps ==
  ASSUME HealthInv, NEW status \in Status, NEW level \in Level, NEW sample \in BOOLEAN,
         Write(status, level, sample)
  PROVE  HealthInv'
  <1> DEFINE update == [at |-> eClock, status |-> status, level |-> level, sample |-> sample]
             n == Len(eUpdates)
  <1>1. /\ eUpdates \in Seq(UpdateType) /\ n \in 1..MaxUpdates
        /\ \A i, j \in 1..n : i < j => eUpdates[i].at < eUpdates[j].at
        /\ \A i \in 1..n : eUpdates[i].at <= eClock
        /\ eClock \in 1..MaxClock
    BY DEF HealthInv, HistoryInv
  <1>2. update \in UpdateType /\ update.at = eClock
    BY <1>1 DEF UpdateType
  <1>3. /\ n < MaxUpdates /\ eUpdates[n].at < eClock
        /\ eUpdates' = Append(eUpdates, update)
        /\ UNCHANGED <<eClock, eSkew, eAsked, eSnapshot, eSeen>>
    BY <1>1 DEF Write, Last
  <1> HIDE DEF update
  <1>4. /\ eUpdates' \in Seq(UpdateType) /\ Len(eUpdates') = n + 1
        /\ \A i \in 1..n : eUpdates'[i] = eUpdates[i]
        /\ eUpdates'[n + 1] = update
    BY <1>1, <1>2, <1>3
  <1> HIDE DEF n
  <1>5. \A i \in 1..n : eUpdates[i].at \in Int
    <2>1. \A i \in 1..n : eUpdates[i] \in UpdateType
      BY <1>1 DEF n
    <2> QED BY <2>1, HealthBounds DEF UpdateType
  <1>6. \A i \in 1..n : eUpdates[i].at < eClock
    <2> TAKE i \in 1..n
    <2>1. i < n \/ i = n
      BY <1>1, HealthBounds
    <2>2. n \in 1..n /\ eUpdates[n].at \in Int
      BY <1>1, <1>5, HealthBounds
    <2>3. i < n => eUpdates[i].at < eUpdates[n].at
      BY <1>1, <2>2
    <2> QED BY <1>1, <1>3, <1>5, <2>1, <2>2, <2>3, HealthBounds
  <1>7. HistoryInv'
    <2>1. Len(eUpdates') \in 1..MaxUpdates /\ 1..Len(eUpdates') = (1..n) \union {n + 1}
      BY <1>1, <1>3, <1>4, HealthBounds
    <2>2. \A i, j \in 1..n + 1 : i < j => eUpdates'[i].at < eUpdates'[j].at
      <3> TAKE i, j \in 1..n + 1
      <3>1. i < j => i \in 1..n /\ (j \in 1..n \/ j = n + 1)
        BY <1>1, HealthBounds
      <3> QED BY <1>1, <1>2, <1>4, <1>6, <3>1
    <2>3. \A i \in 1..n + 1 : eUpdates'[i].at <= eClock'
      <3>1. \A i \in 1..n + 1 : i \in 1..n \/ i = n + 1
        BY <1>1, HealthBounds
      <3> QED BY <1>1, <1>2, <1>3, <1>4, <3>1, HealthBounds
    <2> QED BY <1>4, <2>1, <2>2, <2>3 DEF HistoryInv
  <1>8. SeenInv'
    <2>1. \A i \in 1..n : i \in 1..Len(eUpdates')
      BY <1>1, <1>4, HealthBounds
    <2>2. SeenInv
      BY DEF HealthInv
    <2>3. eSeen'.row # 0 => \E i \in 1..Len(eUpdates') :
                              /\ eUpdates'[i].at = eSeen'.row
                              /\ eUpdates'[i].status = eSnapshot'.live.status
                              /\ eUpdates'[i].level = eSnapshot'.live.level
      <3> SUFFICES ASSUME eSeen'.row # 0
                   PROVE  \E i \in 1..Len(eUpdates') :
                              /\ eUpdates'[i].at = eSeen'.row
                              /\ eUpdates'[i].status = eSnapshot'.live.status
                              /\ eUpdates'[i].level = eSnapshot'.live.level
        OBVIOUS
      <3>1. PICK i \in 1..n : /\ eUpdates[i].at = eSeen.row
                              /\ eUpdates[i].status = eSnapshot.live.status
                              /\ eUpdates[i].level = eSnapshot.live.level
        BY <1>3, <2>2 DEF SeenInv, n
      <3>2. i \in 1..Len(eUpdates') /\ eUpdates'[i] = eUpdates[i]
        BY <1>4, <2>1
      <3> QED BY <1>3, <3>1, <3>2
    <2>4. UNCHANGED <<eSnapshot, eSeen>>
      BY <1>3
    <2> QED BY <2>2, <2>3, <2>4 DEF SeenInv
  <1>9. eAsked'.since \in 0..Len(eUpdates')
    BY <1>1, <1>3, <1>4, HealthBounds DEF HealthInv, n
  <1> QED BY <1>3, <1>7, <1>8, <1>9 DEF HealthInv

LEMMA HealthInvStep == HealthInv /\ [HealthStep]_healthVars => HealthInv'
  <1> SUFFICES ASSUME HealthInv, [HealthStep]_healthVars PROVE HealthInv'
    OBVIOUS
  <1>0. /\ Len(eUpdates) \in Nat /\ Len(eUpdates) >= 1 /\ eClock \in 1..MaxClock
        /\ \A i \in 1..Len(eUpdates) : eUpdates[i] \in UpdateType
        /\ eAsked.since \in 0..Len(eUpdates)
        /\ eAsked.kind # "none" => eAsked.since >= 1
    BY HealthBounds DEF HealthInv, HistoryInv
  <1>1. CASE TimePasses
    <2>1. eClock' = eClock + 1 /\ eClock' \in 1..MaxClock
            /\ UNCHANGED <<eSkew, eUpdates, eAsked, eSnapshot, eSeen>>
      BY <1>0, <1>1, HealthBounds DEF TimePasses
    <2>2. \A i \in 1..Len(eUpdates) : eUpdates[i].at <= eClock /\ eUpdates[i].at \in Int
      <3>1. \A u \in UpdateType : u.at \in Int
        BY HealthBounds DEF UpdateType
      <3> QED BY <1>0, <3>1 DEF HealthInv, HistoryInv
    <2>3. HistoryInv'
      <3>1. \A i \in 1..Len(eUpdates) : eUpdates[i].at <= eClock'
        BY <1>0, <2>1, <2>2
      <3> QED BY <2>1, <3>1 DEF HealthInv, HistoryInv
    <2>4. SeenInv'
      BY <2>1 DEF HealthInv, SeenInv
    <2> QED BY <2>1, <2>3, <2>4 DEF HealthInv
  <1>2. CASE AgentReports
    <2>1. PICK level \in Levels : Write("online", level, TRUE)
      BY <1>2 DEF AgentReports
    <2>2. "online" \in Status /\ level \in Level /\ TRUE \in BOOLEAN
      BY HealthBounds DEF Status
    <2> QED BY <2>1, <2>2, WriteKeeps
  <1>3. CASE JobWrites
    <2>1. PICK status \in {Last(eUpdates).status, "offline"} :
            Write(status, Last(eUpdates).level, FALSE)
      BY <1>3 DEF JobWrites
    <2>2. eUpdates[Len(eUpdates)] \in UpdateType
      BY <1>0
    <2>3. status \in Status /\ Last(eUpdates).level \in Level /\ FALSE \in BOOLEAN
      BY <2>2 DEF Last, UpdateType, Status
    <2> QED BY <2>1, <2>3, WriteKeeps
  <1>4. ASSUME NEW kind \in {"live", "aggregate"}, AskFor(kind) PROVE HealthInv'
    <2>1. eAsked' = [kind |-> kind, since |-> Len(eUpdates)]
            /\ UNCHANGED <<eClock, eSkew, eUpdates, eSnapshot, eSeen>>
      BY <1>4 DEF AskFor
    <2>2. eAsked'.kind = kind /\ eAsked'.since = Len(eUpdates)
      BY <2>1
    <2>3. HistoryInv' /\ SeenInv'
      BY <2>1 DEF HealthInv, HistoryInv, SeenInv
    <2> QED BY <1>0, <2>1, <2>2, <2>3 DEF HealthInv
  <1>5. CASE ReceiveLive
    <2>1. PICK n \in eAsked.since..Len(eUpdates) : Receive(Snapshot(eUpdates[n], {}, "unknown"))
      BY <1>5 DEF ReceiveLive
    <2>2. n \in 1..Len(eUpdates)
      BY <1>0, <1>5 DEF ReceiveLive
    <2>3. Max({} \union {0}) \in Moment
      <3>1. {} \union {0} = {0, 0}
        OBVIOUS
      <3> QED BY <3>1, MaxOfTwo, HealthBounds DEF Moment
    <2> QED BY <2>1, <2>2, <2>3, AnswerTold, MergedTrue
  <1>6. CASE ReceiveAggregate
    <2>1. PICK n \in Max({1, eAsked.since - CacheLag})..Len(eUpdates) :
            \E m \in {n - 1, n}, loss \in Losses \union {"unknown"} :
              Receive(Snapshot(eUpdates[n], RawRows(m), loss))
      BY <1>6 DEF ReceiveAggregate
    <2>2. PICK m \in {n - 1, n}, loss \in Losses \union {"unknown"} :
            Receive(Snapshot(eUpdates[n], RawRows(m), loss))
      BY <2>1
    <2>3. n \in 1..Len(eUpdates) /\ m \in 0..Len(eUpdates)
      <3>1. 1 \in Int /\ eAsked.since - CacheLag \in Int
        BY <1>0, HealthBounds
      <3>2. Max({1, eAsked.since - CacheLag}) >= 1 /\ Max({1, eAsked.since - CacheLag}) \in Int
        BY <3>1, MaxOfTwo
      <3> QED BY <1>0, <2>1, <2>2, <3>2
    <2>4. Max(RawRows(m) \union {0}) \in Moment
      BY <2>3, LatestSample
    <2> QED BY <2>2, <2>3, <2>4, AnswerTold, MergedTrue
  <1>7. CASE RequestFails
    <2>1. eAsked'.kind = "none" /\ eAsked'.since = 0
            /\ UNCHANGED <<eClock, eSkew, eUpdates, eSnapshot, eSeen>>
      BY <1>7 DEF RequestFails, NothingAsked
    <2>2. HistoryInv' /\ SeenInv'
      BY <2>1 DEF HealthInv, HistoryInv, SeenInv
    <2> QED BY <1>0, <2>1, <2>2 DEF HealthInv
  <1>8. CASE UNCHANGED healthVars
    BY <1>8 DEF healthVars, HealthInv, HistoryInv, SeenInv
  <1> QED BY <1>1, <1>2, <1>3, <1>4, <1>5, <1>6, <1>7, <1>8 DEF HealthStep

LEMMA HealthInvImplies == HealthInv => HealthTypeOK /\ HealthHonest
  <1> SUFFICES ASSUME HealthInv PROVE HealthTypeOK /\ HealthHonest
    OBVIOUS
  <1>1. DOMAIN eUpdates = 1..Len(eUpdates) /\ Len(eUpdates) \in 1..MaxUpdates
          /\ \A i \in 1..Len(eUpdates) : eUpdates[i] \in UpdateType
    BY DEF HealthInv, HistoryInv
  <1>2. \A i \in DOMAIN eUpdates : eUpdates[i].at \in 1..MaxClock
    BY <1>1 DEF UpdateType
  <1>3. eAsked.since \in 0..MaxUpdates
    BY <1>1, HealthBounds DEF HealthInv
  <1>4. eSnapshot.live.at \in 0..MaxClock /\ eSnapshot.raw.latest \in 0..MaxClock
          /\ eSnapshot.live.loss \in Losses \union {"unknown"}
          /\ eSeen \in [row : 0..MaxClock, sample : 0..MaxClock, loss : BOOLEAN]
    BY DEF HealthInv, SeenInv, LiveType, Moment
  <1>5. HealthTypeOK
    BY <1>2, <1>3, <1>4 DEF HealthTypeOK, HealthInv
  <1> QED BY <1>5, VerdictTrue

-----------------------------------------------------------------------------
(* The charts.                                                             *)

LEMMA ChartBounds ==
  /\ Span \in Nat /\ Span >= 1 /\ Bucket \in Nat /\ Bucket >= 1
  /\ MaxPoints \in Nat /\ MaxPoints >= 1 /\ Substantial \in Nat /\ MaxTime \in Nat
  /\ \A r \in Reading : r.rate \in Nat /\ r.ms \in Nat /\ r.load \in 0..100 /\ r.count \in Nat
  <1>1. Span \in Nat \ {0} /\ Bucket \in Nat \ {0} /\ MaxPoints \in Nat \ {0}
    BY ChartAssumption, Zenon
  <1>2. Substantial \in Nat /\ MaxTime \in Nat
    BY ChartAssumption, Zenon
  <1>3. Reading \subseteq [rate : Nat, ms : Nat, load : 0..100, count : Nat]
    BY ChartAssumption, Zenon
  <1> QED BY <1>1, <1>2, <1>3

\* The last and the first of the numbers of a finite set.
LEMMA FiniteMax ==
  ASSUME NEW S \in SUBSET Int, IsFiniteSet(S), S # {}
  PROVE  /\ Max(S) \in S /\ \A x \in S : x <= Max(S)
         /\ Min(S) \in S /\ \A x \in S : Min(S) <= x
  <1> DEFINE order == Ascending(S)
             n == Cardinality(S)
  <1>1. /\ n \in Nat
        /\ \A i \in 1..n : order[i] \in S
        /\ \A i, j \in 1..n : i < j => order[i] < order[j]
        /\ \A x \in S : \E i \in 1..n : order[i] = x
    BY AscendingOf
  <1> HIDE DEF order, n
  <1>2. n >= 1
    <2>1. PICK x \in S : TRUE
      OBVIOUS
    <2>2. \E i \in 1..n : order[i] = x
      BY <1>1
    <2> QED BY <1>1, <2>2
  <1>3. order[n] \in S /\ order[1] \in S
    BY <1>1, <1>2
  <1>4. \A x \in S : x <= order[n] /\ order[1] <= x
    <2> TAKE x \in S
    <2>1. PICK i \in 1..n : order[i] = x
      BY <1>1
    <2>2. x \in Int /\ order[n] \in Int /\ order[1] \in Int
      BY <1>3
    <2>3. (i = n \/ i < n) /\ (i = 1 \/ 1 < i) /\ n \in 1..n /\ 1 \in 1..n
      BY <1>1, <1>2
    <2>4. i = n \/ order[i] < order[n]
      BY <1>1, <2>3
    <2>5. i = 1 \/ order[1] < order[i]
      BY <1>1, <2>3
    <2> QED BY <2>1, <2>2, <2>4, <2>5
  <1>5. order[n] \in Int /\ order[1] \in Int
    BY <1>3
  <1>6. Max(S) \in S /\ \A x \in S : x <= Max(S)
    BY <1>3, <1>4, <1>5, MaxOf
  <1>7. Min(S) \in S /\ \A x \in S : Min(S) <= x
    <2>1. \A x \in S : x >= order[1]
      BY <1>4, <1>5
    <2>2. Min(S) \in S /\ \A x \in S : x >= Min(S)
      BY <1>3, <1>5, <2>1, MinOf
    <2> QED BY <2>2
  <1> QED BY <1>6, <1>7

-----------------------------------------------------------------------------
(* Curves.                                                                  *)

\* The times of a curve rise.
Rising(curve) == \A i, j \in 1..Len(curve) : i < j => curve[i].x < curve[j].x

\* Points of a curve: one for each time.
Timed(points) ==
  IsFiniteSet(points) /\ \A p \in points : p.x \in Int /\ \A q \in points : p.x = q.x => p = q

\* Sorting keeps the points.
LEMMA OrderedOf ==
  ASSUME NEW points, Timed(points)
  PROVE  /\ InOrder(points) \in Seq(points) /\ Rising(InOrder(points))
         /\ \A p \in points : \E i \in 1..Len(InOrder(points)) : InOrder(points)[i] = p
  <1> DEFINE S == {p.x : p \in points}
             n == Cardinality(S)
             times == Ascending(S)
             curve == InOrder(points)
  <1>1. S \in SUBSET Int /\ IsFiniteSet(S)
    <2> DEFINE time == [p \in points |-> p.x]
    <2>1. time \in Surjection(points, S)
      BY DEF Surjection
    <2>2. S \in SUBSET Int
      BY DEF Timed
    <2> HIDE DEF time, S
    <2> QED BY <2>1, <2>2, FS_Surjection DEF Timed
  <1>2. /\ n \in Nat /\ DOMAIN times = 1..n
        /\ \A i \in 1..n : times[i] \in S
        /\ \A i, j \in 1..n : i < j => times[i] < times[j]
        /\ \A x \in S : \E i \in 1..n : times[i] = x
    BY <1>1, AscendingOf
  <1>3. curve = [i \in 1..n |-> CHOOSE p \in points : p.x = times[i]]
    BY <1>2 DEF InOrder
  <1> HIDE DEF times, n, curve
  <1>4. \A i \in 1..n : curve[i] \in points /\ curve[i].x = times[i]
    <2> TAKE i \in 1..n
    <2>1. \E p \in points : p.x = times[i]
      BY <1>2
    <2>2. curve[i] = CHOOSE p \in points : p.x = times[i]
      BY <1>3
    <2> QED BY <2>1, <2>2
  <1>5. curve \in Seq(points) /\ Len(curve) = n
    <2>1. curve \in [1..n -> points]
      BY <1>3, <1>4
    <2> QED BY <1>2, <2>1
  <1>6. Rising(curve)
    BY <1>2, <1>4, <1>5 DEF Rising
  <1>7. \A p \in points : \E i \in 1..n : curve[i] = p
    <2> TAKE p \in points
    <2>1. PICK i \in 1..n : times[i] = p.x
      BY <1>2
    <2>2. curve[i] = p
      BY <1>4, <2>1 DEF Timed
    <2> QED BY <2>2
  <1> HIDE DEF S
  <1> QED BY <1>5, <1>6, <1>7 DEF curve

\* The ends of a rising curve.
LEMMA CurveEnds ==
  ASSUME NEW S, NEW curve \in Seq(S), \A p \in S : p.x \in Int, Rising(curve), curve # <<>>
  PROVE  /\ Len(curve) \in Nat /\ Len(curve) >= 1
         /\ Last(curve) = curve[Len(curve)] /\ Last(curve) \in S /\ curve[1] \in S
         /\ Last(curve).x \in Int /\ curve[1].x \in Int
         /\ \A i \in 1..Len(curve) : curve[i] \in S /\ curve[1].x <= curve[i].x
                                     /\ curve[i].x <= Last(curve).x
  <1> DEFINE n == Len(curve)
  <1>1. n \in Nat /\ n >= 1 /\ \A i \in 1..n : curve[i] \in S
    <2>1. n \in Nat /\ n # 0
      BY EmptySeq, LenProperties
    <2>2. \A i \in 1..n : curve[i] \in S
      BY ElementOfSeq
    <2> QED BY <2>1, <2>2
  <1>2. Last(curve) = curve[n]
    BY DEF Last
  <1> HIDE DEF n
  <1>3. 1 \in 1..n /\ n \in 1..n
    BY <1>1
  <1>4. \A i \in 1..n : curve[1].x <= curve[i].x /\ curve[i].x <= curve[n].x
    <2> TAKE i \in 1..n
    <2>1. curve[1].x \in Int /\ curve[i].x \in Int /\ curve[n].x \in Int
      BY <1>1, <1>3
    <2>2. (i = 1 \/ 1 < i) /\ (i = n \/ i < n)
      BY <1>1
    <2>3. i = 1 \/ curve[1].x < curve[i].x
      BY <1>3, <2>2 DEF Rising, n
    <2>4. i = n \/ curve[i].x < curve[n].x
      BY <1>3, <2>2 DEF Rising, n
    <2> QED BY <2>1, <2>3, <2>4
  <1> QED BY <1>1, <1>2, <1>3, <1>4 DEF n

\* Thinning keeps points of the curve, the last one among them.
LEMMA ThinnedOf ==
  ASSUME NEW S, NEW curve \in Seq(S), \A p \in S : p.x \in Int, Rising(curve), curve # <<>>
  PROVE  /\ Thinned(curve) \in Seq(S) /\ Rising(Thinned(curve)) /\ Thinned(curve) # <<>>
         /\ Last(Thinned(curve)).x = Last(curve).x
  <1> DEFINE n == Len(curve)
             size == Ceil(n, MaxPoints)
             slice(i) == LET lo == ((i - 1) \div size) * size + 1
                         IN  lo..Older(lo + size - 1, n)
             kept(i) == \/ i \in {Min(slice(i)), Max(slice(i))}
                        \/ \A j \in slice(i) : /\ curve[i].y <= curve[j].y
                                               /\ j < i => curve[i].y < curve[j].y
                        \/ \A j \in slice(i) : /\ curve[i].y >= curve[j].y
                                               /\ j < i => curve[i].y > curve[j].y
             K == {j \in DOMAIN curve : kept(j)}
             points == {curve[i] : i \in K}
  <1>1. /\ n \in Nat /\ n >= 1 /\ DOMAIN curve = 1..n /\ Last(curve) = curve[n]
        /\ \A i \in 1..n : curve[i] \in S /\ curve[i].x <= curve[n].x
    BY CurveEnds, LenProperties
  <1>2. CASE n <= MaxPoints
    BY <1>2 DEF Thinned
  <1>3. CASE ~(n <= MaxPoints)
    <2>1. Thinned(curve) = InOrder(points)
      BY <1>3 DEF Thinned
    <2>2. size \in Nat /\ size >= 1
      <3>1. MaxPoints \in Nat /\ MaxPoints >= 1 /\ n + MaxPoints - 1 \in Nat
        BY <1>1, ChartBounds
      <3>2. (n + MaxPoints - 1) \div MaxPoints \in Int
            /\ n + MaxPoints - 1 < ((n + MaxPoints - 1) \div MaxPoints) * MaxPoints + MaxPoints
        BY <3>1, Quotient
      <3> DEFINE q == (n + MaxPoints - 1) \div MaxPoints
      <3>3. size = q
        BY DEF Ceil
      <3>4. q \in Int /\ n - 1 < q * MaxPoints
        BY <3>1, <3>2, <1>1
      <3> HIDE DEF q
      <3>5. q >= 1
        BY <1>1, <3>1, <3>4
      <3> QED BY <3>3, <3>4, <3>5
    <2> HIDE DEF size
    <2>3. n \in K
      <3> DEFINE q == (n - 1) \div size
                 lo == q * size + 1
      <3>1. q \in Nat /\ q * size <= n - 1 /\ n - 1 < q * size + size
        <4>1. n - 1 \in Nat /\ n - 1 \in Int
          BY <1>1
        <4> HIDE DEF n
        <4>2. (n - 1) \div size \in Nat
          BY <2>2, <4>1, QuotientNat
        <4>3. ((n - 1) \div size) * size <= n - 1
              /\ n - 1 < ((n - 1) \div size) * size + size
          BY <2>2, <4>1, Quotient
        <4> QED BY <4>2, <4>3
      <3> HIDE DEF q
      <3>2. q * size \in Int
        BY <2>2, <3>1
      <3>3. lo \in Int /\ lo <= n /\ lo + size - 1 >= n
        BY <1>1, <2>2, <3>1, <3>2
      <3>4. slice(n) = lo..n
        BY <1>1, <2>2, <3>3 DEF Older, q
      <3> HIDE DEF lo, slice
      <3>5. slice(n) \in SUBSET Int /\ n \in slice(n) /\ \A j \in slice(n) : j <= n
        BY <1>1, <3>3, <3>4
      <3>6. Max(slice(n)) \in slice(n) /\ \A j \in slice(n) : j <= Max(slice(n))
        BY <1>1, <3>5, MaxOf
      <3>7. Max(slice(n)) \in Int
        BY <3>5, <3>6
      <3>8. Max(slice(n)) = n
        BY <1>1, <3>5, <3>6, <3>7
      <3>9. kept(n)
        BY <3>8
      <3> HIDE DEF kept
      <3> QED BY <1>1, <3>9
    <2> HIDE DEF kept
    <2>4. Timed(points)
      <3>1. IsFiniteSet(K)
        <4>1. IsFiniteSet(1..n)
          BY <1>1, FS_Interval
        <4>2. K \in SUBSET (1..n)
          BY <1>1
        <4> QED BY <4>1, <4>2, FS_Subset
      <3> HIDE DEF K
      <3>2. IsFiniteSet(points)
        BY <3>1, FiniteImage
      <3>3. \A i \in K : i \in 1..n
        BY <1>1 DEF K
      <3>4. \A i, j \in 1..n : curve[i].x = curve[j].x => i = j
        <4> TAKE i, j \in 1..n
        <4>1. curve[i].x \in Int /\ curve[j].x \in Int
          BY <1>1
        <4>2. i < j \/ j < i \/ i = j
          BY <1>1
        <4>3. (i < j => curve[i].x < curve[j].x) /\ (j < i => curve[j].x < curve[i].x)
          BY DEF Rising
        <4> QED BY <4>1, <4>2, <4>3
      <3>5. \A p \in points : p.x \in Int
        BY <1>1, <3>3
      <3>6. \A p, q \in points : p.x = q.x => p = q
        BY <3>3, <3>4
      <3> HIDE DEF points
      <3> QED BY <3>2, <3>5, <3>6 DEF Timed
    <2> DEFINE thin == InOrder(points)
    <2>5. /\ thin \in Seq(points) /\ Rising(thin)
          /\ \A p \in points : \E i \in 1..Len(thin) : thin[i] = p
      BY <2>4, OrderedOf
    <2>6. points \subseteq S /\ curve[n] \in points
      BY <1>1, <2>3
    <2>7. \A p \in points : p.x \in Int /\ p.x <= curve[n].x
      BY <1>1
    <2> HIDE DEF thin, points, K
    <2>8. thin # <<>>
      <3>1. PICK i \in 1..Len(thin) : thin[i] = curve[n]
        BY <2>5, <2>6
      <3>2. Len(<<>>) = 0
        OBVIOUS
      <3> QED BY <3>1, <3>2
    <2>9. Last(thin).x = curve[n].x
      <3>1. /\ Last(thin) \in points /\ Last(thin).x \in Int
            /\ \A i \in 1..Len(thin) : thin[i].x <= Last(thin).x
        BY <2>5, <2>7, <2>8, CurveEnds
      <3>2. PICK i \in 1..Len(thin) : thin[i] = curve[n]
        BY <2>5, <2>6
      <3>3. curve[n].x <= Last(thin).x /\ Last(thin).x <= curve[n].x /\ curve[n].x \in Int
        BY <2>6, <2>7, <3>1, <3>2
      <3> QED BY <3>1, <3>3
    <2>10. thin \in Seq(S)
      BY <2>5, <2>6
    <2> QED BY <1>1, <2>1, <2>5, <2>8, <2>9, <2>10 DEF thin
  <1> QED BY <1>2, <1>3

\* A sorted curve ends with the newest point.
LEMMA EndsWith ==
  ASSUME NEW points, Timed(points), NEW p \in points, \A q \in points : q.x <= p.x
  PROVE  /\ InOrder(points) \in Seq(points) /\ Rising(InOrder(points))
         /\ InOrder(points) # <<>> /\ Last(InOrder(points)).x = p.x
  <1> DEFINE curve == InOrder(points)
  <1>1. /\ curve \in Seq(points) /\ Rising(curve)
        /\ \A q \in points : \E i \in 1..Len(curve) : curve[i] = q
    BY OrderedOf
  <1>2. \A q \in points : q.x \in Int
    BY DEF Timed
  <1> HIDE DEF curve
  <1>3. PICK i \in 1..Len(curve) : curve[i] = p
    BY <1>1
  <1>4. curve # <<>>
    <2>1. Len(<<>>) = 0
      OBVIOUS
    <2> QED BY <1>3, <2>1
  <1>5. Last(curve) \in points /\ curve[i].x <= Last(curve).x
    BY <1>1, <1>2, <1>4, CurveEnds
  <1>6. Last(curve).x \in Int /\ p.x \in Int /\ Last(curve).x <= p.x /\ p.x <= Last(curve).x
    BY <1>2, <1>3, <1>5
  <1>7. Last(curve).x = p.x
    BY <1>6
  <1> QED BY <1>1, <1>4, <1>7 DEF curve

-----------------------------------------------------------------------------
(* The points that are drawn.                                               *)

\* Samples up to now.
IsRows(rows, now) ==
  DOMAIN rows \subseteq 1..now /\ \A x \in DOMAIN rows : rows[x] \in Reading

LEMMA WindowOf ==
  ASSUME NEW now \in Nat, NEW rows, IsRows(rows, now), ~NoRows(rows)
  PROVE  /\ IsFiniteSet(DOMAIN rows) /\ DOMAIN rows \subseteq Nat
         /\ Max(DOMAIN rows) \in Window(rows) /\ Max(DOMAIN rows) \in 1..now
         /\ Window(rows) \subseteq DOMAIN rows /\ IsFiniteSet(Window(rows))
         /\ \A x \in Window(rows) : x \in 1..now /\ x <= Max(DOMAIN rows)
                                    /\ Max(DOMAIN rows) - Span <= x
  <1> DEFINE D == DOMAIN rows
             W == Window(rows)
             m == Max(D)
  <1>1. IsFiniteSet(D) /\ D \in SUBSET Int /\ D # {} /\ D \subseteq 1..now
    <2>1. IsFiniteSet(1..now)
      BY FS_Interval
    <2>2. D \in SUBSET (1..now) /\ D # {}
      BY DEF IsRows, NoRows
    <2> HIDE DEF D
    <2>3. IsFiniteSet(D)
      BY <2>1, <2>2, FS_Subset
    <2> QED BY <2>2, <2>3
  <1>2. m \in D /\ \A x \in D : x <= m
    <2> HIDE DEF D
    <2> QED BY <1>1, FiniteMax
  <1>3. W = {x \in D : x >= m - Span}
    BY DEF Window
  <1> HIDE DEF D, W, m
  <1>4. m \in W
    BY <1>1, <1>2, <1>3, ChartBounds
  <1>5. W \in SUBSET D /\ IsFiniteSet(W)
    BY <1>1, <1>3, FS_Subset
  <1>6. \A x \in W : x \in 1..now /\ x <= m /\ m - Span <= x
    <2> TAKE x \in W
    <2>1. x \in D /\ x >= m - Span /\ m \in Int /\ x \in Int
      BY <1>1, <1>2, <1>3
    <2> QED BY <1>1, <1>2, <2>1, ChartBounds
  <1>7. D \subseteq Nat /\ m \in 1..now
    BY <1>1, <1>2
  <1> QED BY <1>1, <1>4, <1>5, <1>6, <1>7 DEF D, W, m

\* The rates end with the newest sample.
LEMMA RatePointsOf ==
  ASSUME NEW now \in Nat, NEW rows, IsRows(rows, now), ~NoRows(rows)
  PROVE  /\ RatePoints(rows) \in Seq({[x |-> x, y |-> rows[x].rate] : x \in Window(rows)})
         /\ Rising(RatePoints(rows)) /\ RatePoints(rows) # <<>>
         /\ Last(RatePoints(rows)).x = Max(DOMAIN rows)
  <1> DEFINE W == Window(rows)
             m == Max(DOMAIN rows)
             Ends == {z \in W : \A w \in W : w \div Bucket = z \div Bucket => w <= z}
             f == [x \in W |-> [x |-> x, y |-> rows[x].rate]]
             points == {f[x] : x \in Ends}
             all == {[x |-> x, y |-> rows[x].rate] : x \in Window(rows)}
  <1>1. IsFiniteSet(W) /\ m \in W /\ \A x \in W : x \in Int /\ x <= m
    BY WindowOf
  <1>2. RatePoints(rows) = InOrder(points)
    <2>1. points = {[x |-> x, y |-> rows[x].rate] : x \in Ends}
      OBVIOUS
    <2> QED BY <2>1 DEF RatePoints
  <1>3. \A x \in W : f[x].x = x /\ f[x] \in all
    OBVIOUS
  <1> HIDE DEF W, m, f, all
  <1>4. IsFiniteSet(Ends) /\ Ends \subseteq W /\ m \in Ends
    <2>1. Ends \in SUBSET W
      OBVIOUS
    <2>2. m \in Ends
      BY <1>1
    <2> HIDE DEF Ends
    <2> QED BY <1>1, <2>1, <2>2, FS_Subset
  <1> HIDE DEF Ends
  <1>5. Timed(points)
    <2>1. IsFiniteSet(points)
      BY <1>4, FiniteImage
    <2>2. \A p \in points : p.x \in Int
      BY <1>1, <1>3, <1>4
    <2>3. \A p, q \in points : p.x = q.x => p = q
      BY <1>3, <1>4
    <2> HIDE DEF points
    <2> QED BY <2>1, <2>2, <2>3 DEF Timed
  <1>6. f[m] \in points /\ f[m].x = m /\ \A q \in points : q.x <= m
    BY <1>1, <1>3, <1>4
  <1>7. points \subseteq all
    BY <1>3, <1>4
  <1> HIDE DEF points
  <1>8. /\ InOrder(points) \in Seq(points) /\ Rising(InOrder(points))
        /\ InOrder(points) # <<>> /\ Last(InOrder(points)).x = m
    BY <1>5, <1>6, EndsWith
  <1>9. InOrder(points) \in Seq(all)
    BY <1>7, <1>8
  <1> QED BY <1>2, <1>8, <1>9 DEF m, all

\* A drawn mean, with the spread of its bucket.
Mean(Values) == [x : Nat, y : Nat, live : BOOLEAN, low : Values, high : Values]

\* The means end with the newest sample, and their spread is of the samples.
LEMMA MeanPointsOf ==
  ASSUME NEW now \in Nat, NEW rows, IsRows(rows, now), ~NoRows(rows),
         NEW key, NEW Values \in SUBSET Nat, \A x \in DOMAIN rows : rows[x][key] \in Values
  PROVE  /\ MeanPoints(rows, key) \in Seq({p \in Mean(Values) : ~p.live})
         /\ Rising(MeanPoints(rows, key)) /\ MeanPoints(rows, key) # <<>>
         /\ Last(MeanPoints(rows, key)).x = Max(DOMAIN rows)
  <1> DEFINE W == Window(rows)
             m == Max(DOMAIN rows)
             own(b) == {x \in W : x \div Bucket = b}
             values(b) == {rows[x][key] : x \in own(b)}
             mean(b) == SumOver([x \in own(b) |-> rows[x][key]], own(b)) \div Cardinality(own(b))
             point(b) == [x |-> Max(own(b)), live |-> FALSE, low |-> Min(values(b)),
                          high |-> Max(values(b)), y |-> mean(b)]
             B == {x \div Bucket : x \in W}
             f == [b \in B |-> point(b)]
             points == {f[b] : b \in B}
  <1>1. /\ IsFiniteSet(W) /\ m \in W /\ \A x \in W : x \in Nat /\ x <= m
        /\ \A x \in W : rows[x][key] \in Values
    BY WindowOf
  <1>2. MeanPoints(rows, key) = InOrder(points)
    <2>1. points = {point(b) : b \in B}
      OBVIOUS
    <2> QED BY <2>1 DEF MeanPoints
  <1> HIDE DEF W, m
  <1>3. ASSUME NEW b \in B
        PROVE  /\ point(b) \in Mean(Values) /\ ~point(b).live
               /\ point(b).x \in W /\ point(b).x \div Bucket = b
               /\ \A x \in own(b) : x <= point(b).x
    <2>1. own(b) \in SUBSET W /\ own(b) \in SUBSET Int /\ own(b) # {}
      BY <1>1
    <2>2. IsFiniteSet(own(b)) /\ Cardinality(own(b)) \in Nat /\ Cardinality(own(b)) # 0
      <3> HIDE DEF own
      <3>1. IsFiniteSet(own(b))
        BY <1>1, <2>1, FS_Subset
      <3> QED BY <2>1, <3>1, FS_CardinalityType, FS_EmptySet
    <2>3. Max(own(b)) \in own(b) /\ \A x \in own(b) : x <= Max(own(b))
      <3> HIDE DEF own
      <3> QED BY <2>1, <2>2, FiniteMax
    <2>4. values(b) \in SUBSET Values /\ values(b) \in SUBSET Int /\ values(b) # {}
      <3>1. \A x \in own(b) : rows[x][key] \in Values
        BY <1>1
      <3>2. \A v \in Values : v \in Int
        OBVIOUS
      <3> HIDE DEF own
      <3>3. values(b) \in SUBSET Values /\ values(b) # {}
        BY <2>1, <3>1
      <3> HIDE DEF values
      <3> QED BY <3>2, <3>3
    <2>5. IsFiniteSet(values(b))
      <3> DEFINE g == [x \in own(b) |-> rows[x][key]]
      <3>1. values(b) = {g[x] : x \in own(b)}
        OBVIOUS
      <3> HIDE DEF g, own
      <3> QED BY <2>2, <3>1, FiniteImage
    <2>6. Min(values(b)) \in Values /\ Max(values(b)) \in Values
      <3> HIDE DEF values
      <3> QED BY <2>4, <2>5, FiniteMax
    <2>7. mean(b) \in Nat
      <3> DEFINE g == [x \in own(b) |-> rows[x][key]]
      <3>1. \A x \in own(b) : g[x] \in Nat
        BY <1>1, <2>1
      <3> HIDE DEF g, own
      <3>2. SumOver(g, own(b)) \in Nat
        BY <2>1, <2>2, <3>1, SumOf
      <3>3. SumOver(g, own(b)) \div Cardinality(own(b)) \in Nat
        BY <2>2, <3>2, QuotientNat
      <3> QED BY <3>3 DEF g
    <2>8. Max(own(b)) \in W /\ Max(own(b)) \in Nat /\ Max(own(b)) \div Bucket = b
      BY <1>1, <2>3
    <2> HIDE DEF own, values, mean
    <2> QED BY <2>3, <2>6, <2>7, <2>8 DEF Mean
  <1>4. \A b \in B : f[b] = point(b)
    OBVIOUS
  <1>5. IsFiniteSet(B)
    <2> DEFINE g == [x \in W |-> x \div Bucket]
    <2>1. B = {g[x] : x \in W}
      OBVIOUS
    <2> HIDE DEF g, B
    <2> QED BY <1>1, <2>1, FiniteImage
  <1>6. m \div Bucket \in B /\ m \in own(m \div Bucket)
    BY <1>1
  <1>7. point(m \div Bucket).x = m
    <2>1. point(m \div Bucket).x \in W /\ m <= point(m \div Bucket).x
      BY <1>3, <1>6
    <2> HIDE DEF point
    <2> QED BY <1>1, <2>1
  <1> HIDE DEF own, point, f, B
  <1>8. Timed(points)
    <2>1. IsFiniteSet(points)
      BY <1>5, FiniteImage
    <2>2. \A p \in points : p.x \in Int
      BY <1>1, <1>3, <1>4
    <2>3. \A p, q \in points : p.x = q.x => p = q
      <3> TAKE p, q \in points
      <3>1. PICK b \in B, c \in B : p = point(b) /\ q = point(c)
        BY <1>4
      <3> QED BY <1>3, <3>1
    <2> HIDE DEF points
    <2> QED BY <2>1, <2>2, <2>3 DEF Timed
  <1>9. /\ f[m \div Bucket] \in points /\ f[m \div Bucket].x = m
        /\ \A q \in points : q.x <= m
    BY <1>1, <1>3, <1>4, <1>6, <1>7
  <1>10. points \subseteq {p \in Mean(Values) : ~p.live}
    BY <1>3, <1>4
  <1> HIDE DEF points
  <1>11. /\ InOrder(points) \in Seq(points) /\ Rising(InOrder(points))
         /\ InOrder(points) # <<>> /\ Last(InOrder(points)).x = m
    BY <1>8, <1>9, EndsWith
  <1>12. InOrder(points) \in Seq({p \in Mean(Values) : ~p.live})
    BY <1>10, <1>11
  <1> QED BY <1>2, <1>11, <1>12 DEF m

\* The latencies are of the samples in the window.
LEMMA LatencyPointsOf ==
  ASSUME NEW now \in Nat, NEW rows, IsRows(rows, now)
  PROVE  /\ LatencyPoints(rows, now)
              \in Seq({[x |-> x, y |-> rows[x].ms] : x \in {z \in DOMAIN rows : z >= now - Span}})
         /\ Rising(LatencyPoints(rows, now))
  <1> DEFINE W == {z \in DOMAIN rows : z >= now - Span}
             f == [x \in W |-> [x |-> x, y |-> rows[x].ms]]
             points == {f[x] : x \in W}
  <1>1. points = {[x |-> x, y |-> rows[x].ms] : x \in W}
    OBVIOUS
  <1>2. IsFiniteSet(W) /\ \A x \in W : x \in Int
    <2>1. IsFiniteSet(1..now)
      BY FS_Interval
    <2>2. W \in SUBSET (1..now)
      BY DEF IsRows
    <2> HIDE DEF W
    <2>3. IsFiniteSet(W)
      BY <2>1, <2>2, FS_Subset
    <2> QED BY <2>2, <2>3
  <1>3. \A x \in W : f[x].x = x
    OBVIOUS
  <1> HIDE DEF f, W
  <1>4. Timed(points)
    <2>1. IsFiniteSet(points)
      BY <1>2, FiniteImage
    <2>2. \A p \in points : p.x \in Int
      BY <1>2, <1>3
    <2>3. \A p, q \in points : p.x = q.x => p = q
      BY <1>3
    <2> HIDE DEF points
    <2> QED BY <2>1, <2>2, <2>3 DEF Timed
  <1> HIDE DEF points
  <1>5. InOrder(points) \in Seq(points) /\ Rising(InOrder(points))
    BY <1>4, OrderedOf
  <1> QED BY <1>1, <1>5 DEF LatencyPoints, W

-----------------------------------------------------------------------------
(* The axes.                                                                *)

LEMMA DecadeDefined ==
  /\ Decade \in [Nat -> Nat]
  /\ \A n \in Nat : Decade[n] = IF n < 10 THEN 1 ELSE 10 * Decade[n \div 10]
  <1> DEFINE V == [Nat -> Nat]
             better == [g \in V |-> [n \in Nat |-> IF n < 10 THEN 1 ELSE 10 * g[n \div 10]]]
             start == [n \in Nat |-> 1]
             step == [k \in Nat |-> better]
  <1>1. \A n \in Nat : n \div 10 \in Nat /\ (n >= 10 => n \div 10 < n)
    OBVIOUS
  <1>2. start \in V /\ step \in [Nat -> [V -> V]]
    BY <1>1
  <1>3. PICK h \in [Nat -> V] : h[0] = start /\ \A k \in Nat : h[k + 1] = step[k + 1][h[k]]
    <2> HIDE DEF better, start, step, V
    <2> QED BY <1>2, RecursionOnNat, SMTT(30)
  <1>4. \A k \in Nat : h[k] \in V
    BY <1>3
  <1>5. ASSUME NEW k \in Nat, NEW n \in Nat
        PROVE  h[k + 1][n] = IF n < 10 THEN 1 ELSE 10 * h[k][n \div 10]
    <2>1. k + 1 \in Nat /\ h[k] \in V
      BY <1>4
    <2>2. h[k + 1] = better[h[k]]
      <3>1. step[k + 1] = better
        BY <2>1
      <3> HIDE DEF better, step
      <3> QED BY <1>3, <3>1
    <2>3. better[h[k]] = [i \in Nat |-> IF i < 10 THEN 1 ELSE 10 * h[k][i \div 10]]
      BY <2>1
    <2> HIDE DEF better, V
    <2> QED BY <2>2, <2>3
  <1>6. \A n \in Nat : h[0][n] = 1
    BY <1>3
  <1>7. \A k, n \in Nat : h[k][n] \in Nat
    BY <1>4
  <1> HIDE DEF V, better, start, step
  <1> DEFINE Stable == {k \in Nat : \A n \in 0..k : h[k + 1][n] = h[k][n]}
  <1>8. Stable = Nat
    <2>1. 0 \in Stable
      <3>1. h[0 + 1][0] = 1 /\ h[0][0] = 1
        BY <1>5, <1>6
      <3> QED BY <3>1
    <2>2. ASSUME NEW k \in Nat, k \in Stable PROVE k + 1 \in Stable
      <3> SUFFICES ASSUME NEW n \in 0..(k + 1) PROVE h[(k + 1) + 1][n] = h[k + 1][n]
        OBVIOUS
      <3>1. /\ h[(k + 1) + 1][n] = IF n < 10 THEN 1 ELSE 10 * h[k + 1][n \div 10]
            /\ h[k + 1][n] = IF n < 10 THEN 1 ELSE 10 * h[k][n \div 10]
        <4>1. k + 1 \in Nat /\ n \in Nat
          OBVIOUS
        <4> QED BY <1>5, <4>1
      <3>2. CASE n < 10
        BY <3>1, <3>2
      <3>3. CASE ~(n < 10)
        <4>1. n \div 10 \in 0..k
          BY <3>3
        <4>2. h[k + 1][n \div 10] = h[k][n \div 10]
          BY <2>2, <4>1
        <4> QED BY <3>1, <3>3, <4>2
      <3> QED BY <3>2, <3>3
    <2>3. Stable \in SUBSET Nat
      OBVIOUS
    <2> HIDE DEF Stable
    <2> QED BY <2>1, <2>2, <2>3, NoFirstFailure
  <1>9. ASSUME NEW n \in Nat, NEW j \in Nat PROVE h[n + j][n] = h[n][n]
    <2> DEFINE Same == {i \in Nat : h[n + i][n] = h[n][n]}
    <2>1. 0 \in Same
      <3>1. n + 0 = n
        OBVIOUS
      <3> QED BY <3>1
    <2>2. ASSUME NEW i \in Nat, i \in Same PROVE i + 1 \in Same
      <3>1. n + i \in Stable /\ n \in 0..(n + i) /\ n + (i + 1) = (n + i) + 1
        <4>1. n + i \in Nat /\ n \in 0..(n + i) /\ n + (i + 1) = (n + i) + 1
          OBVIOUS
        <4> HIDE DEF Stable
        <4> QED BY <1>8, <4>1
      <3>2. h[(n + i) + 1][n] = h[n + i][n]
        BY <3>1
      <3> QED BY <2>2, <3>1, <3>2
    <2>3. Same \in SUBSET Nat
      OBVIOUS
    <2> HIDE DEF Same
    <2>4. Same = Nat
      BY <2>1, <2>2, <2>3, NoFirstFailure
    <2> QED BY <2>4 DEF Same
  <1> HIDE DEF Stable
  <1> DEFINE d == [n \in Nat |-> h[n][n]]
             IsDecade(D) == D = [n \in Nat |-> IF n < 10 THEN 1 ELSE 10 * D[n \div 10]]
  <1>10. d \in [Nat -> Nat]
    BY <1>7
  <1>11. ASSUME NEW n \in Nat PROVE d[n] = IF n < 10 THEN 1 ELSE 10 * d[n \div 10]
    <2>1. CASE n < 10
      <3>1. CASE n = 0
        BY <1>6, <3>1
      <3>2. CASE n # 0
        <4>1. n - 1 \in Nat /\ (n - 1) + 1 = n
          BY <3>2
        <4>2. h[(n - 1) + 1][n] = 1
          BY <1>5, <2>1, <4>1
        <4> QED BY <2>1, <4>1, <4>2
      <3> QED BY <3>1, <3>2
    <2>2. CASE ~(n < 10)
      <3> DEFINE q == n \div 10
                 j == (n - 1) - q
      <3>1. q \in Nat /\ j \in Nat /\ q + j = n - 1 /\ n - 1 \in Nat /\ (n - 1) + 1 = n
        BY <2>2
      <3>2. h[(n - 1) + 1][n] = 10 * h[n - 1][q]
        BY <1>5, <2>2, <3>1
      <3> HIDE DEF j
      <3>3. h[q + j][q] = h[q][q]
        BY <1>9, <3>1
      <3>4. d[n] = h[n][n] /\ d[q] = h[q][q]
        BY <3>1
      <3> HIDE DEF d, q
      <3>5. d[n] = 10 * d[q]
        BY <3>1, <3>2, <3>3, <3>4
      <3> QED BY <2>2, <3>5 DEF q
    <2> QED BY <2>1, <2>2
  <1> HIDE DEF d
  <1>12. IsDecade(d)
    <2>1. d = [n \in Nat |-> d[n]]
      BY <1>10
    <2> QED BY <1>11, <2>1
  <1>13. Decade = CHOOSE D : IsDecade(D)
    BY DEF Decade
  <1>14. IsDecade(Decade)
    <2> HIDE DEF IsDecade
    <2> QED BY <1>12, <1>13
  <1>15. \A n \in Nat : Decade[n] = IF n < 10 THEN 1 ELSE 10 * Decade[n \div 10]
    BY <1>14
  <1>16. Decade \in [Nat -> Nat]
    <2> DEFINE Wrong == {n \in Nat : ~(Decade[n] \in Nat)}
    <2>1. Wrong = {}
      <3> SUFFICES ASSUME Wrong # {} PROVE FALSE
        OBVIOUS
      <3>1. PICK n \in Wrong : \A m \in Wrong : n <= m
        BY LeastElement
      <3>2. CASE n < 10
        BY <1>15, <3>1, <3>2
      <3>3. CASE ~(n < 10)
        <4>1. n \div 10 \in Nat /\ n \div 10 < n
          BY <1>1, <3>3
        <4>2. Decade[n \div 10] \in Nat
          BY <3>1, <4>1
        <4> QED BY <1>15, <3>1, <3>3, <4>2
      <3> QED BY <3>2, <3>3
    <2>2. Decade = [n \in Nat |-> Decade[n]]
      <3>1. Decade = [n \in Nat |-> IF n < 10 THEN 1 ELSE 10 * Decade[n \div 10]]
        BY <1>14
      <3> QED BY <3>1, Zenon
    <2> QED BY <2>1, <2>2
  <1> QED BY <1>15, <1>16

\* Ten times the decade of a number is more than the number.
LEMMA DecadeCovers == \A n \in Nat : Decade[n] \in Nat /\ n < 10 * Decade[n]
  <1> DEFINE Wrong == {n \in Nat : ~(n < 10 * Decade[n])}
  <1>1. Wrong = {}
    <2> SUFFICES ASSUME Wrong # {} PROVE FALSE
      OBVIOUS
    <2>1. PICK n \in Wrong : \A m \in Wrong : n <= m
      BY LeastElement
    <2>2. Decade[n] = (IF n < 10 THEN 1 ELSE 10 * Decade[n \div 10]) /\ Decade[n] \in Nat
      BY DecadeDefined
    <2>3. CASE n < 10
      BY <2>1, <2>2, <2>3
    <2>4. CASE ~(n < 10)
      <3> DEFINE q == n \div 10
      <3>1. q \in Nat /\ q < n /\ n < 10 * q + 10
        BY <2>1, <2>4
      <3>2. Decade[n] = 10 * Decade[q]
        BY <2>2, <2>4
      <3> HIDE DEF q
      <3>3. Decade[q] \in Nat /\ q < 10 * Decade[q]
        BY <2>1, <3>1, DecadeDefined
      <3> QED BY <2>1, <3>1, <3>2, <3>3
    <2> QED BY <2>3, <2>4
  <1> QED BY <1>1, DecadeDefined

\* An axis made by niceAxisMax covers its value.
LEMMA NiceMaxCovers ==
  ASSUME NEW value \in Nat, NEW least \in Nat, NEW pad \in Nat, pad >= 100,
         NEW steps \in SUBSET Nat, IsFiniteSet(steps)
  PROVE  NiceMax(value, least, pad, steps) \in Nat /\ value <= NiceMax(value, least, pad, steps)
  <1> DEFINE target == Newer(100 * least, value * pad)
             covering(some) == {step \in some : 100 * step >= target}
             decade == Decade[target \div 100]
             round == {m * decade : m \in {1, 2, 5, 10}}
             chosen == covering(IF covering(steps) # {} THEN steps ELSE round)
  <1>1. NiceMax(value, least, pad, steps) = Min(chosen)
    BY DEF NiceMax
  <1>2. target \in Nat /\ 100 * value <= target
    <2>1. value * pad \in Nat /\ 100 * value <= value * pad
      OBVIOUS
    <2> QED BY <2>1 DEF Newer
  <1> HIDE DEF target
  <1>3. decade \in Nat /\ target <= 100 * (10 * decade)
    <2>1. target \div 100 \in Nat /\ target < 100 * (target \div 100) + 100
      BY <1>2
    <2>2. decade \in Nat /\ target \div 100 < 10 * decade
      BY <2>1, DecadeCovers
    <2> HIDE DEF decade
    <2> QED BY <1>2, <2>1, <2>2
  <1> HIDE DEF decade
  <1>4. round = {1 * decade, 2 * decade, 5 * decade, 10 * decade}
    OBVIOUS
  <1>5. IsFiniteSet(round) /\ round \in SUBSET Nat /\ 10 * decade \in covering(round)
    <2>1. IsFiniteSet({1, 2, 5, 10})
      <3>1. IsFiniteSet(1..10)
        <4>1. 1 \in Int /\ 10 \in Int
          OBVIOUS
        <4> QED BY <4>1, FS_Interval, Zenon
      <3>2. {1, 2, 5, 10} \in SUBSET (1..10)
        OBVIOUS
      <3> QED BY <3>1, <3>2, FS_Subset
    <2> DEFINE f == [m \in {1, 2, 5, 10} |-> m * decade]
               M == {1, 2, 5, 10}
    <2>2. round = {f[m] : m \in M}
      OBVIOUS
    <2>3. IsFiniteSet(round)
      <3> HIDE DEF f, round
      <3> QED BY <2>1, <2>2, FiniteImage
    <2>4. round \in SUBSET Nat
      BY <1>3
    <2>5. 10 * decade \in covering(round)
      BY <1>3
    <2> QED BY <2>3, <2>4, <2>5
  <1>6. chosen \in SUBSET Nat /\ chosen # {} /\ IsFiniteSet(chosen)
        /\ \A step \in chosen : 100 * step >= target
    <2> HIDE DEF round
    <2>1. covering(steps) \in SUBSET steps /\ covering(round) \in SUBSET round
      OBVIOUS
    <2>2. IsFiniteSet(covering(steps)) /\ IsFiniteSet(covering(round))
      <3> HIDE DEF covering
      <3> QED BY <1>5, <2>1, FS_Subset
    <2>3. CASE covering(steps) # {}
      BY <2>1, <2>2, <2>3
    <2>4. CASE covering(steps) = {}
      BY <1>5, <2>1, <2>2, <2>4
    <2> QED BY <2>3, <2>4
  <1> HIDE DEF chosen
  <1>7. Min(chosen) \in chosen
    <2>1. chosen \in SUBSET Int
      BY <1>6
    <2> QED BY <1>6, <2>1, FiniteMax
  <1>8. Min(chosen) \in Nat /\ 100 * Min(chosen) >= target
    BY <1>6, <1>7
  <1>9. value <= Min(chosen)
    BY <1>2, <1>8
  <1> QED BY <1>1, <1>8, <1>9

LEMMA PeakOf ==
  ASSUME NEW values \in Seq(Nat)
  PROVE  Peak(values) \in Nat /\ \A i \in 1..Len(values) : values[i] <= Peak(values)
  <1>1. values = <<>> => Len(values) = 0
    OBVIOUS
  <1>2. CASE values = <<>>
    BY <1>1, <1>2 DEF Peak
  <1>3. CASE values # <<>>
    <2> DEFINE S == ToSet(values)
    <2>1. /\ Len(values) \in Nat /\ Len(values) # 0 /\ DOMAIN values = 1..Len(values)
          /\ \A i \in 1..Len(values) : values[i] \in Nat
      BY <1>3, EmptySeq, LenProperties, ElementOfSeq
    <2>2. S = {values[i] : i \in 1..Len(values)}
      BY <2>1 DEF ToSet
    <2>3. IsFiniteSet(1..Len(values))
      BY <2>1, FS_Interval
    <2>4. IsFiniteSet(S)
      BY <2>2, <2>3, FiniteImage
    <2>5. S \in SUBSET Int /\ S # {} /\ S \in SUBSET Nat
      <3>1. 1 \in 1..Len(values)
        BY <2>1
      <3> QED BY <2>1, <2>2, <3>1
    <2>6. \A i \in 1..Len(values) : values[i] \in S
      BY <2>2
    <2> HIDE DEF S
    <2>7. Max(S) \in S /\ \A x \in S : x <= Max(S)
      BY <2>4, <2>5, FiniteMax
    <2>8. Peak(values) = Max(S)
      BY <1>3 DEF Peak, S
    <2> QED BY <2>5, <2>6, <2>7, <2>8
  <1> QED BY <1>2, <1>3

LEMMA StepsFinite ==
  /\ IsFiniteSet(RateSteps) /\ RateSteps \in SUBSET Nat
  /\ IsFiniteSet(LatencySteps) /\ LatencySteps \in SUBSET Nat
  <1>1. \E n \in Nat : RateSteps \subseteq 0..n /\ LatencySteps \subseteq 0..n
    <2>1. 1024000 \in Nat
      BY SMT
    <2>2. /\ \A s \in RateSteps : s \in Nat /\ s <= 1024000
          /\ \A s \in LatencySteps : s \in Nat /\ s <= 1024000
      <3>1. \A s \in RateSteps : s \in Nat /\ s <= 1024000
        BY SMT DEF RateSteps
      <3>2. \A s \in LatencySteps : s \in Nat /\ s <= 1024000
        BY SMT DEF LatencySteps
      <3> QED BY <3>1, <3>2, SMT
    <2> DEFINE n == 1024000
    <2>3. /\ n \in Nat
          /\ \A s \in RateSteps : s \in Nat /\ s <= n
          /\ \A s \in LatencySteps : s \in Nat /\ s <= n
      BY <2>1, <2>2, SMT
    <2> HIDE DEF n
    <2>4. RateSteps \subseteq 0..n /\ LatencySteps \subseteq 0..n
      <3>1. RateSteps \subseteq 0..n
        BY <2>3
      <3>2. LatencySteps \subseteq 0..n
        BY <2>3
      <3> QED BY <3>1, <3>2
    <2> QED BY <2>3, <2>4, Zenon
  <1>2. PICK n \in Nat : RateSteps \subseteq 0..n /\ LatencySteps \subseteq 0..n
    BY <1>1
  <1>3. IsFiniteSet(0..n) /\ \A i \in 0..n : i \in Nat
    BY FS_Interval
  <1>4. IsFiniteSet(RateSteps) /\ IsFiniteSet(LatencySteps)
    BY <1>2, <1>3, FS_Subset
  <1> QED BY <1>2, <1>3, <1>4

\* The axes of the rates and of the latencies go up to the greatest value.
LEMMA RateAxisCovers ==
  ASSUME NEW values \in Seq(Nat)
  PROVE  /\ RateAxis(values).mode \in {"linear", "sqrt"}
         /\ \A i \in 1..Len(values) : values[i] <= RateAxis(values).top
  <1> DEFINE top == NiceMax(Peak(values), 10, 115, RateSteps)
             outlier == Percentile95(values) > 0 /\ Peak(values) > 3 * Percentile95(values)
  <1>1. RateAxis(values) = IF outlier THEN [mode |-> "sqrt", top |-> top]
                           ELSE [mode |-> "linear", top |-> 4 * Ceil(top, 4)]
    BY DEF RateAxis
  <1>2. top \in Nat /\ Peak(values) <= top
    <2>1. Peak(values) \in Nat /\ 10 \in Nat /\ 115 \in Nat /\ 115 >= 100
      BY PeakOf
    <2> QED BY <2>1, StepsFinite, NiceMaxCovers
  <1>3. \A i \in 1..Len(values) : values[i] \in Nat /\ values[i] <= top
    <2>1. Peak(values) \in Nat /\ \A i \in 1..Len(values) : values[i] <= Peak(values)
      BY PeakOf
    <2>2. \A i \in 1..Len(values) : values[i] \in Nat
      BY ElementOfSeq
    <2> HIDE DEF top
    <2> QED BY <1>2, <2>1, <2>2
  <1> HIDE DEF top, outlier
  <1>4. top <= 4 * Ceil(top, 4) /\ 4 * Ceil(top, 4) \in Nat
    BY <1>2 DEF Ceil
  <1>5. RateAxis(values).mode \in {"linear", "sqrt"} /\ RateAxis(values).top \in {top, 4 * Ceil(top, 4)}
    BY <1>1
  <1> QED BY <1>2, <1>3, <1>4, <1>5

LEMMA LatencyAxisCovers ==
  ASSUME NEW values \in Seq(Nat)
  PROVE  \A i \in 1..Len(values) : values[i] <= LatencyAxis(values)
  <1> DEFINE top == NiceMax(Peak(values), 50, 130, LatencySteps)
  <1>1. top \in Nat /\ Peak(values) <= top
    <2>1. Peak(values) \in Nat /\ 50 \in Nat /\ 130 \in Nat /\ 130 >= 100
      BY PeakOf
    <2> QED BY <2>1, StepsFinite, NiceMaxCovers
  <1>2. Peak(values) \in Nat /\ \A i \in 1..Len(values) : values[i] <= Peak(values)
    BY PeakOf
  <1>3. \A i \in 1..Len(values) : values[i] \in Nat
    BY ElementOfSeq
  <1> HIDE DEF top
  <1>4. \A i \in 1..Len(values) : values[i] <= top
    BY <1>1, <1>2, <1>3
  <1> QED BY <1>4 DEF top, LatencyAxis

\* The axis of the processes is never below zero, has room for four steps, and all the
\* values are on it.
LEMMA ProcessAxisCovers ==
  ASSUME NEW values \in Seq(Nat)
  PROVE  /\ ProcessAxis(values) \in [min : Nat, max : Nat]
         /\ ProcessAxis(values).max - ProcessAxis(values).min >= 4
         /\ \A i \in 1..Len(values) : Inside(values[i], ProcessAxis(values))
  <1> DEFINE S == ToSet(values)
             least == IF values = <<>> THEN 0 ELSE Min(S)
             most == IF values = <<>> THEN 1 ELSE Max(S)
             pad == IF Len(values) > 1 THEN Newer(1, Ceil(15 * (most - least), 100)) ELSE 1
             rawMin == Newer(0, least - pad)
             rawMax == Newer(rawMin + 1, most + pad)
             span == Newer(4, 4 * Ceil(rawMax - rawMin, 4))
             low == Newer(0, rawMax - span)
  <1>1. ProcessAxis(values) = [min |-> low, max |-> low + span]
    BY DEF ProcessAxis
  <1>2. least \in Nat /\ most \in Nat /\ least <= most
        /\ \A i \in 1..Len(values) : values[i] \in Nat /\ least <= values[i] /\ values[i] <= most
    <2>1. CASE values = <<>>
      <3>1. Len(values) = 0
        BY <2>1
      <3> QED BY <2>1, <3>1
    <2>2. CASE values # <<>>
      <3>1. /\ Len(values) \in Nat /\ Len(values) # 0 /\ DOMAIN values = 1..Len(values)
            /\ \A i \in 1..Len(values) : values[i] \in Nat
        BY <2>2, EmptySeq, LenProperties, ElementOfSeq
      <3>2. S = {values[i] : i \in 1..Len(values)}
        BY <3>1 DEF ToSet
      <3>3. IsFiniteSet(1..Len(values))
        BY <3>1, FS_Interval
      <3>4. IsFiniteSet(S)
        BY <3>2, <3>3, FiniteImage
      <3>5. S \in SUBSET Int /\ S # {} /\ S \in SUBSET Nat
        <4>1. 1 \in 1..Len(values)
          BY <3>1
        <4> QED BY <3>1, <3>2, <4>1
      <3>6. \A i \in 1..Len(values) : values[i] \in S
        BY <3>2
      <3> HIDE DEF S
      <3>7. /\ Max(S) \in S /\ \A x \in S : x <= Max(S)
            /\ Min(S) \in S /\ \A x \in S : Min(S) <= x
        BY <3>4, <3>5, FiniteMax
      <3>8. least = Min(S) /\ most = Max(S)
        BY <2>2
      <3> HIDE DEF least, most
      <3> QED BY <3>1, <3>5, <3>6, <3>7, <3>8
    <2> QED BY <2>1, <2>2
  <1> HIDE DEF least, most
  <1>3. pad \in Nat /\ pad >= 1
    <2>1. Ceil(15 * (most - least), 100) \in Int
      <3>1. 15 * (most - least) + 100 - 1 \in Int /\ 100 \in Nat /\ 100 >= 1
        BY <1>2
      <3> QED BY <3>1, Quotient DEF Ceil
    <2> QED BY <2>1 DEF Newer
  <1> HIDE DEF pad
  <1>4. /\ rawMin \in Nat /\ (rawMin = 0 \/ rawMin <= least - pad)
        /\ rawMax \in Nat /\ rawMax >= rawMin + 1 /\ rawMax >= most + pad
    BY <1>2, <1>3 DEF Newer
  <1> HIDE DEF rawMin, rawMax
  <1>5. span \in Nat /\ span >= 4 /\ span >= rawMax - rawMin
    BY <1>4 DEF Newer, Ceil
  <1> HIDE DEF span
  <1>6. low \in Nat /\ (low = 0 \/ low = rawMax - span) /\ low >= rawMax - span
    BY <1>4, <1>5 DEF Newer
  <1> HIDE DEF low
  <1>7. \A i \in 1..Len(values) : low <= values[i] /\ values[i] <= low + span
    <2> TAKE i \in 1..Len(values)
    <2>1. values[i] \in Nat /\ least <= values[i] /\ values[i] <= most
      BY <1>2
    <2>2. low <= values[i]
      BY <1>2, <1>3, <1>4, <1>5, <1>6, <2>1
    <2>3. values[i] <= low + span
      BY <1>2, <1>3, <1>4, <1>5, <1>6, <2>1
    <2> QED BY <2>2, <2>3
  <1>8. /\ ProcessAxis(values).min = low /\ ProcessAxis(values).max = low + span
        /\ ProcessAxis(values) \in [min : Nat, max : Nat]
    BY <1>1, <1>5, <1>6
  <1>9. ProcessAxis(values).max - ProcessAxis(values).min >= 4
    BY <1>5, <1>6, <1>8
  <1> QED BY <1>7, <1>8, <1>9 DEF Inside

\* The axes of time reach from one end of their curve to the other, and the
\* anchored one holds all of it.
LEMMA AnchoredHolds ==
  ASSUME NEW now \in Nat, NEW S, \A p \in S : p.x \in Int, NEW curve \in Seq(S), Rising(curve),
         \A p \in S, q \in S : q.x - Span <= p.x
  PROVE  \A i \in 1..Len(curve) : Inside(curve[i].x, Anchored(curve, now))
  <1>1. CASE curve = <<>>
    <2>1. Len(curve) = 0
      BY <1>1
    <2> QED BY <2>1
  <1>2. CASE curve # <<>>
    <2> DEFINE first == curve[1].x
               end == Last(curve).x
               min == Newer(first, end - Span)
               max == IF end > min THEN end ELSE min + Span
    <2>1. Anchored(curve, now) = [min |-> min, max |-> max]
      BY <1>2 DEF Anchored
    <2>2. /\ first \in Int /\ end \in Int /\ Last(curve) \in S
          /\ \A i \in 1..Len(curve) : curve[i] \in S /\ curve[i].x \in Int
                                      /\ first <= curve[i].x /\ curve[i].x <= end
      BY <1>2, CurveEnds
    <2> TAKE i \in 1..Len(curve)
    <2>3. end - Span <= curve[i].x
      BY <2>2
    <2> HIDE DEF first, end
    <2>4. Span \in Nat
      BY ChartBounds
    <2>5. min \in Int /\ max \in Int /\ min <= curve[i].x /\ curve[i].x <= max
      BY <2>2, <2>3, <2>4 DEF Newer
    <2> QED BY <2>1, <2>5 DEF Inside
  <1> QED BY <1>1, <1>2

LEMMA ColdStartHolds ==
  ASSUME NEW now \in Int, NEW S, \A p \in S : p.x \in Int, NEW curve \in Seq(S), Rising(curve),
         curve # <<>>
  PROVE  Inside(Last(curve).x, ColdStart(curve, now))
  <1> DEFINE first == curve[1].x
             end == Last(curve).x
             axis == IF end >= first + Span THEN [min |-> end - Span, max |-> end]
                     ELSE [min |-> first, max |-> first + Span]
  <1>1. ColdStart(curve, now) = axis
    BY DEF ColdStart
  <1>2. first \in Int /\ end \in Int /\ first <= end
    <2>1. 1 \in 1..Len(curve)
      BY CurveEnds
    <2> QED BY <2>1, CurveEnds
  <1> HIDE DEF first, end
  <1>3. Span \in Nat
    BY ChartBounds
  <1>4. axis.min <= end /\ end <= axis.max
    BY <1>2, <1>3
  <1> QED BY <1>1, <1>4 DEF Inside, end

-----------------------------------------------------------------------------
(* The charts that live answers move.                                       *)

EndOf(curve) == IF curve = <<>> THEN -1 ELSE Last(curve).x

\* A chart of means, and one that is right: its curve rises and ends on the axis.
MovingChart(Values, Axis) ==
  [points : Seq(Mean(Values)), band : Seq(Mean(Values)), x : [min : Int, max : Int], y : Axis,
   message : BOOLEAN]
Steady(chart) ==
  /\ Rising(chart.points)
  /\ chart.points # <<>> => Inside(Last(chart.points).x, chart.x) /\ ~chart.message

LEMMA AppendedOf ==
  ASSUME NEW P, \A p \in P : p.x \in Nat, NEW curve \in Seq(P), Rising(curve), NEW point \in P
  PROVE  /\ Appended(curve, point) \in Seq(P) /\ Rising(Appended(curve, point))
         /\ Appended(curve, point) # <<>>
         /\ Last(Appended(curve, point)).x = Newer(EndOf(curve), point.x)
         /\ \A i \in 1..Len(Appended(curve, point)) :
              \/ Appended(curve, point)[i] = point
              \/ \E j \in 1..Len(curve) : Appended(curve, point)[i] = curve[j]
  <1>1. point.x \in Nat
    OBVIOUS
  <1>2. CASE curve = <<>>
    <2>1. /\ <<point>> \in Seq(P) /\ Len(<<point>>) = 1 /\ <<point>>[1] = point /\ <<point>> # <<>>
      OBVIOUS
    <2>2. Appended(curve, point) = <<point>> /\ EndOf(curve) = -1
      BY <1>2 DEF Appended, EndOf
    <2> DEFINE one == <<point>>
    <2> HIDE DEF one
    <2>3. one \in Seq(P) /\ Len(one) = 1 /\ one[1] = point /\ one # <<>> /\ Appended(curve, point) = one
      BY <2>1, <2>2 DEF one
    <2>4. Rising(one) /\ Last(one) = point /\ \A i \in 1..Len(one) : one[i] = point
      BY <2>3 DEF Rising, Last
    <2>5. point.x = Newer(EndOf(curve), point.x)
      BY <1>1, <2>2 DEF Newer
    <2> QED BY <2>3, <2>4, <2>5
  <1>3. CASE curve # <<>>
    <2> DEFINE n == Len(curve)
               end == curve[n]
               late == point.x <= end.x /\ (n <= Substantial \/ point.x < end.x)
               near == n > Substantial /\ point.x <= end.x + 1
    <2>1. /\ n \in Nat /\ n >= 1 /\ Last(curve) = end /\ end.x \in Int
          /\ \A i \in 1..n : curve[i] \in P /\ curve[i].x \in Int /\ curve[i].x <= end.x
      <3>1. \A p \in P : p.x \in Int
        OBVIOUS
      <3> QED BY <1>3, <3>1, CurveEnds
    <2>2. EndOf(curve) = end.x
      BY <1>3, <2>1 DEF EndOf
    <2>3. Appended(curve, point) = IF late THEN curve
                                   ELSE IF near THEN Append(Front(curve), point)
                                   ELSE Append(curve, point)
      BY <1>3, <2>1 DEF Appended
    <2>4. \A i, j \in 1..n : i < j => curve[i].x < curve[j].x
      BY DEF Rising
    <2>5. Substantial \in Nat
      BY ChartBounds
    <2>6. CASE late
      <3>1. end.x = Newer(EndOf(curve), point.x)
        BY <1>1, <2>1, <2>2, <2>6 DEF Newer
      <3>2. Appended(curve, point) = curve
        BY <2>3, <2>6
      <3> QED BY <1>3, <2>1, <3>1, <3>2
    <2>7. CASE ~late /\ near
      <3> DEFINE front == SubSeq(curve, 1, n - 1)
                 new == Append(front, point)
      <3>1. /\ front \in Seq(P) /\ Len(front) = n - 1
            /\ \A i \in 1..(n - 1) : front[i] = curve[i]
        <4>1. n - 1 \in 0..n /\ \A i \in 1..(n - 1) : curve[i] \in P
          BY <2>1
        <4>2. Len(SubSeq(curve, 1, n - 1)) = n - 1
              /\ \A i \in 1..(n - 1) : SubSeq(curve, 1, n - 1)[i] = curve[i]
          <5>1. 1 \in Int /\ n - 1 \in Int /\ \A i \in 1..(n - 1) : curve[i] \in P
            BY <2>1, <4>1
          <5> DEFINE sub == SubSeq(curve, 1, n - 1)
                     end1 == n - 1
          <5> HIDE DEF end1
          <5>2. /\ Len(SubSeq(curve, 1, end1)) = IF 1 <= end1 THEN end1 - 1 + 1 ELSE 0
                /\ \A i \in 1..(end1 - 1 + 1) : SubSeq(curve, 1, end1)[i] = curve[1 + i - 1]
            BY <5>1, SubSeqProperties DEF end1
          <5>3. end1 \in Int /\ end1 >= 0 /\ end1 = n - 1
            BY <2>1 DEF end1
          <5> HIDE DEF sub, n
          <5>4. end1 - 1 + 1 = end1 /\ \A i \in 1..end1 : 1 + i - 1 = i
            BY <5>3
          <5>5. Len(SubSeq(curve, 1, end1)) = end1
            BY <5>2, <5>3
          <5>6. \A i \in 1..end1 : SubSeq(curve, 1, end1)[i] = curve[i]
            BY <5>2, <5>4
          <5> QED BY <5>3, <5>5, <5>6
        <4>3. SubSeq(curve, 1, n - 1) \in Seq(P)
          BY <2>1, <4>1, SubSeqProperties
        <4> QED BY <4>2, <4>3
      <3>2. Appended(curve, point) = new
        BY <2>3, <2>7 DEF Front
      <3> HIDE DEF front
      <3>3. /\ new \in Seq(P) /\ Len(new) = n /\ new[n] = point
            /\ \A i \in 1..(n - 1) : new[i] = curve[i]
        BY <2>1, <3>1, AppendProperties
      <3> HIDE DEF new
      <3>4. point.x >= end.x
        BY <1>1, <2>1, <2>5, <2>7
      <3>5. point.x = Newer(EndOf(curve), point.x)
        BY <1>1, <2>1, <2>2, <3>4 DEF Newer
      <3>6. \A i \in 1..n : i = n \/ i \in 1..(n - 1)
        BY <2>1
      <3>7. Rising(new)
        <4> SUFFICES ASSUME NEW i \in 1..n, NEW j \in 1..n, i < j PROVE new[i].x < new[j].x
          BY <3>3 DEF Rising
        <4>0. i \in 1..(n - 1) /\ n \in 1..n /\ i < n
          BY <2>1
        <4>1. i \in 1..(n - 1) /\ new[i].x = curve[i].x /\ n \in 1..n /\ i < n
          BY <3>3, <4>0
        <4>2. curve[i].x < end.x
          BY <2>4, <4>1
        <4>3. CASE j = n
          BY <1>1, <2>1, <3>3, <3>4, <4>1, <4>2, <4>3
        <4>4. CASE j \in 1..(n - 1)
          BY <2>4, <3>3, <4>1, <4>4
        <4> QED BY <3>6, <4>3, <4>4
      <3>8. new # <<>> /\ Last(new) = point
        <4>1. Len(<<>>) = 0
          OBVIOUS
        <4> QED BY <2>1, <3>3, <4>1 DEF Last
      <3>9. \A i \in 1..Len(new) : new[i] = point \/ \E j \in 1..n : new[i] = curve[j]
        <4> TAKE i \in 1..Len(new)
        <4>1. i = n \/ (i \in 1..(n - 1) /\ i \in 1..n)
          BY <2>1, <3>3
        <4> QED BY <3>3, <4>1
      <3> QED BY <3>2, <3>3, <3>5, <3>7, <3>8, <3>9
    <2>8. CASE ~late /\ ~near
      <3> DEFINE new == Append(curve, point)
      <3>1. Appended(curve, point) = new
        BY <2>3, <2>8
      <3>2. /\ new \in Seq(P) /\ Len(new) = n + 1 /\ new[n + 1] = point
            /\ \A i \in 1..n : new[i] = curve[i]
        BY <2>1, AppendProperties
      <3> HIDE DEF new
      <3>3. point.x > end.x
        BY <1>1, <2>1, <2>5, <2>8
      <3>4. point.x = Newer(EndOf(curve), point.x)
        BY <1>1, <2>1, <2>2, <3>3 DEF Newer
      <3>5. \A i \in 1..(n + 1) : i = n + 1 \/ i \in 1..n
        BY <2>1
      <3>6. Rising(new)
        <4> SUFFICES ASSUME NEW i \in 1..(n + 1), NEW j \in 1..(n + 1), i < j
                     PROVE  new[i].x < new[j].x
          BY <3>2 DEF Rising
        <4>1. i \in 1..n /\ new[i].x = curve[i].x /\ curve[i].x <= end.x /\ curve[i].x \in Int
          BY <2>1, <3>2
        <4>2. CASE j = n + 1
          BY <1>1, <2>1, <3>2, <3>3, <4>1, <4>2
        <4>3. CASE j \in 1..n
          BY <2>4, <3>2, <4>1, <4>3
        <4> QED BY <3>5, <4>2, <4>3
      <3>7. new # <<>> /\ Last(new) = point
        <4>1. Len(<<>>) = 0 /\ n + 1 # 0
          BY <2>1
        <4> QED BY <3>2, <4>1 DEF Last
      <3>8. \A i \in 1..Len(new) : new[i] = point \/ \E j \in 1..n : new[i] = curve[j]
        BY <3>2, <3>5
      <3> QED BY <3>1, <3>2, <3>4, <3>6, <3>7, <3>8
    <2> QED BY <2>6, <2>7, <2>8
  <1> QED BY <1>2, <1>3

\* A chart has the points of the old one and live ones, up to the time x.
MovedOn(new, chart, x) ==
  /\ new.y = chart.y /\ new.band = chart.band
  /\ EndOf(new.points) = Newer(EndOf(chart.points), x)
  /\ \A i \in 1..Len(new.points) :
       new.points[i].live \/ \E j \in 1..Len(chart.points) : new.points[i] = chart.points[j]

\* A live answer moves a chart on, and never back.
LEMMA MovedOf ==
  ASSUME NEW Values \in SUBSET Nat, NEW Axis, NEW chart \in MovingChart(Values, Axis), Steady(chart),
         NEW x \in Nat, NEW value \in Values
  PROVE  /\ Moved(chart, x, value) \in MovingChart(Values, Axis) /\ Steady(Moved(chart, x, value))
         /\ MovedOn(Moved(chart, x, value), chart, x)
  <1> DEFINE P == Mean(Values)
             point == [x |-> x, y |-> value, live |-> TRUE, low |-> value, high |-> value]
             points == Appended(chart.points, point)
             axis == ColdStart(points, x)
             new == Moved(chart, x, value)
  <1>1. point \in P /\ point.live /\ point.x = x
    BY DEF Mean
  <1>2. \A p \in P : p.x \in Nat
    BY DEF Mean
  <1>3. chart.points \in Seq(P) /\ Rising(chart.points)
    BY DEF MovingChart, Steady
  <1> HIDE DEF P, point
  <1>4. /\ points \in Seq(P) /\ Rising(points) /\ points # <<>>
        /\ Last(points).x = Newer(EndOf(chart.points), x)
        /\ \A i \in 1..Len(points) :
             points[i] = point \/ \E j \in 1..Len(chart.points) : points[i] = chart.points[j]
    <2> DEFINE curve == chart.points
    <2>1. curve \in Seq(P) /\ Rising(curve)
      BY <1>3
    <2> HIDE DEF curve
    <2>2. /\ Appended(curve, point) \in Seq(P) /\ Rising(Appended(curve, point))
          /\ Appended(curve, point) # <<>>
          /\ Last(Appended(curve, point)).x = Newer(EndOf(curve), point.x)
          /\ \A i \in 1..Len(Appended(curve, point)) :
               \/ Appended(curve, point)[i] = point
               \/ \E j \in 1..Len(curve) : Appended(curve, point)[i] = curve[j]
      BY <1>1, <1>2, <2>1, AppendedOf, ZenonT(30)
    <2> QED BY <1>1, <2>2 DEF curve
  <1>5. Message(<<>>, points) = FALSE
    BY <1>4 DEF Message
  <1>6. new = [chart EXCEPT !.points = points, !.x = axis, !.message = @ /\ Message(<<>>, points)]
    BY DEF Moved, point
  <1> HIDE DEF points, new
  <1>7. Inside(Last(points).x, axis) /\ axis \in [min : Int, max : Int]
    <2>1. \A p \in P : p.x \in Int
      BY <1>2
    <2>2. Inside(Last(points).x, axis)
      BY <1>4, <2>1, ColdStartHolds
    <2>3. axis \in [min : Int, max : Int]
      <3>1. points[1].x \in Int /\ Last(points).x \in Int
        BY <1>4, <2>1, CurveEnds
      <3>2. Span \in Int
        BY ChartBounds
      <3> QED BY <1>4, <3>1, <3>2 DEF ColdStart
    <2> QED BY <2>2, <2>3
  <1> HIDE DEF axis
  <1>8. /\ new.points = points /\ new.x = axis /\ new.message = FALSE
        /\ new.y = chart.y /\ new.band = chart.band
        /\ new \in MovingChart(Values, Axis)
    BY <1>4, <1>5, <1>6, <1>7 DEF MovingChart, P
  <1>9. Steady(new)
    BY <1>4, <1>7, <1>8 DEF Steady
  <1>10. EndOf(new.points) = Newer(EndOf(chart.points), x)
    BY <1>4, <1>8 DEF EndOf
  <1>11. \A i \in 1..Len(new.points) :
           new.points[i].live \/ \E j \in 1..Len(chart.points) : new.points[i] = chart.points[j]
    BY <1>1, <1>4, <1>8
  <1>12. MovedOn(new, chart, x)
    BY <1>8, <1>10, <1>11 DEF MovedOn
  <1> QED BY <1>8, <1>9, <1>12 DEF new

-----------------------------------------------------------------------------
(* The charts as they are rendered.                                         *)

\* The values of a curve.
LEMMA YsOf ==
  ASSUME NEW S, \A p \in S : p.y \in Nat, NEW curve \in Seq(S)
  PROVE  /\ Ys(curve) \in Seq(Nat) /\ Len(Ys(curve)) = Len(curve) /\ Len(curve) \in Nat
         /\ ToSet(curve) = {curve[i] : i \in 1..Len(curve)}
         /\ \A i \in 1..Len(curve) : curve[i] \in S /\ Ys(curve)[i] = curve[i].y
  <1> DEFINE n == Len(curve)
  <1>1. DOMAIN curve = 1..n /\ n \in Nat /\ \A i \in 1..n : curve[i] \in S
    BY ElementOfSeq, LenProperties
  <1>2. Ys(curve) = [i \in 1..n |-> curve[i].y]
    BY <1>1 DEF Ys
  <1>3. \A i \in 1..n : curve[i].y \in Nat
    BY <1>1
  <1>4. ToSet(curve) = {curve[i] : i \in 1..n}
    BY <1>1 DEF ToSet
  <1> HIDE DEF n
  <1>5. Ys(curve) \in [1..n -> Nat]
    BY <1>2, <1>3
  <1>6. Ys(curve) \in Seq(Nat) /\ Len(Ys(curve)) = n
    BY <1>1, <1>5
  <1> QED BY <1>1, <1>2, <1>4, <1>6 DEF n

\* What holds of a chart of rates, and of one of latencies, that was given
\* samples up to end.
RateRight(chart, end) ==
  /\ chart.y.mode \in {"linear", "sqrt"}
  /\ \A p \in ToSet(chart.points) : Inside(p.x, chart.x) /\ p.y <= chart.y.top
  /\ EndOf(chart.points) = end
PingRight(chart, end) ==
  \A p \in ToSet(chart.points) : Inside(p.x, chart.x) /\ p.y <= chart.y /\ p.x <= end

LEMMA RateChartOf ==
  ASSUME NEW now \in Nat, NEW rows, IsRows(rows, now)
  PROVE  RateRight(RateChart(rows, now), NewestTime(rows))
  <1> DEFINE S == {[x |-> x, y |-> rows[x].rate] : x \in Window(rows)}
             points == IF NoRows(rows) THEN <<>> ELSE Thinned(RatePoints(rows))
             values == Ys(points)
             chart == RateChart(rows, now)
  <1>1. chart = [points |-> points, x |-> Anchored(points, now), y |-> RateAxis(values)]
    BY DEF RateChart
  <1>2. CASE NoRows(rows)
    <2>1. points = <<>> /\ values = <<>> /\ NewestTime(rows) = -1
      BY <1>2 DEF NewestTime, Ys
    <2>2. <<>> \in Seq(Nat)
      OBVIOUS
    <2>3. RateAxis(values).mode \in {"linear", "sqrt"}
      BY <2>1, <2>2, RateAxisCovers
    <2>4. ToSet(points) = {}
      BY <2>1 DEF ToSet
    <2> HIDE DEF points, values
    <2> QED BY <1>1, <2>1, <2>3, <2>4 DEF RateRight, EndOf
  <1>3. CASE ~NoRows(rows)
    <2> DEFINE m == Max(DOMAIN rows)
    <2>1. \A x \in Window(rows) : /\ x \in DOMAIN rows /\ x \in Nat
                                  /\ x <= m /\ m - Span <= x
                                  /\ rows[x].rate \in Nat
      <3>1. /\ m \in 1..now /\ Window(rows) \subseteq DOMAIN rows
            /\ \A x \in Window(rows) : x \in 1..now /\ x <= m /\ m - Span <= x
        BY <1>3, WindowOf
      <3>2. \A x \in Window(rows) : rows[x] \in Reading
        BY <3>1 DEF IsRows
      <3> HIDE DEF m
      <3>3. \A x \in Window(rows) : rows[x].rate \in Nat
        BY <3>2, ChartBounds
      <3> QED BY <3>1, <3>3
    <2>2. m \in Int
      BY <1>3, WindowOf
    <2>3. \A p \in S : p.x \in Int /\ p.y \in Nat
      BY <2>1
    <2>4. \A p \in S, q \in S : q.x - Span <= p.x
      <3> HIDE DEF m
      <3>1. \A p \in S : p.x \in Int /\ p.x <= m /\ m - Span <= p.x
        BY <2>1
      <3>2. Span \in Int
        BY ChartBounds
      <3> HIDE DEF S
      <3> QED BY <2>2, <3>1, <3>2
    <2>5. /\ RatePoints(rows) \in Seq(S) /\ Rising(RatePoints(rows)) /\ RatePoints(rows) # <<>>
          /\ Last(RatePoints(rows)).x = m
      BY <1>3, RatePointsOf
    <2> DEFINE curve == RatePoints(rows)
    <2> HIDE DEF S, m, curve
    <2>6. /\ Thinned(curve) \in Seq(S) /\ Rising(Thinned(curve)) /\ Thinned(curve) # <<>>
          /\ Last(Thinned(curve)).x = Last(curve).x
      <3>1. curve \in Seq(S) /\ Rising(curve) /\ curve # <<>> /\ \A p \in S : p.x \in Int
        BY <2>3, <2>5 DEF curve
      <3> QED BY <3>1, ThinnedOf
    <2>7. points \in Seq(S) /\ Rising(points) /\ points # <<>> /\ Last(points).x = m
      BY <1>3, <2>5, <2>6 DEF curve
    <2> HIDE DEF points
    <2>8. \A i \in 1..Len(points) : Inside(points[i].x, Anchored(points, now))
      <3>1. \A p \in S : p.x \in Int
        BY <2>3
      <3> QED BY <2>4, <2>7, <3>1, AnchoredHolds
    <2>9. /\ values \in Seq(Nat) /\ Len(values) = Len(points)
          /\ ToSet(points) = {points[i] : i \in 1..Len(points)}
          /\ \A i \in 1..Len(points) : values[i] = points[i].y
      <3>1. \A p \in S : p.y \in Nat
        BY <2>3
      <3> QED BY <2>7, <3>1, YsOf
    <2> HIDE DEF values
    <2>10. /\ RateAxis(values).mode \in {"linear", "sqrt"}
           /\ \A i \in 1..Len(values) : values[i] <= RateAxis(values).top
      BY <2>9, RateAxisCovers
    <2>11. \A i \in 1..Len(points) : points[i].y <= RateAxis(values).top
      BY <2>9, <2>10
    <2>12. EndOf(points) = NewestTime(rows)
      BY <1>3, <2>7 DEF EndOf, NewestTime, m
    <2> QED BY <1>1, <2>8, <2>9, <2>10, <2>11, <2>12 DEF RateRight
  <1> QED BY <1>2, <1>3

LEMMA LatencyChartOf ==
  ASSUME NEW now \in Nat, NEW rows, IsRows(rows, now)
  PROVE  PingRight(LatencyChart(rows, now), NewestTime(rows))
  <1> DEFINE W == {z \in DOMAIN rows : z >= now - Span}
             S == {[x |-> x, y |-> rows[x].ms] : x \in W}
             points == LatencyPoints(rows, now)
             values == Ys(points)
             chart == LatencyChart(rows, now)
  <1>1. chart = [points |-> points, x |-> Anchored(points, now), y |-> LatencyAxis(values)]
    BY DEF LatencyChart
  <1>2. points \in Seq(S) /\ Rising(points)
    BY LatencyPointsOf
  <1>3. \A x \in W : /\ x \in Nat /\ x <= now /\ now - Span <= x
                     /\ x <= NewestTime(rows) /\ rows[x].ms \in Nat
    <2> TAKE x \in W
    <2>1. ~NoRows(rows) /\ x \in DOMAIN rows /\ x \in 1..now
      BY DEF NoRows, IsRows
    <2>2. /\ IsFiniteSet(DOMAIN rows) /\ DOMAIN rows \in SUBSET Int
      BY <2>1, WindowOf
    <2>3. x <= Max(DOMAIN rows)
      BY <2>1, <2>2, FiniteMax
    <2>4. x <= NewestTime(rows)
      BY <2>1, <2>3 DEF NewestTime
    <2>5. rows[x] \in Reading
      BY <2>1 DEF IsRows
    <2>6. rows[x].ms \in Nat
      BY <2>5, ChartBounds
    <2>7. now - Span <= x
      BY <2>1, ChartBounds
    <2> QED BY <2>1, <2>4, <2>6, <2>7
  <1> HIDE DEF W
  <1>4. \A p \in S : /\ p.x \in Int /\ p.y \in Nat /\ p.x <= NewestTime(rows)
                     /\ p.x <= now /\ now - Span <= p.x
    BY <1>3
  <1> HIDE DEF S, points
  <1>5. \A p \in S, q \in S : q.x - Span <= p.x
    <2>1. Span \in Int
      BY ChartBounds
    <2> QED BY <1>4, <2>1
  <1>6. \A i \in 1..Len(points) : Inside(points[i].x, Anchored(points, now))
    <2>1. \A p \in S : p.x \in Int
      BY <1>4
    <2> QED BY <1>2, <1>5, <2>1, AnchoredHolds
  <1>7. /\ values \in Seq(Nat) /\ Len(values) = Len(points)
        /\ ToSet(points) = {points[i] : i \in 1..Len(points)}
        /\ \A i \in 1..Len(points) : points[i] \in S /\ values[i] = points[i].y
    <2>1. \A p \in S : p.y \in Nat
      BY <1>4
    <2> QED BY <1>2, <2>1, YsOf
  <1> HIDE DEF values
  <1>8. \A i \in 1..Len(values) : values[i] <= LatencyAxis(values)
    BY <1>7, LatencyAxisCovers
  <1>9. \A i \in 1..Len(points) : points[i].y <= LatencyAxis(values)
                                  /\ points[i].x <= NewestTime(rows)
    BY <1>4, <1>7, <1>8
  <1> QED BY <1>1, <1>6, <1>7, <1>9 DEF PingRight

\* A curve of means: drawn, not live, and up to the newest sample.
LEMMA SmallSeriesOf ==
  ASSUME NEW now \in Nat, NEW rows, IsRows(rows, now),
         NEW key, NEW Values \in SUBSET Nat, \A x \in DOMAIN rows : rows[x][key] \in Values
  PROVE  /\ SmallSeries(rows, key) \in Seq(Mean(Values)) /\ Rising(SmallSeries(rows, key))
         /\ EndOf(SmallSeries(rows, key)) = NewestTime(rows)
  <1> DEFINE S == {p \in Mean(Values) : ~p.live}
             points == SmallSeries(rows, key)
             curve == MeanPoints(rows, key)
  <1>1. CASE NoRows(rows)
    <2>1. points = <<>> /\ NewestTime(rows) = -1 /\ EndOf(points) = -1
      BY <1>1 DEF SmallSeries, NewestTime, EndOf
    <2>2. <<>> \in Seq(Mean(Values)) /\ Rising(<<>>)
      BY DEF Rising
    <2> QED BY <2>1, <2>2
  <1>2. CASE ~NoRows(rows)
    <2>1. points = Thinned(curve)
      BY <1>2 DEF SmallSeries
    <2>2. /\ curve \in Seq(S) /\ Rising(curve) /\ curve # <<>>
          /\ Last(curve).x = Max(DOMAIN rows)
      BY <1>2, MeanPointsOf
    <2>3. \A p \in S : p.x \in Int
      BY DEF Mean
    <2> HIDE DEF curve, S
    <2>4. /\ Thinned(curve) \in Seq(S) /\ Rising(Thinned(curve)) /\ Thinned(curve) # <<>>
          /\ Last(Thinned(curve)).x = Last(curve).x
      BY <2>2, <2>3, ThinnedOf
    <2>5. S \subseteq Mean(Values)
      BY DEF S
    <2>6. points \in Seq(Mean(Values))
      BY <2>1, <2>4, <2>5
    <2>7. EndOf(points) = NewestTime(rows)
      BY <1>2, <2>1, <2>2, <2>4 DEF EndOf, NewestTime
    <2> QED BY <2>1, <2>4, <2>6, <2>7
  <1> QED BY <1>1, <1>2

\* A chart drawn from such a curve.
LEMMA SmallChartOf ==
  ASSUME NEW now \in Nat, NEW Values \in SUBSET Nat, NEW points \in Seq(Mean(Values)), Rising(points),
         NEW Axis, NEW y \in Axis, NEW chart,
         chart = [points |-> points, band |-> Envelope(points), x |-> ColdStart(points, now),
                  y |-> y, message |-> Message(points, points)]
  PROVE  chart \in MovingChart(Values, Axis) /\ Steady(chart)
  <1> DEFINE P == Mean(Values)
  <1>1. \A p \in P : p.x \in Int
    BY DEF Mean
  <1> HIDE DEF P
  <1>2. points \in Seq(P) /\ <<>> \in Seq(P)
    BY DEF P
  <1>3. Envelope(points) \in Seq(P)
    BY <1>2 DEF Envelope
  <1>4. Message(points, points) \in BOOLEAN /\ (points # <<>> => ~Message(points, points))
    BY DEF Message
  <1>5. Span \in Int /\ now \in Int
    BY ChartBounds
  <1>6. ColdStart(points, now) \in [min : Int, max : Int]
    <2>1. CASE points = <<>>
      BY <1>5, <2>1 DEF ColdStart
    <2>2. CASE points # <<>>
      <3>1. points[1].x \in Int /\ Last(points).x \in Int
        BY <1>1, <1>2, <2>2, CurveEnds
      <3> QED BY <1>5, <2>2, <3>1 DEF ColdStart
    <2> QED BY <2>1, <2>2
  <1>7. points # <<>> => Inside(Last(points).x, ColdStart(points, now))
    BY <1>1, <1>2, <1>5, ColdStartHolds
  <1> DEFINE band == Envelope(points)
             axis == ColdStart(points, now)
             text == Message(points, points)
  <1> HIDE DEF band, axis, text
  <1>8. chart = [points |-> points, band |-> band, x |-> axis, y |-> y, message |-> text]
    BY DEF band, axis, text
  <1>9. band \in Seq(P) /\ axis \in [min : Int, max : Int] /\ text \in BOOLEAN
        /\ (points # <<>> => Inside(Last(points).x, axis) /\ ~text)
    BY <1>3, <1>4, <1>6, <1>7 DEF band, axis, text
  <1>10. chart \in MovingChart(Values, Axis)
    BY <1>2, <1>8, <1>9 DEF MovingChart, P
  <1>11. Steady(chart)
    BY <1>8, <1>9 DEF Steady
  <1> QED BY <1>10, <1>11

\* What holds of the charts of the loads and of the processes.
LoadRight(chart, end) ==
  chart \in MovingChart(0..100, {LoadAxis}) /\ Steady(chart) /\ EndOf(chart.points) = end
ProcRight(chart, end) ==
  /\ chart \in MovingChart(Nat, [min : Nat, max : Nat]) /\ Steady(chart)
  /\ EndOf(chart.points) = end
  /\ chart.y.max - chart.y.min >= 4
  /\ \A i \in 1..Len(chart.points) : chart.points[i].live \/ Inside(chart.points[i].y, chart.y)

LEMMA LoadChartOf ==
  ASSUME NEW now \in Nat, NEW rows, IsRows(rows, now)
  PROVE  LoadRight(LoadChart(rows, now), NewestTime(rows))
  <1> DEFINE points == SmallSeries(rows, "load")
             chart == LoadChart(rows, now)
  <1>1. chart = [points |-> points, band |-> Envelope(points), x |-> ColdStart(points, now),
                 y |-> LoadAxis, message |-> Message(points, points)]
    BY DEF LoadChart
  <1>2. \A x \in DOMAIN rows : rows[x]["load"] \in 0..100
    BY ChartBounds DEF IsRows
  <1>3. 0..100 \in SUBSET Nat
    OBVIOUS
  <1>4. /\ points \in Seq(Mean(0..100)) /\ Rising(points) /\ EndOf(points) = NewestTime(rows)
    BY <1>2, <1>3, SmallSeriesOf
  <1> HIDE DEF points, chart
  <1>5. LoadAxis \in {LoadAxis}
    OBVIOUS
  <1>6. chart \in MovingChart(0..100, {LoadAxis}) /\ Steady(chart)
    BY <1>1, <1>3, <1>4, <1>5, SmallChartOf
  <1>7. chart.points = points
    BY <1>1
  <1> QED BY <1>4, <1>6, <1>7 DEF LoadRight, chart

LEMMA ProcessChartOf ==
  ASSUME NEW now \in Nat, NEW rows, IsRows(rows, now)
  PROVE  ProcRight(ProcessChart(rows, now), NewestTime(rows))
  <1> DEFINE points == SmallSeries(rows, "count")
             values == Ys(points)
             axis == ProcessAxis(values)
             chart == ProcessChart(rows, now)
  <1>1. chart = [points |-> points, band |-> Envelope(points), x |-> ColdStart(points, now),
                 y |-> axis, message |-> Message(points, points)]
    BY DEF ProcessChart
  <1>2. \A x \in DOMAIN rows : rows[x]["count"] \in Nat
    BY ChartBounds DEF IsRows
  <1>3. /\ points \in Seq(Mean(Nat)) /\ Rising(points) /\ EndOf(points) = NewestTime(rows)
    BY <1>2, SmallSeriesOf
  <1> HIDE DEF points, chart
  <1>4. /\ values \in Seq(Nat) /\ Len(values) = Len(points)
        /\ \A i \in 1..Len(points) : values[i] = points[i].y
    <2>1. \A p \in Mean(Nat) : p.y \in Nat
      BY DEF Mean
    <2> QED BY <1>3, <2>1, YsOf
  <1> HIDE DEF values
  <1>5. /\ axis \in [min : Nat, max : Nat] /\ axis.max - axis.min >= 4
        /\ \A i \in 1..Len(values) : Inside(values[i], axis)
    BY <1>4, ProcessAxisCovers
  <1> HIDE DEF axis
  <1>6. chart \in MovingChart(Nat, [min : Nat, max : Nat]) /\ Steady(chart)
    <2>1. Nat \in SUBSET Nat
      OBVIOUS
    <2> QED BY <1>1, <1>3, <1>5, <2>1, SmallChartOf
  <1>7. chart.points = points /\ chart.y = axis
    BY <1>1
  <1>8. \A i \in 1..Len(points) : Inside(points[i].y, axis)
    BY <1>4, <1>5
  <1> QED BY <1>3, <1>5, <1>6, <1>7, <1>8 DEF ProcRight, chart

LEMMA LoadMoves ==
  ASSUME NEW end, NEW chart, LoadRight(chart, end), NEW x \in Nat, NEW value \in 0..100
  PROVE  LoadRight(Moved(chart, x, value), Newer(end, x))
  <1>1. 0..100 \in SUBSET Nat
    OBVIOUS
  <1>2. chart \in MovingChart(0..100, {LoadAxis}) /\ Steady(chart) /\ EndOf(chart.points) = end
    BY DEF LoadRight
  <1> DEFINE Values == 0..100
             Axes == {LoadAxis}
             new == Moved(chart, x, value)
  <1>3. Values \in SUBSET Nat /\ value \in Values /\ chart \in MovingChart(Values, Axes)
    BY <1>1, <1>2
  <1> HIDE DEF Values, Axes
  <1>4. /\ Moved(chart, x, value) \in MovingChart(Values, Axes) /\ Steady(Moved(chart, x, value))
        /\ MovedOn(Moved(chart, x, value), chart, x)
    BY <1>2, <1>3, MovedOf
  <1>5. /\ new \in MovingChart(0..100, {LoadAxis}) /\ Steady(new)
        /\ EndOf(new.points) = Newer(EndOf(chart.points), x)
    BY <1>4 DEF Values, Axes, MovedOn
  <1> HIDE DEF new
  <1>6. LoadRight(new, Newer(end, x))
    BY <1>2, <1>5 DEF LoadRight
  <1> QED BY <1>6 DEF new

LEMMA ProcMoves ==
  ASSUME NEW end, NEW chart, ProcRight(chart, end), NEW x \in Nat, NEW value \in Nat
  PROVE  ProcRight(Moved(chart, x, value), Newer(end, x))
  <1> DEFINE Axes == [min : Nat, max : Nat]
             new == Moved(chart, x, value)
  <1>1. Nat \in SUBSET Nat
    OBVIOUS
  <1>2. /\ chart \in MovingChart(Nat, Axes) /\ Steady(chart) /\ EndOf(chart.points) = end
        /\ chart.y.max - chart.y.min >= 4
        /\ \A i \in 1..Len(chart.points) : chart.points[i].live \/ Inside(chart.points[i].y, chart.y)
    BY DEF ProcRight
  <1> HIDE DEF Axes
  <1>3. /\ new \in MovingChart(Nat, Axes) /\ Steady(new) /\ new.y = chart.y
        /\ EndOf(new.points) = Newer(EndOf(chart.points), x)
        /\ \A i \in 1..Len(new.points) :
             \/ new.points[i].live
             \/ \E j \in 1..Len(chart.points) : new.points[i] = chart.points[j]
    <2>1. /\ Moved(chart, x, value) \in MovingChart(Nat, Axes) /\ Steady(Moved(chart, x, value))
          /\ MovedOn(Moved(chart, x, value), chart, x)
      BY <1>1, <1>2, MovedOf
    <2> QED BY <2>1 DEF MovedOn
  <1> HIDE DEF new
  <1>4. \A i \in 1..Len(new.points) : new.points[i].live \/ Inside(new.points[i].y, new.y)
    BY <1>2, <1>3
  <1>5. ProcRight(new, Newer(end, x))
    BY <1>2, <1>3, <1>4 DEF ProcRight, Axes
  <1> QED BY <1>5 DEF new

-----------------------------------------------------------------------------
(* The invariant.                                                           *)

ChartsRight ==
  /\ cDrawn = [rate |-> cDrawn.rate, ping |-> cDrawn.ping, load |-> cDrawn.load, proc |-> cDrawn.proc]
  /\ RateRight(cDrawn.rate, cShown)
  /\ PingRight(cDrawn.ping, cShown)
  /\ LoadRight(cDrawn.load, Newer(cShown, cKnown))
  /\ ProcRight(cDrawn.proc, cKnown)

\* Each chart is right for the newest sample it was given: a rendering makes it
\* so, and a live answer keeps it.
ChartInv ==
  /\ cNow \in 0..MaxTime /\ IsRows(cRows, cNow)
  /\ cShown \in -1..cNow /\ cKnown \in -1..cNow
  /\ cDrawn # Undrawn => ChartsRight

LEMMA ChartInvInit == ChartInit => ChartInv
  <1> SUFFICES ASSUME ChartInit PROVE ChartInv
    OBVIOUS
  <1>1. MaxTime \in Nat
    BY ChartBounds
  <1>2. DOMAIN cRows = {}
    BY DEF ChartInit
  <1> QED BY <1>1, <1>2 DEF ChartInit, ChartInv, IsRows

LEMMA NewestTimeOf ==
  ASSUME NEW now \in Nat, NEW rows, IsRows(rows, now)
  PROVE  /\ NewestTime(rows) \in -1..now
         /\ \A x \in DOMAIN rows : x <= NewestTime(rows)
  <1>1. CASE NoRows(rows)
    BY <1>1 DEF NoRows, NewestTime
  <1>2. CASE ~NoRows(rows)
    <2>1. Max(DOMAIN rows) \in 1..now /\ IsFiniteSet(DOMAIN rows) /\ DOMAIN rows \in SUBSET Int
          /\ DOMAIN rows # {}
      BY <1>2, WindowOf DEF NoRows
    <2>2. \A x \in DOMAIN rows : x <= Max(DOMAIN rows)
      BY <2>1, FiniteMax
    <2>3. NewestTime(rows) = Max(DOMAIN rows)
      BY <1>2 DEF NewestTime
    <2> HIDE DEF NewestTime
    <2> QED BY <2>1, <2>2, <2>3
  <1> QED BY <1>1, <1>2

LEMMA ChartSampledKeeps ==
  ASSUME ChartInv, NEW reading \in Reading, Sampled(reading)
  PROVE  ChartInv'
  <1>1. cNow \in 0..MaxTime /\ IsRows(cRows, cNow) /\ MaxTime \in Nat
    BY ChartBounds DEF ChartInv
  <1>2. cNow' = cNow + 1 /\ cNow' \in 0..MaxTime
    BY <1>1 DEF Sampled
  <1>3. IsRows(cRows', cNow')
    <2>1. DOMAIN cRows' = DOMAIN cRows \union {cNow'}
          /\ \A x \in DOMAIN cRows' : cRows'[x] = IF x = cNow' THEN reading ELSE cRows[x]
      BY DEF Sampled
    <2>2. DOMAIN cRows' \subseteq 1..cNow'
      BY <1>1, <1>2, <2>1 DEF IsRows
    <2>3. \A x \in DOMAIN cRows' : cRows'[x] \in Reading
      BY <1>1, <2>1 DEF IsRows
    <2> QED BY <2>2, <2>3 DEF IsRows
  <1>4. cShown \in -1..cNow' /\ cKnown \in -1..cNow'
    BY <1>1, <1>2 DEF ChartInv
  <1>5. UNCHANGED <<cDrawn, cShown, cKnown>>
    BY DEF Sampled
  <1>6. cDrawn' # Undrawn => ChartsRight'
    BY <1>5 DEF ChartInv, ChartsRight
  <1> QED BY <1>2, <1>3, <1>4, <1>5, <1>6 DEF ChartInv

LEMMA ChartSilenceKeeps ==
  ASSUME ChartInv, Silence
  PROVE  ChartInv'
  <1>1. cNow \in 0..MaxTime /\ IsRows(cRows, cNow) /\ MaxTime \in Nat
    BY ChartBounds DEF ChartInv
  <1>2. cNow' = cNow + 1 /\ cNow' \in 0..MaxTime /\ cRows' = cRows
    BY <1>1 DEF Silence
  <1>3. IsRows(cRows', cNow')
    BY <1>1, <1>2 DEF IsRows
  <1>4. cShown \in -1..cNow' /\ cKnown \in -1..cNow'
    BY <1>1, <1>2 DEF ChartInv
  <1>5. UNCHANGED <<cDrawn, cShown, cKnown>>
    BY DEF Silence
  <1>6. cDrawn' # Undrawn => ChartsRight'
    BY <1>5 DEF ChartInv, ChartsRight
  <1> QED BY <1>2, <1>3, <1>4, <1>5, <1>6 DEF ChartInv

LEMMA ChartRenderKeeps ==
  ASSUME ChartInv, NEW until \in 0..MaxTime, RenderCharts(until)
  PROVE  ChartInv'
  <1> DEFINE own == [x \in {z \in DOMAIN cRows : z <= until} |-> cRows[x]]
             counts == ProcessRows(own, cRows)
  <1>1. cNow \in 0..MaxTime /\ cNow \in Nat /\ IsRows(cRows, cNow)
    BY ChartBounds DEF ChartInv
  <1>2. IsRows(own, cNow) /\ DOMAIN own \subseteq DOMAIN cRows
    BY <1>1 DEF IsRows
  <1> HIDE DEF own
  <1>3. IsRows(counts, cNow) /\ DOMAIN counts \subseteq DOMAIN cRows
    BY <1>1, <1>2 DEF ProcessRows
  <1>4. /\ cDrawn' = [rate |-> RateChart(cRows, cNow), ping |-> LatencyChart(cRows, cNow),
                      load |-> LoadChart(cRows, cNow), proc |-> ProcessChart(counts, cNow)]
        /\ cShown' = NewestTime(cRows) /\ cKnown' = NewestTime(counts)
        /\ cNow' = cNow /\ cRows' = cRows
    BY DEF RenderCharts, own
  <1> HIDE DEF counts
  <1>5. NewestTime(cRows) \in -1..cNow /\ \A x \in DOMAIN cRows : x <= NewestTime(cRows)
    BY <1>1, NewestTimeOf
  <1>6. NewestTime(counts) \in -1..cNow /\ NewestTime(counts) <= NewestTime(cRows)
    <2>1. NewestTime(counts) \in -1..cNow
      BY <1>1, <1>3, NewestTimeOf
    <2>2. CASE NoRows(counts)
      <3>1. NewestTime(counts) = -1
        BY <2>2 DEF NewestTime
      <3>2. NewestTime(cRows) >= -1
        BY <1>1, <1>5
      <3> QED BY <2>1, <3>1, <3>2
    <2>3. CASE ~NoRows(counts)
      <3>1. /\ Max(DOMAIN counts) \in Window(counts) /\ Window(counts) \subseteq DOMAIN counts
        BY <1>1, <1>3, <2>3, WindowOf
      <3>2. NewestTime(counts) \in DOMAIN cRows
        BY <1>3, <2>3, <3>1 DEF NewestTime
      <3>3. NewestTime(counts) <= NewestTime(cRows)
        BY <1>5, <3>2
      <3> QED BY <2>1, <3>3
    <2> QED BY <2>1, <2>2, <2>3
  <1>7. Newer(cShown', cKnown') = NewestTime(cRows)
    BY <1>4, <1>5, <1>6 DEF Newer
  <1>8. RateRight(cDrawn'.rate, cShown')
    BY <1>1, <1>4, RateChartOf
  <1>9. PingRight(cDrawn'.ping, cShown')
    BY <1>1, <1>4, LatencyChartOf
  <1>10. LoadRight(cDrawn'.load, Newer(cShown', cKnown'))
    BY <1>1, <1>4, <1>7, LoadChartOf
  <1>11. ProcRight(cDrawn'.proc, cKnown')
    BY <1>1, <1>3, <1>4, ProcessChartOf
  <1>12. ChartsRight'
    BY <1>4, <1>8, <1>9, <1>10, <1>11 DEF ChartsRight
  <1> QED BY <1>1, <1>4, <1>5, <1>6, <1>12 DEF ChartInv

LEMMA ChartLiveKeeps ==
  ASSUME ChartInv, NEW x \in 0..MaxTime, AppendLiveSample(x)
  PROVE  ChartInv'
  <1> DEFINE load == Moved(cDrawn.load, x, Older(100, cRows[x].load))
             proc == Moved(cDrawn.proc, x, cRows[x].count)
  <1>1. /\ cNow \in 0..MaxTime /\ cNow \in Nat /\ IsRows(cRows, cNow)
        /\ cShown \in -1..cNow /\ cKnown \in -1..cNow /\ ChartsRight
    BY ChartBounds DEF ChartInv, AppendLiveSample
  <1>2. /\ cDrawn' = [cDrawn EXCEPT !.load = load, !.proc = proc]
        /\ cKnown' = Newer(cKnown, x) /\ cNow' = cNow /\ cRows' = cRows /\ cShown' = cShown
        /\ x \in DOMAIN cRows
    BY DEF AppendLiveSample
  <1>3. x \in 1..cNow /\ cRows[x] \in Reading
    BY <1>1, <1>2 DEF IsRows
  <1>4. cRows[x].load \in 0..100 /\ cRows[x].count \in Nat
    BY <1>3, ChartBounds
  <1>5. Older(100, cRows[x].load) \in 0..100 /\ x \in Nat
    BY <1>1, <1>3, <1>4 DEF Older
  <1>6. LoadRight(load, Newer(Newer(cShown, cKnown), x))
    BY <1>1, <1>5, LoadMoves DEF ChartsRight
  <1>7. ProcRight(proc, Newer(cKnown, x))
    BY <1>1, <1>4, <1>5, ProcMoves DEF ChartsRight
  <1> HIDE DEF load, proc
  <1>8. /\ cDrawn' = [rate |-> cDrawn.rate, ping |-> cDrawn.ping, load |-> load, proc |-> proc]
    BY <1>1, <1>2 DEF ChartsRight
  <1>9. Newer(Newer(cShown, cKnown), x) = Newer(cShown', cKnown')
    BY <1>1, <1>2, <1>3 DEF Newer
  <1>10. cKnown' \in -1..cNow
    BY <1>1, <1>2, <1>3 DEF Newer
  <1>11. ChartsRight'
    BY <1>1, <1>2, <1>6, <1>7, <1>8, <1>9 DEF ChartsRight
  <1> QED BY <1>1, <1>2, <1>10, <1>11 DEF ChartInv

LEMMA ChartInvStep == ChartInv /\ [ChartStep]_chartVars => ChartInv'
  <1> SUFFICES ASSUME ChartInv, [ChartStep]_chartVars PROVE ChartInv'
    OBVIOUS
  <1>1. ASSUME NEW reading \in Reading, Sampled(reading) PROVE ChartInv'
    BY <1>1, ChartSampledKeeps
  <1>2. CASE Silence
    BY <1>2, ChartSilenceKeeps
  <1>3. ASSUME NEW until \in 0..MaxTime, RenderCharts(until) PROVE ChartInv'
    BY <1>3, ChartRenderKeeps
  <1>4. ASSUME NEW x \in 0..MaxTime, AppendLiveSample(x) PROVE ChartInv'
    BY <1>4, ChartLiveKeeps
  <1>5. CASE UNCHANGED chartVars
    BY <1>5 DEF ChartInv, ChartsRight, chartVars
  <1> QED BY <1>1, <1>2, <1>3, <1>4, <1>5 DEF ChartStep

\* What the invariant says of a chart that is right.
LEMMA MovingInside ==
  ASSUME NEW Values, NEW Axis, NEW chart \in MovingChart(Values, Axis), Steady(chart),
         NEW p \in ToSet(chart.points \o chart.band)
  PROVE  p \in Mean(Values)
  <1> DEFINE points == chart.points
             band == chart.band
             both == points \o band
  <1>1. points \in Seq(Mean(Values)) /\ band \in Seq(Mean(Values))
    BY DEF MovingChart
  <1> HIDE DEF points, band
  <1>2. both \in Seq(Mean(Values))
    BY <1>1, ConcatProperties
  <1> HIDE DEF both
  <1>3. \A i \in DOMAIN both : both[i] \in Mean(Values)
    BY <1>2
  <1>4. p \in {both[i] : i \in DOMAIN both}
    BY DEF ToSet, both, points, band
  <1> QED BY <1>3, <1>4

LEMMA ChartInvImplies == ChartInv => ChartTypeOK /\ NothingClipped /\ NewestDrawn
  <1> SUFFICES ASSUME ChartInv PROVE ChartTypeOK /\ NothingClipped /\ NewestDrawn
    OBVIOUS
  <1>1. /\ cNow \in 0..MaxTime /\ DOMAIN cRows \subseteq 1..cNow
        /\ cShown \in -1..cNow /\ cKnown \in -1..cNow
    BY DEF ChartInv, IsRows
  <1>2. CASE cDrawn = Undrawn
    BY <1>1, <1>2 DEF ChartTypeOK, NothingClipped, NewestDrawn
  <1>3. CASE cDrawn # Undrawn
    <2>1. ChartsRight
      BY <1>3 DEF ChartInv
    <2> DEFINE rate == cDrawn.rate
               ping == cDrawn.ping
               load == cDrawn.load
               proc == cDrawn.proc
    <2>2. /\ RateRight(rate, cShown) /\ PingRight(ping, cShown)
          /\ LoadRight(load, Newer(cShown, cKnown)) /\ ProcRight(proc, cKnown)
      BY <2>1 DEF ChartsRight
    <2> HIDE DEF rate, ping, load, proc
    <2>3. /\ rate.y.mode \in {"linear", "sqrt"}
          /\ \A p \in ToSet(rate.points) : Inside(p.x, rate.x) /\ p.y <= rate.y.top
          /\ cShown >= 0 => Last(rate.points).x = cShown
      BY <1>1, <2>2 DEF RateRight, EndOf
    <2>4. \A p \in ToSet(ping.points) : Inside(p.x, ping.x) /\ p.y <= ping.y /\ p.x <= cShown
      BY <2>2 DEF PingRight
    <2>5. /\ load \in MovingChart(0..100, {LoadAxis}) /\ Steady(load)
          /\ load.y = LoadAxis
      BY <2>2 DEF LoadRight, MovingChart
    <2>6. \A p \in ToSet(load.points \o load.band) : Inside(p.low, load.y) /\ Inside(p.high, load.y)
      <3> TAKE p \in ToSet(load.points \o load.band)
      <3>1. p \in Mean(0..100)
        BY <2>5, MovingInside
      <3>2. p.low \in 0..100 /\ p.high \in 0..100
        BY <3>1 DEF Mean
      <3> QED BY <2>5, <3>2 DEF LoadAxis, Inside
    <2>7. Newer(cShown, cKnown) >= 0 => Last(load.points).x = Newer(cShown, cKnown)
      <3> DEFINE end == Newer(cShown, cKnown)
      <3>1. EndOf(load.points) = end
        BY <2>2 DEF LoadRight
      <3> HIDE DEF end
      <3> QED BY <3>1 DEF EndOf, end
    <2>8. /\ proc \in MovingChart(Nat, [min : Nat, max : Nat]) /\ Steady(proc)
          /\ EndOf(proc.points) = cKnown
          /\ proc.y.max - proc.y.min >= 4
          /\ \A i \in 1..Len(proc.points) : proc.points[i].live \/ Inside(proc.points[i].y, proc.y)
      BY <2>2 DEF ProcRight
    <2>9. /\ cKnown >= 0 => Last(proc.points).x = cKnown
          /\ proc.y.min >= 0
      BY <1>1, <2>8 DEF EndOf, MovingChart
    <2>10. /\ DOMAIN load.points = 1..Len(load.points)
           /\ DOMAIN proc.points = 1..Len(proc.points)
      BY <2>5, <2>8 DEF MovingChart
    <2>11. \A p \in ToSet(proc.points) : p.live \/ Inside(p.y, proc.y)
      BY <2>8, <2>10 DEF ToSet
    <2>12. \A chart \in {load, proc} :
             chart.points # <<>> => Inside(Last(chart.points).x, chart.x) /\ ~chart.message
      BY <2>5, <2>8 DEF Steady
    <2>13. \A points \in {load.points, proc.points} :
             \A i, j \in DOMAIN points : i < j => points[i].x < points[j].x
      BY <2>5, <2>8, <2>10 DEF Steady, Rising
    <2>14. ChartTypeOK
      BY <1>1, <2>3, <2>8, <2>9 DEF ChartTypeOK, rate, proc
    <2>15. NothingClipped
      BY <2>3, <2>4, <2>6, <2>11, <2>12 DEF NothingClipped, rate, ping, load, proc
    <2>16. NewestDrawn
      BY <2>3, <2>4, <2>7, <2>9, <2>13 DEF NewestDrawn, rate, ping, load, proc
    <2> QED BY <2>14, <2>15, <2>16
  <1> QED BY <1>2, <1>3
=============================================================================
