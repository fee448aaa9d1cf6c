----------------------------- MODULE DetailPage -----------------------------
(***************************************************************************)
(* The detail page of one server in a browser tab (?server=ID):            *)
(*                                                                         *)
(*   renderDetailPage            loading shell, one aggregate request with *)
(*                               a budget, console, charts, refresh timer  *)
(*   refreshDetailRealtime       every 5 s the live point, every 20 s the  *)
(*                               aggregate again                           *)
(*   refreshDetailHistoryRange   a click on a history range                *)
(*   repaintDetailChartsFromCache  a change of language                    *)
(*                                                                         *)
(* All of them write detailCache and the charts, and all of them wait for  *)
(* answers in between.  The agent's samples are numbered; the number is    *)
(* also the sample's time.  The CPU chart stands for the CPU and memory    *)
(* charts, which are drawn from the same rows; of the process and network  *)
(* charts, whose rows nothing guards, the newest sample is followed.  A    *)
(* request keeps the number of the newest sample at the time it was sent:  *)
(* the answer may have been made at any time since.                        *)
(***************************************************************************)
EXTENDS Integers, Sequences, FiniteSets, FiniteSetsExt, SequencesExt

CONSTANTS
  MaxSample,      \* bound: samples of the agent while the page is open
  MaxRange,       \* bound: range refreshes and redraws under way at once
  Stale           \* how many samples the server's aggregate cache may lag

ASSUME DetailAssumption ==
  /\ MaxSample \in Nat /\ MaxRange \in Nat /\ Stale \in Nat

VARIABLES
  dPhase,      \* where renderDetailPage is
  dSample,     \* the newest sample of the agent
  dAsked,      \* the aggregate request of renderDetailPage
  dCharts,     \* the dynamic import of the chart modules and Chart.js
  dDraws,      \* calls of renderDetailMonitorCharts that await the import
  dCache,      \* detailCache
  dView,       \* what the charts, labels and cards show
  dRange,      \* the range refreshes under way
  dRefresh,    \* the run of refreshDetailRealtime, if any
  dHeavyDue,   \* more than 20 s have passed since detailHeavyRefreshAt
  dHidden,     \* document.hidden
  dPing        \* the newest PING sample in memory, and in localStorage

detailVars == <<dPhase, dSample, dAsked, dCharts, dDraws, dCache, dView,
                dRange, dRefresh, dHeavyDue, dHidden, dPing>>

SampleNo == 0..MaxSample

-----------------------------------------------------------------------------
(* Rows.  A telemetry timeline is the set of its samples.  The rows of the  *)
(* process chart and of the wide charts are known by the newest sample they *)
(* cover.                                                                   *)

Newest(points) == IF points = {} THEN 0 ELSE Max(points)

\* (last - first) / (count - 1) of a is at most 3/2 of that of b.
NotCoarser(a, b) ==
  \/ Cardinality(a) < 2 \/ Cardinality(b) < 2
  \/ 2 * (Max(a) - Min(a)) * (Cardinality(b) - 1)
       <= 3 * (Max(b) - Min(b)) * (Cardinality(a) - 1)

\* Mutant: the age of the rows is not compared.
ReplaceIfFiner(current, candidate) == NotCoarser(candidate, current)

ShouldReplace(current, candidate) ==
  Newest(candidate) >= Newest(current) /\ NotCoarser(candidate, current)

\* A timeline is replaced only by a newer one that is no coarser.
Replaced(current, candidate) ==
  IF candidate # {} /\ ShouldReplace(current, candidate) THEN candidate
  ELSE current

\* History only in front of the oldest sample already there.
MergeHistory(current, history) ==
  IF current = {} THEN history
  ELSE current \union {n \in history : n < Min(current)}

-----------------------------------------------------------------------------
(* The health snapshot keeps the newest live row it has seen, and likewise  *)
(* the newest raw sample, which only decides the colour.                    *)

AcceptHealth(current, candidate) ==
  IF candidate < current THEN current ELSE candidate

\* Mutant: what was fetched takes the place of what was kept.
ReplacePing(ping, available, n) ==
  IF available THEN [cache |-> n, stored |-> n] ELSE ping

\* Samples kept and samples fetched are merged, unless none were fetched.
MergePing(ping, available, n) ==
  LET merged == Max({ping.cache, n})
  IN  IF available /\ n > 0 THEN [cache |-> merged, stored |-> merged] ELSE ping

LoadPing(ping) ==
  [ping EXCEPT !.cache = IF ping.stored > 0 THEN ping.stored ELSE ping.cache]

-----------------------------------------------------------------------------
(* Drawing.  The rows are taken from the cache when the call is made, and   *)
(* drawn at once, or after the import, in the order of the calls.           *)

\* Without a timeline the coarse rows are drawn: their newest bucket counts.
Telemetry(cache) ==
  IF cache.resource # {} THEN cache.resource ELSE {cache.net} \ {0}

\* The process chart takes the telemetry until it has rows of its own.
Rows(cache) ==
  [cpu |-> Telemetry(cache),
   process |-> IF cache.process > 0 THEN cache.process ELSE Newest(Telemetry(cache)),
   net |-> cache.net]

\* The charts are destroyed and made anew.
Draw(rows, view) ==
  [view EXCEPT !.cpu = rows.cpu, !.process = rows.process, !.net = rows.net]

\* Before the console is there a call finds no canvas.
Mounted == dPhase \in {"drawing", "ready"}

Submit(view, rows, mounted) ==
  IF dCharts \in {"loaded", "failed"}
  THEN /\ dView' = IF dCharts = "loaded" /\ mounted THEN Draw(rows, view)
                   ELSE view
       /\ UNCHANGED <<dDraws, dCharts>>
  ELSE /\ dDraws' = Append(dDraws, rows)
       /\ dCharts' = "loading"
       /\ dView' = view

\* A live sample older than the last point of a chart is refused, by each chart
\* for itself.
AppendLive(view, n) ==
  [view EXCEPT !.cpu = IF n < Newest(@) THEN @ ELSE @ \union {n},
               !.process = Max({@, n})]

\* The health row, and with it liveSample and the resource card.
ShowHealth(view, health) ==
  [view EXCEPT !.row = health, !.card = health]

\* Mutant: the panel keeps what the rows say.
RebuildFromRows(view, cache) == [view EXCEPT !.card = Newest(Telemetry(cache))]

\* The panel is built again from the rows, then given liveSample.
RebuildPanel(view, cache) == [view EXCEPT !.card = view.row]

-----------------------------------------------------------------------------
NoRefresh == [pc |-> "idle", asked |-> 0]
EmptyCache == [net |-> 0, resource |-> {}, process |-> 0, live |-> 0, health |-> 0]
EmptyView == [cpu |-> {}, process |-> 0, net |-> 0, row |-> 0, card |-> 0]

DetailInit ==
  /\ dPhase = "boot"
  /\ dSample = 0
  /\ dAsked = 0
  /\ dCharts = "none"
  /\ dDraws = <<>>
  /\ dCache = EmptyCache
  /\ dView = EmptyView
  /\ dRange = {}
  /\ dRefresh = NoRefresh
  /\ dHeavyDue = FALSE
  /\ dHidden = FALSE
  /\ dPing = [cache |-> 0, stored |-> 0]

AgentSamples ==
  /\ dSample < MaxSample
  /\ dSample' = dSample + 1
  /\ UNCHANGED <<dPhase, dAsked, dCharts, dDraws, dCache, dView, dRange,
                 dRefresh, dHeavyDue, dHidden, dPing>>

\* The list has arrived, or the stored one is used: it has the server or not.
RenderStart ==
  /\ dPhase = "boot"
  /\ \/ /\ dPhase' = "fetching"
        /\ dAsked' = dSample
     \/ dPhase' = "notFound" /\ UNCHANGED dAsked
  /\ dPing' = LoadPing(dPing)
  /\ UNCHANGED <<dSample, dCharts, dDraws, dCache, dView, dRange,
                 dRefresh, dHeavyDue, dHidden>>

\* consumeAggregateWithinBudget gives up waiting, not the request.
BudgetExpires ==
  /\ dPhase = "fetching"
  /\ dPhase' = "late"
  /\ UNCHANGED <<dSample, dAsked, dCharts, dDraws, dCache, dView, dRange,
                 dRefresh, dHeavyDue, dHidden, dPing>>

\* What an answer asked for at sample a may contain: it is made between the
\* sending and now, by a server that caches aggregates.
Answers(a) == Max({0, a - Stale})..dSample

\* The samples of the last hour, unless the newest is older than that.
Timelines(n) == {{}, 1..n}

\* The process rows of an aggregate are of the same samples as its timeline.
NewestCount(rows, current) == IF rows # {} THEN Newest(rows) ELSE current

\* What an aggregate made at sample n leaves in the cache.
Hydrated(cache, n, rows) ==
  [cache EXCEPT !.net = IF n > 0 THEN n ELSE @,
                !.resource = Replaced(@, rows),
                !.process = NewestCount(rows, @),
                !.health = AcceptHealth(@, n)]

\* Mutant: a failed import is not told.
DrawnUntold(charts) == IF charts = "loaded" THEN "ready" ELSE "drawing"

\* Drawing was the last thing to wait for: the page goes on to its timer.
Drawn(charts) ==
  CASE charts = "loaded" -> "ready" [] charts = "failed" -> "error"
    [] OTHER -> "drawing"

\* The answer in time, or late: onHydrate renders the whole page with it.
RenderAnswer ==
  /\ dPhase \in {"fetching", "late"}
  /\ dPhase' = Drawn(dCharts)
  /\ \E n \in Answers(dAsked), available \in BOOLEAN :
       \E rows \in Timelines(n) :
         LET cache == Hydrated(dCache, n, rows)
         IN  /\ dCache' = cache
             /\ dPing' = MergePing(LoadPing(dPing), available, n)
             /\ Submit([dView EXCEPT !.row = cache.health,
                                     !.card = Newest(Telemetry(cache))], Rows(cache), TRUE)
  /\ UNCHANGED <<dSample, dAsked, dRange, dRefresh, dHeavyDue, dHidden>>

RenderFails ==
  /\ dPhase \in {"fetching", "late"}
  /\ dPhase' = "error"
  /\ UNCHANGED <<dSample, dAsked, dCharts, dDraws, dCache, dView, dRange,
                 dRefresh, dHeavyDue, dHidden, dPing>>

\* Every waiting call draws, in order, and the last one's rows stay; the page goes
\* on, its 20 s begin.
ChartsLoaded ==
  /\ dCharts = "loading"
  /\ dCharts' = "loaded"
  /\ dView' = IF Mounted /\ dDraws # <<>> THEN Draw(Last(dDraws), dView) ELSE dView
  /\ dDraws' = <<>>
  /\ dPhase' = IF dPhase = "drawing" THEN "ready" ELSE dPhase
  /\ UNCHANGED <<dSample, dAsked, dCache, dRange, dRefresh, dHeavyDue,
                 dHidden, dPing>>

\* The rejected import is kept: every call that awaits it fails, then and
\* later, and the page shows the error instead of its console.
ChartsFail ==
  /\ dCharts = "loading"
  /\ dCharts' = "failed"
  /\ dDraws' = <<>>
  /\ dPhase' = IF dPhase = "drawing" THEN "error" ELSE dPhase
  /\ UNCHANGED <<dSample, dAsked, dCache, dView, dRange, dRefresh,
                 dHeavyDue, dHidden, dPing>>

-----------------------------------------------------------------------------
(* The buttons of the range bar.                                            *)

\* setHistoryDays; which range it is decides the width of the charts only.
RangeClick ==
  /\ Mounted /\ Len(dDraws) + Cardinality(dRange) < MaxRange
  /\ dRange' = dRange \union {dSample}
  /\ UNCHANGED <<dPhase, dSample, dAsked, dCharts, dDraws, dCache, dView,
                 dRefresh, dHeavyDue, dHidden, dPing>>

\* All requests have settled; history and timeline may have failed, the charts
\* are drawn anyway.
RangeSettles(r) ==
  /\ r \in dRange /\ dRange' = dRange \ {r}
  /\ \E n \in Answers(r) \union {0}, available \in BOOLEAN :
       \E rows \in Timelines(n) :
         LET cache == [dCache EXCEPT
                         !.net = IF n > 0 THEN n ELSE @,
                         !.resource = Replaced(@, rows)]
         IN  /\ dCache' = cache
             /\ dPing' = MergePing(dPing, available, n)
             /\ IF Mounted THEN Submit(dView, Rows(cache), TRUE)
                ELSE UNCHANGED <<dView, dDraws, dCharts>>
  /\ UNCHANGED <<dPhase, dSample, dAsked, dRefresh, dHeavyDue, dHidden>>

\* A change of language draws the charts again from the cache.
SwitchLanguage ==
  /\ Mounted \/ dPhase \in {"fetching", "late"}
  /\ Len(dDraws) + Cardinality(dRange) < MaxRange
  /\ Submit(dView, Rows(dCache), Mounted)
  /\ UNCHANGED <<dPhase, dSample, dAsked, dCache, dRange, dRefresh,
                 dHeavyDue, dHidden, dPing>>

-----------------------------------------------------------------------------
(* refreshDetailRealtime: the timer, both visibility handlers.              *)

RefreshTick ==
  /\ dPhase = "ready" /\ ~dHidden /\ dRefresh.pc = "idle"
  /\ dRefresh' = [pc |-> "live", asked |-> dSample]
  /\ UNCHANGED <<dPhase, dSample, dAsked, dCharts, dDraws, dCache, dView,
                 dRange, dHeavyDue, dHidden, dPing>>

\* After the live point: the aggregate, or the panel alone.
Continue(view) ==
  /\ dRefresh' = IF dHeavyDue
                 THEN [pc |-> "heavy", asked |-> dSample]
                 ELSE NoRefresh
  /\ dView' = IF dHeavyDue THEN view ELSE RebuildPanel(view, dCache')

\* A sample no newer than the last one polled changes only the health row.
\* One equal to a chart's last point replaces it if the chart has a history.  A
\* sample that one of the charts took is kept with the telemetry, not with the
\* rows of the process chart.
LiveAnswer ==
  /\ dRefresh.pc = "live"
  /\ \E n \in dRefresh.asked..dSample, history \in BOOLEAN :
       LET health == AcceptHealth(dCache.health, n)
           new == n > dCache.live
           appended == new /\ \E last \in {Newest(dView.cpu), dView.process} :
                             n > last \/ (n = last /\ history)
       IN  /\ dCache' = [dCache EXCEPT
                           !.health = health,
                           !.live = IF new THEN n ELSE @,
                           !.resource = IF appended THEN @ \union {n} ELSE @]
           /\ Continue(ShowHealth(IF new THEN AppendLive(dView, n) ELSE dView,
                                  health))
  /\ UNCHANGED <<dPhase, dSample, dAsked, dCharts, dDraws, dRange,
                 dHeavyDue, dHidden, dPing>>

\* No answer within 1.2 s, or a failure: the row is shown again as it is.
LiveFails ==
  /\ dRefresh.pc = "live"
  /\ dCache' = dCache
  /\ Continue(ShowHealth(dView, dCache.health))
  /\ UNCHANGED <<dPhase, dSample, dAsked, dCharts, dDraws, dRange,
                 dHeavyDue, dHidden, dPing>>

\* Once the aggregate has settled.
FinishHeavy(cache) ==
  /\ dCache' = cache
  /\ dRefresh' = NoRefresh
  /\ dHeavyDue' = FALSE
  /\ Submit(RebuildPanel(dView, cache), Rows(cache), TRUE)
  /\ UNCHANGED <<dPhase, dSample, dAsked, dRange, dHidden>>

HeavyAnswer ==
  /\ dRefresh.pc = "heavy"
  /\ \E n \in Answers(dRefresh.asked), available \in BOOLEAN :
       \E rows \in Timelines(n) :
         /\ FinishHeavy(
              [dCache EXCEPT !.net = IF n > 0 THEN n ELSE @,
                             !.resource = MergeHistory(@, rows),
                             !.process = NewestCount(rows, @),
                             !.health = AcceptHealth(@, n)])
         /\ dPing' = MergePing(dPing, available, n)

HeavyFails ==
  /\ dRefresh.pc = "heavy"
  /\ FinishHeavy(dCache)
  /\ UNCHANGED dPing

TwentySeconds ==
  /\ dPhase = "ready" /\ ~dHeavyDue
  /\ dHeavyDue' = TRUE
  /\ UNCHANGED <<dPhase, dSample, dAsked, dCharts, dDraws, dCache, dView,
                 dRange, dRefresh, dHidden, dPing>>

HideOrShow ==
  /\ dPhase = "ready"
  /\ dHidden' = ~dHidden
  /\ UNCHANGED <<dPhase, dSample, dAsked, dCharts, dDraws, dCache, dView,
                 dRange, dRefresh, dHeavyDue, dPing>>

\* A new document: of the old one only localStorage stays.
DetailReload ==
  /\ dPhase # "boot"
  /\ dPhase' = "boot"
  /\ dAsked' = 0
  /\ dCharts' = "none"
  /\ dDraws' = <<>>
  /\ dCache' = EmptyCache
  /\ dView' = EmptyView
  /\ dRange' = {}
  /\ dRefresh' = NoRefresh
  /\ dHeavyDue' = FALSE
  /\ dHidden' = FALSE
  /\ dPing' = [dPing EXCEPT !.cache = 0]
  /\ UNCHANGED dSample

DetailStep ==
  \/ AgentSamples \/ RenderStart \/ BudgetExpires \/ RenderAnswer \/ RenderFails
  \/ ChartsLoaded \/ ChartsFail
  \/ RangeClick
  \/ \E r \in dRange : RangeSettles(r)
  \/ SwitchLanguage \/ RefreshTick \/ LiveAnswer \/ LiveFails \/ HeavyAnswer
  \/ HeavyFails \/ TwentySeconds \/ HideOrShow \/ DetailReload

-----------------------------------------------------------------------------
DetailTypeOK ==
  /\ dPhase \in {"boot", "notFound", "fetching", "late", "drawing", "ready",
                 "error"}
  /\ dSample \in SampleNo
  /\ dAsked \in SampleNo
  /\ dCharts \in {"none", "loading", "loaded", "failed"}
  /\ Len(dDraws) <= MaxRange + 1
  /\ dCache.resource \subseteq 1..MaxSample
  /\ dCache.live \in SampleNo
  /\ dCache.health \in SampleNo /\ dCache.net \in SampleNo /\ dCache.process \in SampleNo
  /\ dView.process \in SampleNo /\ dView.net \in SampleNo
  /\ dView.cpu \subseteq 1..MaxSample
  /\ dRange \subseteq SampleNo
  /\ dRefresh \in [pc : {"idle", "live", "heavy"}, asked : SampleNo]
  /\ dHeavyDue \in BOOLEAN /\ dHidden \in BOOLEAN
  /\ dPing \in [cache : SampleNo, stored : SampleNo]

\* An answer that was under way while live samples were drawn never takes the
\* CPU and memory charts back, in whatever order answers, imports and clicks come
\* (serverTable.js 2520: "A slower history request ... fails
\* shouldReplaceResourceTimeline instead of repainting an older last point").
\* The process and network charts have no such guard: a late or cached aggregate
\* takes them back, and any drawing takes the live points from the process chart.
\* But then they show the rows that arrived last, not those of an earlier drawing.
ChartNeverBackwards ==
  [][dPhase' # "boot" =>
       /\ dCache.resource # {} => Newest(dView'.cpu) >= Newest(dView.cpu)
       /\ dView'.process < dView.process => dView'.process = Rows(dCache').process
       /\ dView'.net < dView.net => dView'.net = dCache'.net]_detailVars

\* Once a live poll has ended, the resource card and the health row tell the
\* same sample, and not an older one than the chart was given: not after the
\* panel is built again from coarser rows, not after a failed poll
\* (syncRealtimeResourceCard and the comment in refreshDetailRealtime).
CardAgreesWithRow ==
  dPhase = "ready" /\ dRefresh.pc # "live" /\ dCache.live > 0
    => dView.card = dView.row /\ dView.row >= dCache.live

\* The PING chart's samples survive answers without them, late answers and
\* reloads: what is stored never shrinks, and memory is never behind it once
\* the page is rendered.
PingHistoryKept ==
  [][/\ dPing'.stored >= dPing.stored
     /\ Mounted' => dPing'.cache >= dPing'.stored]_detailVars

\* The loading shell is always replaced, in time, late or by an error
\* (consumeAggregateWithinBudget: onHydrate and onFailure).
DetailSettles == []<>(dPhase \notin {"fetching", "late", "drawing"})

\* While the page can be seen every new sample is shown in the end: a refresh
\* that failed half-way does not stop the ones after it.
FreshAgain == []<>(dView.row >= dSample \/ dHidden \/ dPhase # "ready")
=============================================================================
