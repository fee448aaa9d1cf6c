----------------------------- MODULE ChartScales -----------------------------
(***************************************************************************)
(* The charts of the detail page: which points are drawn, and the axes they *)
(* are drawn on.                                                            *)
(*                                                                          *)
(*   renderDetailMonitorCharts  draws all of them from the rows there are:  *)
(*                              window, buckets, thinning, axes             *)
(*   appendDetailLiveMetrics    adds a live answer to the drawn chart and   *)
(*                              moves its x axis                            *)
(*                                                                          *)
(* Four charts stand for all: network (a rate; the last one of a bucket),   *)
(* latency (every sample), processor (the mean of a bucket on a fixed axis; *)
(* memory is drawn the same way) and processes (the mean, on an axis of its *)
(* own).  Means are rounded down.                                           *)
(* The square root axis is compared by squares, so its top is a rate.       *)
(***************************************************************************)
EXTENDS Integers, Sequences, FiniteSets, SequencesExt, OrderedSets

CONSTANTS
  Reading,      \* the samples there may be: [rate, ms, load, count]
  Span,         \* the window of a chart
  Bucket,       \* the width of a bucket
  MaxPoints,    \* points of a chart before it is thinned out
  Substantial,  \* points of a chart that count as a history
  MaxTime       \* bound: the time

\* The load is a percentage: cpu_use of vps-agent.py cuts it off.
ASSUME ChartAssumption ==
  /\ Reading \subseteq [rate : Nat, ms : Nat, load : 0..100, count : Nat]
  /\ Span \in Nat \ {0} /\ Bucket \in Nat \ {0} /\ MaxPoints \in Nat \ {0}
  /\ Substantial \in Nat /\ MaxTime \in Nat

VARIABLES
  cNow,        \* the browser's time
  cRows,       \* the samples stored by the server: a function of their time
  cDrawn,      \* the charts, or "none"
  cShown,      \* history: the newest sample the last rendering was given
  cKnown       \* history: the newest sample the process chart was given

chartVars == <<cNow, cRows, cDrawn, cShown, cKnown>>

Undrawn == [rate |-> "none"]
NoRows(rows) == DOMAIN rows = {}
NewestTime(rows) == IF NoRows(rows) THEN -1 ELSE Max(DOMAIN rows)
Newer(a, b) == IF a > b THEN a ELSE b
Older(a, b) == IF a < b THEN a ELSE b
\* No two points of a chart have the same time.
InOrder(points) ==
  LET times == Ascending({p.x : p \in points})
  IN  [i \in DOMAIN times |-> CHOOSE p \in points : p.x = times[i]]
Ceil(n, d) == (n + d - 1) \div d

\* normalizePersistedTimelineRows: the window ends with the newest row.
Window(rows) == {x \in DOMAIN rows : x >= Max(DOMAIN rows) - Span}

\* Mutant: the rates are drawn where their bucket starts.
RatesAtStart(rows) ==
  InOrder({[x |-> (x \div Bucket) * Bucket, y |-> rows[x].rate] :
             x \in {z \in Window(rows) : \A w \in Window(rows) :
                      w \div Bucket = z \div Bucket => w <= z}})

\* aggregateRateRowsForDisplay: the last rate of each bucket, where it was taken.
RatePoints(rows) ==
  InOrder({[x |-> x, y |-> rows[x].rate] :
             x \in {z \in Window(rows) : \A w \in Window(rows) :
                      w \div Bucket = z \div Bucket => w <= z}})

\* aggregatePointSeriesForDisplay: the mean of each bucket, at its last sample,
\* with the least and the greatest value.
MeanPoints(rows, key) ==
  InOrder({LET own == {x \in Window(rows) : x \div Bucket = b}
               values == {rows[x][key] : x \in own}
           IN  [x |-> Max(own), live |-> FALSE, low |-> Min(values), high |-> Max(values),
                y |-> SumOver([x \in own |-> rows[x][key]], own) \div Cardinality(own)] :
             b \in {x \div Bucket : x \in Window(rows)}})

\* downsampleDisplayPoints: of each slice the first, least, greatest and last.
Thinned(points) ==
  LET size == Ceil(Len(points), MaxPoints)
      slice(i) == LET lo == ((i - 1) \div size) * size + 1
                  IN  lo..Older(lo + size - 1, Len(points))
      kept(i) == \/ i \in {Min(slice(i)), Max(slice(i))}
                 \/ \A j \in slice(i) : /\ points[i].y <= points[j].y
                                        /\ j < i => points[i].y < points[j].y
                 \/ \A j \in slice(i) : /\ points[i].y >= points[j].y
                                        /\ j < i => points[i].y > points[j].y
  IN  IF Len(points) <= MaxPoints THEN points
      ELSE InOrder({points[i] : i \in {j \in DOMAIN points : kept(j)}})

\* One of the small charts' curves; none without rows.
SmallSeries(rows, key) == IF NoRows(rows) THEN <<>> ELSE Thinned(MeanPoints(rows, key))

\* The answer of the process chart's own request, else the rows of the others.
ProcessRows(own, rows) == IF NoRows(own) THEN rows ELSE own

\* envelopeDatasets: the spread of each bucket behind the curve, if there is any.
Envelope(points) == IF \E i \in DOMAIN points : points[i].low < points[i].high
                    THEN points ELSE <<>>

\* telemetryEmptyStatePlugin: asked at every drawing of the chart.
Message(rendered, points) == rendered = <<>> /\ points = <<>>

\* buildPersistedPingTargetDatasets: the window ends now.
LatencyPoints(rows, now) ==
  InOrder({[x |-> x, y |-> rows[x].ms] : x \in {z \in DOMAIN rows : z >= now - Span}})

-----------------------------------------------------------------------------
(* The axes.                                                                *)

\* networkAxisBounds, pingAxisBounds: from the first point to the last.
Anchored(points, now) ==
  IF points = <<>> THEN [min |-> now - Span, max |-> now]
  ELSE LET min == Newer(points[1].x, Last(points).x - Span)
       IN  [min |-> min, max |-> IF Last(points).x > min THEN Last(points).x ELSE min + Span]

\* coldStartAxisBounds: from the first point on, and with the last one after a
\* full window.
ColdStart(points, now) ==
  IF points = <<>> THEN [min |-> now - Span, max |-> now]
  ELSE IF Last(points).x >= points[1].x + Span
       THEN [min |-> Last(points).x - Span, max |-> Last(points).x]
       ELSE [min |-> points[1].x, max |-> points[1].x + Span]

\* DETAIL_RATE_STEPS_KBPS and the steps of the latency axis.
RateSteps == {10, 25, 50, 100, 200, 500, 1024, 2048, 5120, 10240, 15360, 20480, 30720,
              40960, 51200, 102400, 256000, 512000, 1024000}
LatencySteps == {20, 50, 100, 150, 200, 300, 500, 800, 1000, 1500, 2000, 3000, 5000}

\* 10 ** Math.floor(Math.log10(n))
Decade[n \in Nat] == IF n < 10 THEN 1 ELSE 10 * Decade[n \div 10]

\* niceAxisMax: the first step over the padded value (pad in hundredths), else
\* 1, 2, 5 or 10 times its power of ten.
NiceMax(value, least, pad, steps) ==
  LET target == Newer(100 * least, value * pad)
      covering(some) == {step \in some : 100 * step >= target}
      round == {m * Decade[target \div 100] : m \in {1, 2, 5, 10}}
  IN  Min(covering(IF covering(steps) # {} THEN steps ELSE round))

Ys(points) == [i \in DOMAIN points |-> points[i].y]
Peak(values) == IF values = <<>> THEN 0 ELSE Max(ToSet(values))
Percentile95(values) ==
  IF values = <<>> THEN 0
  ELSE SortSeq(values, <)[(95 * (Len(values) - 1)) \div 100 + 1]

\* pingAxis: to the slowest answer.
LatencyAxis(values) == NiceMax(Peak(values), 50, 130, LatencySteps)

\* Mutant: to the 95th percentile, as the chart once was.
PercentileAxis(values) ==
  [mode |-> "linear", top |-> 4 * Ceil(NiceMax(Percentile95(values), 10, 115, RateSteps), 4)]

\* adaptiveRateYScale: to the peak; by square roots when that is an outlier.
RateAxis(values) ==
  LET p95 == Percentile95(values)
      top == NiceMax(Peak(values), 10, 115, RateSteps)
  IN  IF p95 > 0 /\ Peak(values) > 3 * p95
      THEN [mode |-> "sqrt", top |-> top]
      ELSE [mode |-> "linear", top |-> 4 * Ceil(top, 4)]

\* Mutant: below zero.
ProcessAxisBelowZero(values) ==
  LET most == IF values = <<>> THEN 1 ELSE Max(ToSet(values))
      least == IF values = <<>> THEN 0 ELSE Min(ToSet(values))
      span == Newer(4, 4 * Ceil(most - least, 4))
  IN  [min |-> most + 1 - span, max |-> most + 1]

\* processYScale: whole processes in four equal steps.
ProcessAxis(values) ==
  LET least == IF values = <<>> THEN 0 ELSE Min(ToSet(values))
      most == IF values = <<>> THEN 1 ELSE Max(ToSet(values))
      pad == IF Len(values) > 1 THEN Newer(1, Ceil(15 * (most - least), 100)) ELSE 1
      rawMin == Newer(0, least - pad)
      rawMax == Newer(rawMin + 1, most + pad)
      span == Newer(4, 4 * Ceil(rawMax - rawMin, 4))
  IN  [min |-> Newer(0, rawMax - span), max |-> Newer(0, rawMax - span) + span]

-----------------------------------------------------------------------------
ChartInit ==
  /\ cNow = 0 /\ cRows = <<>> /\ cDrawn = Undrawn
  /\ cShown = -1 /\ cKnown = -1

\* Time goes on, and the agent reports or does not.
Sampled(reading) ==
  /\ cNow < MaxTime
  /\ cNow' = cNow + 1
  /\ cRows' = [x \in DOMAIN cRows \union {cNow'} |-> IF x = cNow' THEN reading ELSE cRows[x]]
  /\ UNCHANGED <<cDrawn, cShown, cKnown>>

Silence ==
  /\ cNow < MaxTime
  /\ cNow' = cNow + 1
  /\ UNCHANGED <<cRows, cDrawn, cShown, cKnown>>

\* adaptivePercentYScale.
LoadAxis == [min |-> 0, max |-> 100]

RateChart(rows, now) ==
  LET points == IF NoRows(rows) THEN <<>> ELSE Thinned(RatePoints(rows))
  IN  [points |-> points, x |-> Anchored(points, now), y |-> RateAxis(Ys(points))]

LatencyChart(rows, now) ==
  LET points == LatencyPoints(rows, now)
  IN  [points |-> points, x |-> Anchored(points, now), y |-> LatencyAxis(Ys(points))]

LoadChart(rows, now) ==
  LET points == SmallSeries(rows, "load")
  IN  [points |-> points, band |-> Envelope(points), x |-> ColdStart(points, now),
       y |-> LoadAxis, message |-> Message(points, points)]

ProcessChart(rows, now) ==
  LET points == SmallSeries(rows, "count")
  IN  [points |-> points, band |-> Envelope(points), x |-> ColdStart(points, now),
       y |-> ProcessAxis(Ys(points)), message |-> Message(points, points)]

\* renderDetailMonitorCharts: the charts are destroyed and drawn anew, the
\* processes from an answer of their own, which may be older.
RenderCharts(until) ==
  LET own == [x \in {z \in DOMAIN cRows : z <= until} |-> cRows[x]]
      counts == ProcessRows(own, cRows)
  IN  /\ cDrawn' = [rate |-> RateChart(cRows, cNow), ping |-> LatencyChart(cRows, cNow),
                     load |-> LoadChart(cRows, cNow), proc |-> ProcessChart(counts, cNow)]
      /\ cShown' = NewestTime(cRows)
      /\ cKnown' = NewestTime(counts)
      /\ UNCHANGED <<cNow, cRows>>

\* append: every later sample until there is a history; from then on one that
\* is close to the last point replaces it, and a late one is dropped.  The
\* axis of the values stays as it was rendered.
Appended(points, point) ==
  IF points = <<>> THEN <<point>>
  ELSE IF point.x <= Last(points).x /\ (Len(points) <= Substantial \/ point.x < Last(points).x)
  THEN points
  ELSE IF Len(points) > Substantial /\ point.x <= Last(points).x + 1
  THEN Append(Front(points), point)
  ELSE Append(points, point)

\* One chart after a live answer; its message is asked for again.
Moved(chart, x, value) ==
  LET points == Appended(chart.points, [x |-> x, y |-> value, live |-> TRUE,
                                        low |-> value, high |-> value])
  IN  [chart EXCEPT !.points = points, !.x = ColdStart(points, x),
                    !.message = @ /\ Message(<<>>, points)]

\* A live answer, which may be late: any of the samples there were.
AppendLiveSample(x) ==
  /\ cDrawn # Undrawn /\ x \in DOMAIN cRows
  /\ cDrawn' = [cDrawn EXCEPT !.load = Moved(@, x, Older(100, cRows[x].load)),
                              !.proc = Moved(@, x, cRows[x].count)]
  /\ cKnown' = Newer(cKnown, x)
  /\ UNCHANGED <<cNow, cRows, cShown>>

ChartStep ==
  \/ \E reading \in Reading : Sampled(reading)
  \/ Silence
  \/ \E until \in 0..MaxTime : RenderCharts(until)
  \/ \E x \in 0..MaxTime : AppendLiveSample(x)

-----------------------------------------------------------------------------
ChartTypeOK ==
  /\ cNow \in 0..MaxTime /\ DOMAIN cRows \subseteq 1..cNow
  /\ cShown \in -1..cNow /\ cKnown \in -1..cNow
  /\ cDrawn # Undrawn =>
       /\ cDrawn.proc.y.min >= 0 /\ cDrawn.proc.y.max - cDrawn.proc.y.min >= 4
       /\ cDrawn.rate.y.mode \in {"linear", "sqrt"}

Inside(v, axis) == axis.min <= v /\ v <= axis.max

\* What a rendering draws stays in its chart: the axis of the rates covers the
\* burst whatever the ordinary traffic is, that of the latencies the slowest answer,
\* that of the processes all the means it was made for, the loads and their spread
\* are percents; the newest point of each chart is between the ends of its x axis,
\* also after it was moved by a live answer; and no chart says that it is empty
\* over a curve.  One curve may leave its chart: the y axis of the processes is
\* that of the last rendering, and a live answer above or below it is cut off
\* until the next one.
NothingClipped ==
  cDrawn # Undrawn =>
    /\ \A p \in ToSet(cDrawn.rate.points) : /\ Inside(p.x, cDrawn.rate.x)
                                             /\ p.y <= cDrawn.rate.y.top
    /\ \A p \in ToSet(cDrawn.ping.points) : /\ Inside(p.x, cDrawn.ping.x)
                                             /\ p.y <= cDrawn.ping.y
    /\ \A p \in ToSet(cDrawn.proc.points) : p.live \/ Inside(p.y, cDrawn.proc.y)
    /\ \A p \in ToSet(cDrawn.load.points \o cDrawn.load.band) :
         Inside(p.low, cDrawn.load.y) /\ Inside(p.high, cDrawn.load.y)
    /\ \A chart \in {cDrawn.load, cDrawn.proc} :
         chart.points # <<>> => Inside(Last(chart.points).x, chart.x) /\ ~chart.message

\* Windows, buckets and thinning leave no blank tail: every chart ends with the
\* newest sample it was given, and late live answers neither move the processor
\* and process charts backwards nor fold their curves.
NewestDrawn ==
  cDrawn # Undrawn =>
    /\ cShown >= 0 => Last(cDrawn.rate.points).x = cShown
    /\ \A p \in ToSet(cDrawn.ping.points) : p.x <= cShown
    /\ cKnown >= 0 => Last(cDrawn.proc.points).x = cKnown
    /\ Newer(cShown, cKnown) >= 0 => Last(cDrawn.load.points).x = Newer(cShown, cKnown)
    /\ \A points \in {cDrawn.load.points, cDrawn.proc.points} :
         \A i, j \in DOMAIN points : i < j => points[i].x < points[j].x
=============================================================================
