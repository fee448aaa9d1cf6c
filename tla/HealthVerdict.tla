--------------------------- MODULE HealthVerdict ---------------------------
(***************************************************************************)
(* The verdict on a server at the head of its page: healthSnapshot.js and  *)
(* the answers that serverTable.js gives it.  The aggregate, which the     *)
(* server keeps for some seconds, tells the row of the server, the samples *)
(* of its agent and the packet loss; the live answer tells the row alone.  *)
(* They are merged as they arrive, each part by its own age, and judged by *)
(* the visitor's clock.                                                    *)
(*                                                                         *)
(* Percentages are what the thresholds make of them: CPU, memory and disk  *)
(* together are fine, high or critical; the loss is none, some or heavy.   *)
(***************************************************************************)
EXTENDS Integers, Sequences, FiniteSets, FiniteSetsExt, SequencesExt

CONSTANTS
  Levels,       \* subset of {"fine", "high", "critical"}
  Losses,       \* subset of {"none", "some", "heavy"}
  Skews,        \* visitor's clock minus the server's
  WarnAge,      \* HEALTH_WARN_AGE_MS
  DangerAge,    \* HEALTH_DANGER_AGE_MS
  Tolerance,    \* HEALTH_FUTURE_TOLERANCE_MS
  MaxGap,       \* a longer time between two samples is a gap
  MinLead,      \* the row may be ahead of the samples by so much at least
  CacheLag,     \* how many changes of the row a kept aggregate may lack
  MaxUpdates,   \* bound: changes of the server's row
  MaxClock      \* bound: time

ASSUME HealthAssumption ==
  /\ Levels \subseteq {"fine", "high", "critical"}
  /\ Losses \subseteq {"none", "some", "heavy"}
  /\ Skews \subseteq Int
  /\ {WarnAge, DangerAge, Tolerance, MaxGap, MinLead, CacheLag} \subseteq Nat
  /\ MaxUpdates \in Nat \ {0} /\ MaxClock \in Nat \ {0}

VARIABLES
  eClock,      \* the server's clock
  eSkew,       \* the visitor's is so much ahead
  eUpdates,    \* the contents of the server's row, in time
  eAsked,      \* the request under way, with the number of the row it may see
  eSnapshot,   \* detailCache.healthSnapshot
  eSeen        \* the newest row and sample received; whether a loss was shown

healthVars == <<eClock, eSkew, eUpdates, eAsked, eSnapshot, eSeen>>

Now == eClock + eSkew
NothingAsked == [kind |-> "none", since |-> 0]
NoSnapshot ==
  [live |-> [at |-> 0, status |-> "none", level |-> "fine", loss |-> "unknown"],
   raw |-> [latest |-> 0, interval |-> 0]]

HealthInit ==
  /\ eClock = 1 /\ eSkew \in Skews
  /\ eUpdates = <<[at |-> 1, status |-> "unknown", level |-> "fine", sample |-> FALSE]>>
  /\ eAsked = NothingAsked
  /\ eSnapshot = NoSnapshot
  /\ eSeen = [row |-> 0, sample |-> 0, loss |-> FALSE]

-----------------------------------------------------------------------------
(* The server.                                                              *)

TimePasses ==
  /\ eClock < MaxClock
  /\ eClock' = eClock + 1
  /\ UNCHANGED <<eSkew, eUpdates, eAsked, eSnapshot, eSeen>>

Write(status, level, sample) ==
  /\ Len(eUpdates) < MaxUpdates /\ Last(eUpdates).at < eClock
  /\ eUpdates' = Append(eUpdates, [at |-> eClock, status |-> status, level |-> level,
                                   sample |-> sample])
  /\ UNCHANGED <<eClock, eSkew, eAsked, eSnapshot, eSeen>>

\* The agent's report is a sample too.
AgentReports == \E level \in Levels : Write("online", level, TRUE)

\* The jobs write the row as well: its time moves on without a sample.
JobWrites ==
  \E status \in {Last(eUpdates).status, "offline"} :
    Write(status, Last(eUpdates).level, FALSE)

-----------------------------------------------------------------------------
(* An answer.                                                               *)

RawRows(n) == {eUpdates[i].at : i \in {j \in 1..n : eUpdates[j].sample}}

\* The median of the times between neighbouring samples, gaps left out.
SampleInterval(rows) ==
  LET times     == SetToSortSeq(rows, <)
      steps     == [i \in 1..Len(times) - 1 |-> times[i + 1] - times[i]]
      intervals == SortSeq(SelectSeq(steps, LAMBDA s : s <= MaxGap), <)
      middle    == Len(intervals) \div 2
  IN  IF intervals = <<>> THEN 0
      ELSE IF Len(intervals) % 2 = 1 THEN intervals[middle + 1]
      ELSE (intervals[middle] + intervals[middle + 1] + 1) \div 2

Snapshot(update, rows, loss) ==
  [live |-> [at |-> update.at, status |-> update.status, level |-> update.level,
             loss |-> loss],
   raw |-> [latest |-> Max(rows \union {0}), interval |-> SampleInterval(rows)]]

\* A row that does not tell the loss leaves it as it was.
CarryLoss(current, live) ==
  IF live.loss = "unknown" THEN [live EXCEPT !.loss = current.loss] ELSE live

\* Mutant: what was received last is what is shown.
AcceptAnyLive(current, candidate) == CarryLoss(current, candidate)

AcceptLive(current, candidate) ==
  IF candidate.at < current.at THEN current ELSE CarryLoss(current, candidate)

AcceptRaw(current, candidate) ==
  IF candidate.latest = 0 \/ candidate.latest < current.latest THEN current
  ELSE candidate

\* Answers are numbered as they are received: none is turned away for its number.
Accept(candidate) ==
  [live |-> AcceptLive(eSnapshot.live, candidate.live),
   raw |-> AcceptRaw(eSnapshot.raw, candidate.raw)]

Receive(candidate) ==
  /\ eSnapshot' = Accept(candidate)
  /\ eSeen' = [row |-> Max({eSeen.row, candidate.live.at}),
               sample |-> Max({eSeen.sample, candidate.raw.latest}),
               loss |-> eSeen.loss \/ eSnapshot'.live.loss # "unknown"]
  /\ eAsked' = NothingAsked
  /\ UNCHANGED <<eClock, eSkew, eUpdates>>

\* renderDetailPage asks for the aggregate; then the timer for the live row,
\* and every twenty seconds for the aggregate again.  Never for two at once.
AskFor(kind) ==
  /\ eAsked = NothingAsked
  /\ eSnapshot = NoSnapshot => kind = "aggregate"
  /\ eAsked' = [kind |-> kind, since |-> Len(eUpdates)]
  /\ UNCHANGED <<eClock, eSkew, eUpdates, eSnapshot, eSeen>>

ReceiveLive ==
  /\ eAsked.kind = "live"
  /\ \E n \in eAsked.since..Len(eUpdates) : Receive(Snapshot(eUpdates[n], {}, "unknown"))

\* The last sample may still be on its way into the table.
ReceiveAggregate ==
  /\ eAsked.kind = "aggregate"
  /\ \E n \in Max({1, eAsked.since - CacheLag})..Len(eUpdates) :
       \E m \in {n - 1, n}, loss \in Losses \union {"unknown"} :
         Receive(Snapshot(eUpdates[n], RawRows(m), loss))

RequestFails ==
  /\ eAsked # NothingAsked
  /\ eAsked' = NothingAsked
  /\ UNCHANGED <<eClock, eSkew, eUpdates, eSnapshot, eSeen>>

HealthStep ==
  \/ TimePasses \/ AgentReports \/ JobWrites
  \/ \E kind \in {"live", "aggregate"} : AskFor(kind)
  \/ ReceiveLive \/ ReceiveAggregate \/ RequestFails

-----------------------------------------------------------------------------
(* evaluateHealthSnapshot, whenever the row is painted.                     *)

Danger(live, age) ==
  \/ live.status = "offline" \/ live.level = "critical" \/ live.loss = "heavy"
  \/ age > DangerAge

\* No sample, a status that says nothing, a sample from the future, or a row
\* whose time goes on although no samples come.
Unknown(live, raw, age) ==
  \/ raw.latest = 0 \/ live.status \notin {"online", "offline"}
  \/ age < -Tolerance
  \/ live.at - raw.latest > Max({2 * raw.interval, MinLead})

Verdict ==
  LET live == eSnapshot.live
      raw  == eSnapshot.raw
      age  == IF raw.latest = 0 THEN 0 ELSE Now - raw.latest
  IN  CASE Danger(live, age) -> "danger"
        [] ~Danger(live, age) /\ Unknown(live, raw, age) -> "unknown"
        [] OTHER -> IF live.level = "high" \/ live.loss = "some" \/ age > WarnAge
                    THEN "warn" ELSE "ok"

-----------------------------------------------------------------------------
HealthTypeOK ==
  /\ eClock \in 1..MaxClock /\ eSkew \in Skews
  /\ \A i \in DOMAIN eUpdates : eUpdates[i].at \in 1..MaxClock
  /\ eAsked.kind \in {"none", "live", "aggregate"} /\ eAsked.since \in 0..MaxUpdates
  /\ eSnapshot.live.at \in 0..MaxClock /\ eSnapshot.raw.latest \in 0..MaxClock
  /\ eSnapshot.live.loss \in Losses \union {"unknown"}
  /\ eSeen \in [row : 0..MaxClock, sample : 0..MaxClock, loss : BOOLEAN]

\* The verdict is on the newest row and the newest sample received, in whatever
\* order aggregates kept by the server and live rows came: a server known to be
\* down or overloaded is never shown as healthy again by an older answer, health
\* is never shown for samples that are old, missing or of the future, and the
\* loss the aggregate told is not forgotten at the next live row.
HealthHonest ==
  eSnapshot # NoSnapshot =>
    LET update == CHOOSE u \in ToSet(eUpdates) : u.at = eSeen.row
        age    == Now - eSeen.sample
    IN  /\ update.status = "offline" \/ update.level = "critical" => Verdict = "danger"
        /\ Verdict \in {"ok", "warn"} =>
             update.status = "online" /\ eSeen.sample # 0 /\ age \in -Tolerance..DangerAge
        /\ Verdict = "ok" => update.level = "fine" /\ age <= WarnAge
        /\ eSeen.loss => eSnapshot.live.loss # "unknown"
=============================================================================
