------------------------- MODULE PartitionRetention -------------------------
(***************************************************************************)
(* How long a row of probe_results (or ping_target_results) lives.         *)
(*                                                                         *)
(* The table is partitioned by RANGE COLUMNS(created_at), one partition a  *)
(* day and the catch-all pmax.  Two scheduled jobs look after it:          *)
(*   _job_probe_partition_maintain  (01:30)  converts the table once and   *)
(*                                  creates the partitions to come,        *)
(*   _job_cleanup                   (02:00)  drops expired partitions, or  *)
(*                                  deletes rows where there are none.     *)
(* Every process that calls create_app has a scheduler of its own; the api *)
(* and the agent_consumer containers both do, so each job runs twice, at   *)
(* the same minute, and nothing but MySQL's metadata lock orders the two.  *)
(*                                                                         *)
(* Time is counted in half-days, so that a day has instants before and     *)
(* after one another; a row is the instant of its created_at.              *)
(***************************************************************************)
EXTENDS Integers, FiniteSets

CONSTANTS
  Scheduler,       \* processes with a background scheduler
  Retention,       \* PROBE_RESULT_RETENTION_DAYS, also max_backfill_days
  DaysAhead,       \* PROBE_RESULT_PARTITION_DAYS_AHEAD
  DeleteFallback,  \* TRUE for probe_results, FALSE for ping_target_results
  FirstDay,        \* the day a behaviour begins
  LastDay,         \* bound: the day it ends
  Overnight,       \* a job may still be running at midnight UTC
  Layouts,         \* what the table may look like at first
  Faults,          \* the kinds of failure that may happen
  MaxFaults        \* bound: how many failures happen in a behaviour

FaultKind == {"listFails",  \* INFORMATION_SCHEMA cannot be read: [] is returned
              "ddlFails",   \* an ALTER TABLE or a DELETE raises
              "missed",     \* a process is down, or too late, when a job is due
              "crash"}      \* a process dies in the middle of its jobs

ASSUME RetentionAssumption ==
  /\ Retention \in Nat
  /\ DaysAhead \in Nat
  /\ DeleteFallback \in BOOLEAN
  /\ Overnight \in BOOLEAN
  /\ FirstDay \in Nat
  /\ LastDay \in Nat
  /\ \A layout \in Layouts :
       /\ layout.partitioned \in BOOLEAN
       /\ layout.parts \subseteq Int
       /\ layout.parts # {} => layout.partitioned
  /\ Faults \subseteq FaultKind
  /\ MaxFaults \in Nat

VARIABLES
  now,          \* the instant, in half-days, UTC
  rows,         \* created_at of the rows in the table
  partitioned,  \* the table is partitioned; then it has pmax too
  parts,        \* the days that have a partition pYYYYMMDD
  maintain,     \* maintain[p]: the maintenance job of process p
  cleanup,      \* cleanup[p]: the cleanup job of process p
  ran,          \* ran[p]: jobs of p whose time of today has come
  faultsLeft    \* failures that may still happen

table == <<rows, partitioned, parts>>
vars == <<now, rows, partitioned, parts, maintain, cleanup, ran, faultsLeft>>

Job == {"maintain", "cleanup"}

DayOf(t) == t \div 2
Today == DayOf(now)

\* Mutant: the bound is a day too late.
UpperBoundLate(d) == 2 * (d + 2)

\* VALUES LESS THAN of partition d: midnight at the end of that day.
UpperBound(d) == 2 * (d + 1)

\* MySQL keeps a row in the first partition whose bound lies above it, and in
\* pmax if there is none.
LivesIn(t, d) ==
  /\ d \in parts
  /\ t < UpperBound(d)
  /\ \A e \in parts : t < UpperBound(e) => d <= e

IdleMaintain == [pc |-> "idle", cursor |-> 0, end |-> 0, ok |-> TRUE]
IdleCleanup  == [pc |-> "idle", limit |-> 0, victims |-> {}]

Init ==
  /\ now = 2 * FirstDay
  /\ rows = 0..now
  /\ \E layout \in Layouts :
       partitioned = layout.partitioned /\ parts = layout.parts
  /\ maintain = [p \in Scheduler |-> IdleMaintain]
  /\ cleanup = [p \in Scheduler |-> IdleCleanup]
  /\ ran = [p \in Scheduler |-> {}]
  /\ faultsLeft = MaxFaults

CanFail(kind) == kind \in Faults /\ faultsLeft > 0
Fail(kind) == CanFail(kind) /\ faultsLeft' = faultsLeft - 1

\* list_partitions: what the caller sees of the table.  An error looks like a
\* table without partitions.
Listing(seen) ==
  \/ seen = partitioned /\ UNCHANGED faultsLeft
  \/ seen = FALSE /\ partitioned /\ Fail("listFails")

-----------------------------------------------------------------------------
(* _job_probe_partition_maintain                                           *)

StartMaintain(p) ==
  /\ "maintain" \notin ran[p]
  /\ maintain[p].pc = "idle"
  /\ ran' = [ran EXCEPT ![p] = @ \union {"maintain"}]
  /\ maintain' = [maintain EXCEPT ![p].pc = "check"]
  /\ UNCHANGED <<now, table, cleanup, faultsLeft>>

\* is_partitioned, called by the job
CheckPartitioned(p) ==
  /\ maintain[p].pc = "check"
  /\ \E seen \in BOOLEAN :
       /\ Listing(seen)
       /\ maintain' = [maintain EXCEPT ![p].pc =
                         IF seen THEN "gate" ELSE "recheck"]
  /\ UNCHANGED <<now, table, cleanup, ran>>

\* is_partitioned, called by initialize_table_partitioning
RecheckPartitioned(p) ==
  /\ maintain[p].pc = "recheck"
  /\ \E seen \in BOOLEAN :
       /\ Listing(seen)
       /\ maintain' = [maintain EXCEPT ![p].pc =
                                         IF seen THEN "gate" ELSE "convert",
                                       ![p].cursor = Today]
  /\ UNCHANGED <<now, table, cleanup, ran>>

\* Mutant: the new layout has no pmax.
ConvertWithoutPmax(p) ==
  /\ maintain[p].pc = "convert"
  /\ parts' = {maintain[p].cursor}
  /\ maintain' = [maintain EXCEPT ![p].pc = "gate"]
  /\ UNCHANGED <<now, rows, partitioned, cleanup, ran, faultsLeft>>

\* ALTER TABLE ... PARTITION BY: one partition for today and pmax.  MySQL
\* repartitions a table that has partitions already.
ConvertTable(p) ==
  /\ maintain[p].pc = "convert"
  /\ \/ /\ partitioned' = TRUE
        /\ parts' = {maintain[p].cursor}
        /\ UNCHANGED faultsLeft
     \/ /\ Fail("ddlFails")
        /\ UNCHANGED <<partitioned, parts>>
  /\ maintain' = [maintain EXCEPT ![p].pc = "gate"]
  /\ UNCHANGED <<now, rows, cleanup, ran>>

\* The job lists the partitions and gives up when it sees none.
Gate(p) ==
  /\ maintain[p].pc = "gate"
  /\ \E seen \in BOOLEAN :
       /\ Listing(seen)
       /\ maintain' = [maintain EXCEPT ![p] =
                         IF seen THEN [@ EXCEPT !.pc = "plan"] ELSE IdleMaintain]
  /\ UNCHANGED <<now, table, cleanup, ran>>

\* The last daily partition.  A table without any is treated like one whose
\* last partition is yesterday's: the loop begins today.
LastDaily(d) ==
  IF parts = {} THEN d = Today - 1
  ELSE d \in parts /\ \A e \in parts : e <= d

\* Mutant: no gap is filled.
StartToday(last) == Today

\* The first day to create: after the last daily partition, but no more than
\* max_backfill_days ago.
StartDay(last) ==
  IF last + 1 < Today - Retention THEN Today - Retention ELSE last + 1

\* ensure_future_partitions lists the partitions once more and plans its loop.
\* (Its test for a name that exists is never true: the loop begins after the
\* last partition it has seen.)
Plan(p) ==
  /\ maintain[p].pc = "plan"
  /\ \E seen \in BOOLEAN, last \in parts \union {Today - 1} :
       /\ Listing(seen)
       /\ LastDaily(last)
       /\ maintain' = [maintain EXCEPT ![p] =
                         IF seen THEN [pc |-> "create", cursor |-> StartDay(last),
                                       end |-> Today + DaysAhead, ok |-> TRUE]
                         ELSE IdleMaintain]
  /\ UNCHANGED <<now, table, cleanup, ran>>

\* MySQL accepts the new partition only above all others (and below pmax).
Acceptable(d) == partitioned /\ \A e \in parts : e < d

\* One turn of the loop: ALTER TABLE ... REORGANIZE PARTITION pmax.  An error,
\* be it that the partition exists, is logged and the loop goes on.
CreatePartition(p) ==
  LET d == maintain[p].cursor
  IN  /\ maintain[p].pc = "create"
      /\ d <= maintain[p].end
      /\ \/ /\ Acceptable(d)
            /\ parts' = parts \union {d}
            /\ maintain' = [maintain EXCEPT ![p].cursor = d + 1]
            /\ UNCHANGED faultsLeft
         \/ /\ ~Acceptable(d)
            /\ maintain' = [maintain EXCEPT ![p].cursor = d + 1]
            /\ UNCHANGED <<parts, faultsLeft>>
         \/ /\ Fail("ddlFails")
            /\ maintain' = [maintain EXCEPT ![p].cursor = d + 1, ![p].ok = FALSE]
            /\ UNCHANGED parts
      /\ UNCHANGED <<now, rows, partitioned, cleanup, ran>>

EndMaintain(p) ==
  /\ maintain[p].pc = "create"
  /\ maintain[p].cursor > maintain[p].end
  /\ maintain' = [maintain EXCEPT ![p] = IdleMaintain]
  /\ UNCHANGED <<now, table, cleanup, ran, faultsLeft>>

-----------------------------------------------------------------------------
(* _job_cleanup                                                            *)

\* 02:00 comes after 01:30.
StartCleanup(p) ==
  /\ "maintain" \in ran[p]
  /\ "cleanup" \notin ran[p]
  /\ cleanup[p].pc = "idle"
  /\ ran' = [ran EXCEPT ![p] = @ \union {"cleanup"}]
  /\ cleanup' = [cleanup EXCEPT ![p].pc = "choose"]
  /\ UNCHANGED <<now, table, maintain, faultsLeft>>

\* DROP PARTITION if partitions are seen, else DELETE in batches of rows older
\* than a cutoff fixed here, else (ping_target_results) nothing.
Choose(p) ==
  /\ cleanup[p].pc = "choose"
  /\ \E seen \in BOOLEAN :
       /\ Listing(seen)
       /\ cleanup' = [cleanup EXCEPT ![p] =
            IF seen THEN [@ EXCEPT !.pc = "list"]
            ELSE IF DeleteFallback
                 THEN [@ EXCEPT !.pc = "delete", !.limit = now - 2 * Retention]
                 ELSE IdleCleanup]
  /\ UNCHANGED <<now, table, maintain, ran>>

\* Mutant: only the partition that has expired today.
ExpiredToday(d) == d = Today - Retention - 1

\* Mutant: the partition that holds the cutoff is taken for expired.
ExpiredInclusive(d) == d <= Today - Retention

\* d < cutoff in drop_expired_partitions
Expired(d) == d < Today - Retention

\* drop_expired_partitions lists the partitions again and picks its victims.
ListExpired(p) ==
  /\ cleanup[p].pc = "list"
  /\ \E seen \in BOOLEAN :
       /\ Listing(seen)
       /\ cleanup' = [cleanup EXCEPT ![p].pc = "drop",
                                     ![p].limit = 2 * (Today - Retention),
                                     ![p].victims =
                        IF seen THEN {d \in parts : Expired(d)} ELSE {}]
  /\ UNCHANGED <<now, table, maintain, ran>>

\* ALTER TABLE ... DROP PARTITION, in the order of the partitions.  An error,
\* be it that the partition is gone, is logged and the loop goes on.
DropPartition(p) ==
  /\ cleanup[p].pc = "drop"
  /\ \E d \in cleanup[p].victims :
       /\ \A e \in cleanup[p].victims : d <= e
       /\ \/ /\ d \in parts
             /\ rows' = {t \in rows : ~LivesIn(t, d)}
             /\ parts' = parts \ {d}
             /\ UNCHANGED faultsLeft
          \/ /\ d \notin parts
             /\ UNCHANGED <<rows, parts, faultsLeft>>
          \/ /\ Fail("ddlFails")
             /\ UNCHANGED <<rows, parts>>
       /\ cleanup' = [cleanup EXCEPT ![p].victims = @ \ {d}]
  /\ UNCHANGED <<now, partitioned, maintain, ran>>

EndDrops(p) ==
  /\ cleanup[p].pc = "drop"
  /\ cleanup[p].victims = {}
  /\ cleanup' = [cleanup EXCEPT ![p] = IdleCleanup]
  /\ UNCHANGED <<now, table, maintain, ran, faultsLeft>>

\* One batch of the DELETE fallback, committed on its own.
DeleteBatch(p) ==
  /\ cleanup[p].pc = "delete"
  /\ \E t \in rows :
       /\ t < cleanup[p].limit
       /\ \A u \in rows : t <= u
       /\ rows' = rows \ {t}
  /\ UNCHANGED <<now, partitioned, parts, maintain, cleanup, ran, faultsLeft>>

\* Nothing is left to delete, or an error ends the job half-way.
EndDelete(p) ==
  /\ cleanup[p].pc = "delete"
  /\ \/ /\ \A t \in rows : t >= cleanup[p].limit
        /\ UNCHANGED faultsLeft
     \/ Fail("ddlFails")
  /\ cleanup' = [cleanup EXCEPT ![p] = IdleCleanup]
  /\ UNCHANGED <<now, table, maintain, ran>>

-----------------------------------------------------------------------------
(* The surroundings.                                                       *)

Resting(p) == maintain[p].pc = "idle" /\ cleanup[p].pc = "idle"

\* Half a day passes and brings new rows.  A day ends when the time of every
\* job has come.
Tick ==
  /\ now < 2 * LastDay + 1
  /\ now % 2 = 1 => \A p \in Scheduler :
       ran[p] = Job /\ (Overnight \/ Resting(p))
  /\ now' = now + 1
  /\ rows' = rows \union {now + 1}
  /\ ran' = IF now % 2 = 1 THEN [p \in Scheduler |-> {}] ELSE ran
  /\ UNCHANGED <<partitioned, parts, maintain, cleanup, faultsLeft>>

\* The time of job j comes while p cannot run it; it is not made up for.
MissJob(p, j) ==
  /\ j \notin ran[p]
  /\ j = "cleanup" => "maintain" \in ran[p]
  /\ Fail("missed")
  /\ ran' = [ran EXCEPT ![p] = @ \union {j}]
  /\ UNCHANGED <<now, table, maintain, cleanup>>

\* The container of p is restarted.
Crash(p) ==
  /\ ~Resting(p)
  /\ Fail("crash")
  /\ maintain' = [maintain EXCEPT ![p] = IdleMaintain]
  /\ cleanup' = [cleanup EXCEPT ![p] = IdleCleanup]
  /\ UNCHANGED <<now, table, ran>>

\* The horizon of the model.
Finished ==
  /\ now = 2 * LastDay + 1
  /\ \A p \in Scheduler : ran[p] = Job /\ Resting(p)
  /\ UNCHANGED vars

Maintain(p) ==
  \/ StartMaintain(p)
  \/ CheckPartitioned(p)
  \/ RecheckPartitioned(p)
  \/ ConvertTable(p)
  \/ Gate(p)
  \/ Plan(p)
  \/ CreatePartition(p)
  \/ EndMaintain(p)

Cleanup(p) ==
  \/ StartCleanup(p)
  \/ Choose(p)
  \/ ListExpired(p)
  \/ DropPartition(p)
  \/ EndDrops(p)
  \/ DeleteBatch(p)
  \/ EndDelete(p)

Next ==
  \/ \E p \in Scheduler : Maintain(p)
  \/ \E p \in Scheduler : Cleanup(p)
  \/ \E p \in Scheduler, j \in Job : MissJob(p, j)
  \/ \E p \in Scheduler : Crash(p)
  \/ Tick
  \/ Finished

Spec == Init /\ [][Next]_vars

\* Time passes, the cron triggers fire and a job that runs goes on running.
Fairness ==
  /\ \A p \in Scheduler : WF_vars(Maintain(p)) /\ WF_vars(Cleanup(p))
  /\ WF_vars(Tick)

FairSpec == Spec /\ Fairness

-----------------------------------------------------------------------------
(* Properties.                                                             *)

MaintainPC == {"idle", "check", "recheck", "convert", "gate", "plan", "create"}
CleanupPC == {"idle", "choose", "list", "drop", "delete"}

\* The types of the variables; only a partitioned table has partitions.
TypeOK ==
  /\ now \in Nat
  /\ rows \subseteq 0..now
  /\ partitioned \in BOOLEAN
  /\ parts \subseteq Int
  /\ parts # {} => partitioned
  /\ maintain \in [Scheduler -> [pc : MaintainPC, cursor : Int, end : Int,
                                 ok : BOOLEAN]]
  /\ cleanup \in [Scheduler -> [pc : CleanupPC, limit : Int,
                                victims : SUBSET Int]]
  /\ ran \in [Scheduler -> SUBSET Job]
  /\ faultsLeft \in Nat

\* Whatever a running cleanup holds, it has expired: its list of partitions and
\* its cutoff may be old by the time they are used, but never too young.
CleanupInv ==
  \A p \in Scheduler :
    /\ \A d \in cleanup[p].victims : UpperBound(d) <= now - 2 * Retention
    /\ cleanup[p].pc = "delete" => cleanup[p].limit <= now - 2 * Retention

\* No row is removed before it is Retention days old to the instant, whichever
\* jobs run at the same time, whatever the layout they find or leave behind.
NoEarlyLoss ==
  [][\A t \in rows \ rows' : t < now - 2 * Retention]_vars

\* A partition disappears only by being dropped once expired: no job takes the
\* layout of a partitioned table away.  ("Idempotent: returns False (no-op) ...
\* when the table is already partitioned", initialize_table_partitioning.)
LayoutKept ==
  [][\A d \in parts \ parts' : UpperBound(d) <= now - 2 * Retention]_vars

\* When maintenance has run through without a failed ALTER TABLE, every row that
\* is not past retention, and every row of the days ahead, has a partition of
\* its very day, even after runs were missed or broken off.
GapFilled ==
  \A p \in Scheduler :
    (/\ maintain[p].pc = "create"
     /\ maintain[p].cursor > maintain[p].end
     /\ maintain[p].ok)
    => \A d \in (Today - Retention)..maintain[p].end :
         LivesIn(2 * d, d) /\ LivesIn(2 * d + 1, d)

\* Every row that is old enough is removed in the end, although jobs are missed,
\* broken off or fail: none is stranded in pmax or in a stale partition.
Ageing == 0..(2 * FirstDay + 1)
Expires == \A t \in Ageing : (t \in rows) ~> (t \notin rows)
=============================================================================
