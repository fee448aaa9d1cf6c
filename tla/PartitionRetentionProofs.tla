---------------------- MODULE PartitionRetentionProofs ----------------------
(***************************************************************************)
(* Theorems about PartitionRetention: no combination of schedulers, table  *)
(* layouts, retention periods and failures removes a row too early.        *)
(***************************************************************************)
EXTENDS PartitionRetention, TLAPS

\* The day of an instant, in half-days.
LEMMA DayBounds ==
  ASSUME NEW t \in Nat
  PROVE  /\ DayOf(t) \in Nat
         /\ 2 * DayOf(t) <= t
         /\ t < UpperBound(DayOf(t))
BY DEF DayOf, UpperBound
-----------------------------------------------------------------------------
(* Type correctness.                                                       *)

MaintainRecord == [pc : MaintainPC, cursor : Int, end : Int, ok : BOOLEAN]
CleanupRecord == [pc : CleanupPC, limit : Int, victims : SUBSET Int]

LEMMA InitType == Init => TypeOK
<1> SUFFICES ASSUME Init PROVE TypeOK
  OBVIOUS
<1>1. /\ now \in Nat
      /\ rows \subseteq 0..now
      /\ faultsLeft \in Nat
      /\ ran \in [Scheduler -> SUBSET Job]
  BY RetentionAssumption DEF Init
<1>2. PICK layout \in Layouts :
        partitioned = layout.partitioned /\ parts = layout.parts
  BY DEF Init
<1>3. partitioned \in BOOLEAN /\ parts \subseteq Int /\ (parts # {} => partitioned)
  BY <1>2, RetentionAssumption
<1>4. IdleMaintain \in MaintainRecord /\ IdleCleanup \in CleanupRecord
  BY DEF IdleMaintain, IdleCleanup, MaintainRecord, CleanupRecord, MaintainPC,
         CleanupPC
<1>5. maintain \in [Scheduler -> MaintainRecord]
      /\ cleanup \in [Scheduler -> CleanupRecord]
  BY <1>4 DEF Init
<1> QED
  BY <1>1, <1>3, <1>5 DEF TypeOK, MaintainRecord, CleanupRecord

\* Reading the partitions changes nothing but the count of failures.
LEMMA ListingType ==
  ASSUME faultsLeft \in Nat, NEW seen, Listing(seen)
  PROVE  faultsLeft' \in Nat /\ (seen => partitioned)
BY DEF Listing, Fail, CanFail

\* Changing some fields of a record keeps its type.
LEMMA RecordUpdate ==
  ASSUME NEW r \in MaintainRecord, NEW c \in Int
  PROVE  /\ \A pc \in MaintainPC :
              [r EXCEPT !.pc = pc, !.cursor = c] \in MaintainRecord
         /\ \A b \in BOOLEAN :
              [r EXCEPT !.cursor = c, !.ok = b] \in MaintainRecord
<1>1. ASSUME NEW pc \in MaintainPC
      PROVE  [r EXCEPT !.pc = pc, !.cursor = c] \in MaintainRecord
  BY DEF MaintainRecord
<1>2. ASSUME NEW b \in BOOLEAN
      PROVE  [r EXCEPT !.cursor = c, !.ok = b] \in MaintainRecord
  BY DEF MaintainRecord
<1> QED BY <1>1, <1>2

\* The steps of the maintenance job keep the types.
LEMMA MaintainType ==
  ASSUME TypeOK, NEW p \in Scheduler, Maintain(p)
  PROVE  TypeOK'
<1> USE DEF TypeOK, table, Fail, CanFail
<1>1. Today \in Nat
  BY DayBounds DEF Today
<1>0. maintain[p] \in MaintainRecord
  BY DEF MaintainRecord
<1>2. CASE StartMaintain(p)
  BY <1>2 DEF StartMaintain, Job, MaintainPC
<1>3. CASE CheckPartitioned(p)
  <2>1. faultsLeft' \in Nat
    BY <1>3, ListingType DEF CheckPartitioned
  <2>2. maintain' \in [Scheduler -> [pc : MaintainPC, cursor : Int, end : Int,
                                     ok : BOOLEAN]]
    BY <1>3 DEF CheckPartitioned, MaintainPC
  <2> QED BY <1>3, <2>1, <2>2 DEF CheckPartitioned
<1>4. CASE RecheckPartitioned(p)
  <2>1. faultsLeft' \in Nat
    BY <1>4, ListingType DEF RecheckPartitioned
  <2>2. maintain' \in [Scheduler -> [pc : MaintainPC, cursor : Int, end : Int,
                                     ok : BOOLEAN]]
    <3>1. PICK pc \in MaintainPC :
            maintain' = [maintain EXCEPT ![p].pc = pc, ![p].cursor = Today]
      BY <1>4 DEF RecheckPartitioned, MaintainPC
    <3>2. [maintain[p] EXCEPT !.pc = pc, !.cursor = Today] \in MaintainRecord
      <4>1. Today \in Int
        BY <1>1
      <4> QED BY <1>0, <4>1, RecordUpdate
    <3>3. maintain' = [maintain EXCEPT ![p] =
                         [maintain[p] EXCEPT !.pc = pc, !.cursor = Today]]
      BY <3>1
    <3> QED BY <3>2, <3>3 DEF MaintainRecord
  <2> QED BY <1>4, <2>1, <2>2 DEF RecheckPartitioned
<1>5. CASE ConvertTable(p)
  <2>1. maintain' \in [Scheduler -> [pc : MaintainPC, cursor : Int, end : Int,
                                     ok : BOOLEAN]]
    BY <1>5 DEF ConvertTable, MaintainPC
  <2>2. /\ parts' \subseteq Int
        /\ faultsLeft' \in Nat
        /\ partitioned' = TRUE \/ UNCHANGED <<partitioned, parts>>
    BY <1>5 DEF ConvertTable
  <2>3. CASE partitioned' = TRUE
    BY <1>5, <2>1, <2>2, <2>3 DEF ConvertTable
  <2>4. CASE UNCHANGED <<partitioned, parts>>
    BY <1>5, <2>1, <2>2, <2>4 DEF ConvertTable
  <2> QED BY <2>2, <2>3, <2>4
<1>6. CASE Gate(p)
  <2>1. faultsLeft' \in Nat
    BY <1>6, ListingType DEF Gate
  <2>2. maintain' \in [Scheduler -> [pc : MaintainPC, cursor : Int, end : Int,
                                     ok : BOOLEAN]]
    BY <1>6 DEF Gate, MaintainPC, IdleMaintain
  <2> QED BY <1>6, <2>1, <2>2 DEF Gate
<1>7. CASE Plan(p)
  <2>1. PICK seen \in BOOLEAN, last \in parts \union {Today - 1} :
          /\ Listing(seen)
          /\ maintain' = [maintain EXCEPT ![p] =
                            IF seen THEN [pc |-> "create", cursor |-> StartDay(last),
                                          end |-> Today + DaysAhead, ok |-> TRUE]
                            ELSE IdleMaintain]
    BY <1>7 DEF Plan
  <2>2. faultsLeft' \in Nat
    BY <2>1, ListingType
  <2>3. StartDay(last) \in Int
    BY <1>1, <2>1, RetentionAssumption DEF StartDay
  <2>4. maintain' \in [Scheduler -> [pc : MaintainPC, cursor : Int, end : Int,
                                     ok : BOOLEAN]]
    BY <1>1, <2>1, <2>3, RetentionAssumption DEF MaintainPC, IdleMaintain
  <2> QED BY <1>7, <2>2, <2>4 DEF Plan
<1>8. CASE CreatePartition(p)
  <2>1. maintain[p].cursor \in Int
    OBVIOUS
  <2>2. maintain' \in [Scheduler -> [pc : MaintainPC, cursor : Int, end : Int,
                                     ok : BOOLEAN]]
    <3>1. PICK ok \in BOOLEAN :
            maintain' = [maintain EXCEPT ![p].cursor = maintain[p].cursor + 1,
                                         ![p].ok = ok]
      <4>1. CASE maintain' = [maintain EXCEPT ![p].cursor = maintain[p].cursor + 1]
        BY <4>1, ZenonT(30)
      <4>2. CASE maintain' = [maintain EXCEPT ![p].cursor = maintain[p].cursor + 1,
                                              ![p].ok = FALSE]
        BY <4>2
      <4> QED BY <1>8, <4>1, <4>2 DEF CreatePartition
    <3>2. [maintain[p] EXCEPT !.cursor = maintain[p].cursor + 1, !.ok = ok]
            \in MaintainRecord
      <4>1. maintain[p].cursor + 1 \in Int
        BY <2>1
      <4> QED BY <1>0, <4>1, RecordUpdate
    <3>3. maintain' = [maintain EXCEPT ![p] =
                 [maintain[p] EXCEPT !.cursor = maintain[p].cursor + 1, !.ok = ok]]
      BY <3>1
    <3> QED BY <3>2, <3>3 DEF MaintainRecord
  <2>3. /\ parts' \subseteq Int
        /\ faultsLeft' \in Nat
        /\ parts' # {} => partitioned
    BY <1>8, <2>1 DEF CreatePartition, Acceptable
  <2> QED BY <1>8, <2>2, <2>3 DEF CreatePartition
<1>9. CASE EndMaintain(p)
  BY <1>9 DEF EndMaintain, MaintainPC, IdleMaintain
<1> QED
  BY <1>2, <1>3, <1>4, <1>5, <1>6, <1>7, <1>8, <1>9 DEF Maintain

\* The steps of the cleanup job keep the types.
LEMMA CleanupType ==
  ASSUME TypeOK, NEW p \in Scheduler, Cleanup(p)
  PROVE  TypeOK'
<1> USE DEF TypeOK, table, Fail, CanFail
<1>1. Today - Retention \in Int /\ now - 2 * Retention \in Int
  BY DayBounds, RetentionAssumption DEF Today
<1>2. CASE StartCleanup(p)
  BY <1>2 DEF StartCleanup, Job, CleanupPC
<1>3. CASE Choose(p)
  <2>1. faultsLeft' \in Nat
    BY <1>3, ListingType DEF Choose
  <2>2. cleanup' \in [Scheduler -> [pc : CleanupPC, limit : Int,
                                    victims : SUBSET Int]]
    <3>1. CASE cleanup' = [cleanup EXCEPT ![p] = [@ EXCEPT !.pc = "list"]]
      BY <3>1 DEF CleanupPC
    <3>2. CASE cleanup' = [cleanup EXCEPT ![p] =
                 [@ EXCEPT !.pc = "delete", !.limit = now - 2 * Retention]]
      BY <1>1, <3>2 DEF CleanupPC
    <3>3. CASE cleanup' = [cleanup EXCEPT ![p] = IdleCleanup]
      BY <3>3 DEF CleanupPC, IdleCleanup
    <3> QED BY <1>3, <3>1, <3>2, <3>3 DEF Choose
  <2> QED BY <1>3, <2>1, <2>2 DEF Choose
<1>4. CASE ListExpired(p)
  <2>1. faultsLeft' \in Nat
    BY <1>4, ListingType DEF ListExpired
  <2>2. {d \in parts : Expired(d)} \in SUBSET Int /\ {} \in SUBSET Int
    OBVIOUS
  <2>3. 2 * (Today - Retention) \in Int
    BY <1>1
  <2>4. cleanup' \in [Scheduler -> [pc : CleanupPC, limit : Int,
                                    victims : SUBSET Int]]
    <3>1. PICK victims \in SUBSET Int :
            cleanup' = [cleanup EXCEPT ![p].pc = "drop",
                                       ![p].limit = 2 * (Today - Retention),
                                       ![p].victims = victims]
      BY <1>4, <2>2 DEF ListExpired
    <3> QED BY <2>3, <3>1, ZenonT(30) DEF CleanupPC
  <2> QED BY <1>4, <2>1, <2>4 DEF ListExpired
<1>5. CASE DropPartition(p)
  <2>1. cleanup' \in [Scheduler -> [pc : CleanupPC, limit : Int,
                                    victims : SUBSET Int]]
    BY <1>5 DEF DropPartition
  <2>2. rows' \subseteq rows /\ parts' \subseteq parts /\ faultsLeft' \in Nat
    BY <1>5 DEF DropPartition
  <2> QED BY <1>5, <2>1, <2>2 DEF DropPartition
<1>6. CASE EndDrops(p)
  BY <1>6 DEF EndDrops, CleanupPC, IdleCleanup
<1>7. CASE DeleteBatch(p)
  BY <1>7 DEF DeleteBatch
<1>8. CASE EndDelete(p)
  BY <1>8 DEF EndDelete, CleanupPC, IdleCleanup
<1> QED
  BY <1>2, <1>3, <1>4, <1>5, <1>6, <1>7, <1>8 DEF Cleanup

\* The surroundings keep the types.
LEMMA SurroundingsType ==
  ASSUME TypeOK,
         \/ \E p \in Scheduler, j \in Job : MissJob(p, j)
         \/ \E p \in Scheduler : Crash(p)
         \/ Tick
         \/ UNCHANGED vars
  PROVE  TypeOK'
<1> USE DEF TypeOK, table, Fail, CanFail
<1>1. ASSUME NEW p \in Scheduler, NEW j \in Job, MissJob(p, j)
      PROVE  TypeOK'
  BY <1>1 DEF MissJob
<1>2. ASSUME NEW p \in Scheduler, Crash(p)
      PROVE  TypeOK'
  BY <1>2 DEF Crash, IdleMaintain, IdleCleanup, MaintainPC, CleanupPC
<1>3. CASE Tick
  <2>1. ran' \in [Scheduler -> SUBSET Job]
    BY <1>3 DEF Tick
  <2>2. now' \in Nat /\ rows' \subseteq 0..now'
    BY <1>3 DEF Tick
  <2> QED BY <1>3, <2>1, <2>2 DEF Tick
<1>4. CASE UNCHANGED vars
  BY <1>4 DEF vars
<1> QED BY <1>1, <1>2, <1>3, <1>4

LEMMA TypeStep == TypeOK /\ [Next]_vars => TypeOK'
BY MaintainType, CleanupType, SurroundingsType DEF Next, Finished

\* The table and the jobs keep their types; in particular only a partitioned
\* table ever has daily partitions.
THEOREM TypeCorrect == Spec => []TypeOK
<1>1. Init => TypeOK
  BY InitType
<1>2. QED
  BY <1>1, TypeStep, PTL DEF Spec
-----------------------------------------------------------------------------
(* No row is removed too early.                                            *)

\* A partition found expired holds nothing younger than the retention.
LEMMA ExpiredBound ==
  ASSUME TypeOK, NEW d \in Int, Expired(d)
  PROVE  UpperBound(d) <= now - 2 * Retention
<1>1. Today \in Nat /\ 2 * Today <= now /\ now \in Nat
  BY DayBounds DEF TypeOK, Today
<1> QED BY <1>1, RetentionAssumption DEF Expired, UpperBound

\* Time only goes on.
LEMMA NowGrows ==
  ASSUME TypeOK, [Next]_vars
  PROVE  now \in Nat /\ now' \in Nat /\ now <= now'
<1>1. now \in Nat
  BY DEF TypeOK
<1>2. now' = now \/ now' = now + 1
  BY DEF Next, vars, Maintain, StartMaintain, CheckPartitioned,
         RecheckPartitioned, ConvertTable, Gate, Plan, CreatePartition,
         EndMaintain, Cleanup, StartCleanup, Choose, ListExpired, DropPartition,
         EndDrops, DeleteBatch, EndDelete, MissJob, Crash, Tick, Finished
<1> QED BY <1>1, <1>2

\* What a job holds is what it held, less what it has dropped, or nothing, or
\* has just been found expired.
LEMMA HeldIsExpired ==
  ASSUME TypeOK, CleanupInv, [Next]_vars, NEW p \in Scheduler
  PROVE  /\ \A d \in cleanup'[p].victims : UpperBound(d) <= now - 2 * Retention
         /\ cleanup'[p].pc = "delete" =>
              cleanup'[p].limit <= now - 2 * Retention
<1> DEFINE Goal ==
      /\ \A d \in cleanup'[p].victims : UpperBound(d) <= now - 2 * Retention
      /\ cleanup'[p].pc = "delete" => cleanup'[p].limit <= now - 2 * Retention
<1>1. cleanup'[p] = cleanup[p] => Goal
  BY DEF CleanupInv
<1>2. cleanup'[p] = IdleCleanup => Goal
  BY DEF IdleCleanup
<1>3. now - 2 * Retention \in Int
  BY RetentionAssumption DEF TypeOK
<1>4. cleanup \in [Scheduler -> [pc : CleanupPC, limit : Int,
                                 victims : SUBSET Int]]
  BY DEF TypeOK
<1>5. ASSUME NEW q \in Scheduler, Cleanup(q)
      PROVE  Goal
  <2>1. CASE q # p
    BY <1>1, <1>4, <1>5, <2>1
    DEF Cleanup, StartCleanup, Choose, ListExpired, DropPartition, EndDrops,
        DeleteBatch, EndDelete
  <2>2. CASE q = p
    <3>1. CASE StartCleanup(p)
      BY <1>4, <3>1 DEF StartCleanup, CleanupInv
    <3>2. CASE Choose(p)
      <4>1. CASE cleanup' = [cleanup EXCEPT ![p] = [@ EXCEPT !.pc = "list"]]
        BY <1>4, <4>1 DEF CleanupInv
      <4>2. CASE cleanup' = [cleanup EXCEPT ![p] =
                   [@ EXCEPT !.pc = "delete", !.limit = now - 2 * Retention]]
        BY <1>3, <1>4, <4>2 DEF CleanupInv
      <4>3. CASE cleanup' = [cleanup EXCEPT ![p] = IdleCleanup]
        BY <1>2, <1>4, <4>3
      <4> QED BY <3>2, <4>1, <4>2, <4>3 DEF Choose
    <3>3. CASE ListExpired(p)
      <4>1. PICK seen \in BOOLEAN :
              cleanup' = [cleanup EXCEPT ![p].pc = "drop",
                            ![p].limit = 2 * (Today - Retention),
                            ![p].victims =
                               IF seen THEN {d \in parts : Expired(d)} ELSE {}]
        BY <3>3 DEF ListExpired
      <4>2. \A d \in parts : Expired(d) => UpperBound(d) <= now - 2 * Retention
        BY ExpiredBound DEF TypeOK
      <4>3. /\ cleanup'[p].pc = "drop"
            /\ cleanup'[p].victims \subseteq {d \in parts : Expired(d)}
        BY <1>4, <4>1
      <4> QED BY <4>2, <4>3
    <3>4. CASE DropPartition(p)
      <4>1. /\ cleanup'[p].victims \subseteq cleanup[p].victims
            /\ cleanup'[p].pc = "drop"
        BY <1>4, <3>4 DEF DropPartition
      <4> QED BY <4>1 DEF CleanupInv
    <3>5. CASE EndDrops(p) \/ EndDelete(p)
      BY <1>2, <1>4, <3>5 DEF EndDrops, EndDelete
    <3>6. CASE DeleteBatch(p)
      BY <1>1, <3>6 DEF DeleteBatch
    <3> QED BY <1>5, <2>2, <3>1, <3>2, <3>3, <3>4, <3>5, <3>6 DEF Cleanup
  <2> QED BY <2>1, <2>2
<1>6. ASSUME NEW q \in Scheduler, Maintain(q)
      PROVE  cleanup' = cleanup
  BY <1>6 DEF Maintain, StartMaintain, CheckPartitioned, RecheckPartitioned,
              ConvertTable, Gate, Plan, CreatePartition, EndMaintain
<1>7. ASSUME NEW q \in Scheduler, Crash(q)
      PROVE  Goal
  BY <1>1, <1>2, <1>4, <1>7 DEF Crash
<1>8. ASSUME \/ \E q \in Scheduler, j \in Job : MissJob(q, j)
             \/ Tick
             \/ Finished
             \/ UNCHANGED vars
      PROVE  cleanup' = cleanup
  BY <1>8 DEF MissJob, Tick, Finished, vars
<1> QED BY <1>1, <1>5, <1>6, <1>7, <1>8 DEF Next

LEMMA CleanupStep ==
  ASSUME TypeOK, CleanupInv, [Next]_vars
  PROVE  CleanupInv'
<1>1. now \in Nat /\ now' \in Nat /\ now <= now' /\ Retention \in Nat
  BY NowGrows, RetentionAssumption
<1>2. TypeOK'
  BY TypeStep
<1> SUFFICES ASSUME NEW p \in Scheduler
             PROVE  /\ \A d \in cleanup'[p].victims :
                         UpperBound(d) <= now' - 2 * Retention
                    /\ cleanup'[p].pc = "delete" =>
                         cleanup'[p].limit <= now' - 2 * Retention
  BY DEF CleanupInv, UpperBound
<1>3. cleanup'[p].victims \subseteq Int /\ cleanup'[p].limit \in Int
  BY <1>2 DEF TypeOK
<1>4. \A d \in cleanup'[p].victims : UpperBound(d) <= now' - 2 * Retention
  <2> TAKE d \in cleanup'[p].victims
  <2>1. UpperBound(d) <= now - 2 * Retention
    BY HeldIsExpired
  <2>2. UpperBound(d) \in Int
    BY <1>3 DEF UpperBound
  <2> QED BY <1>1, <2>1, <2>2
<1>5. cleanup'[p].pc = "delete" => cleanup'[p].limit <= now' - 2 * Retention
  BY <1>1, <1>3, HeldIsExpired
<1> QED BY <1>4, <1>5

\* A cleanup acts on what it read a while ago; that has expired all the same.
THEOREM CleanupHoldsExpired == Spec => []CleanupInv
<1>1. Init => CleanupInv
  BY DEF Init, CleanupInv, IdleCleanup
<1>2. TypeOK /\ CleanupInv /\ [Next]_vars => CleanupInv'
  BY CleanupStep
<1>3. QED
  BY <1>1, <1>2, TypeCorrect, PTL DEF Spec

\* For every retention period, number of schedulers, layout to begin with and
\* combination of failures: a row lives at least Retention days.
THEOREM NothingLostEarly == Spec => NoEarlyLoss
<1>1. ASSUME TypeOK, CleanupInv, [Next]_vars
      PROVE  [\A t \in rows \ rows' : t < now - 2 * Retention]_vars
  <2> SUFFICES ASSUME NEW t \in rows, t \notin rows'
               PROVE  t < now - 2 * Retention
    OBVIOUS
  <2>1. t \in Int /\ now - 2 * Retention \in Int
    BY <1>1, RetentionAssumption DEF TypeOK
  <2>2. ASSUME NEW p \in Scheduler, DropPartition(p)
        PROVE  t < now - 2 * Retention
    <3>1. PICK d \in cleanup[p].victims : rows' = {u \in rows : ~LivesIn(u, d)}
      BY <2>2 DEF DropPartition
    <3>2. t < UpperBound(d)
      BY <3>1 DEF LivesIn
    <3>3. UpperBound(d) <= now - 2 * Retention
      BY <1>1 DEF CleanupInv
    <3>4. UpperBound(d) \in Int
      BY <1>1 DEF TypeOK, UpperBound
    <3> QED BY <2>1, <3>2, <3>3, <3>4
  <2>3. ASSUME NEW p \in Scheduler, DeleteBatch(p)
        PROVE  t < now - 2 * Retention
    <3>1. t < cleanup[p].limit /\ cleanup[p].pc = "delete"
      BY <2>3 DEF DeleteBatch
    <3>2. cleanup[p].limit \in Int
      BY <1>1 DEF TypeOK
    <3> QED BY <1>1, <2>1, <3>1, <3>2 DEF CleanupInv
  <2>4. CASE Tick
    BY <2>4 DEF Tick
  <2>5. CASE rows' = rows
    BY <2>5
  <2>6. ASSUME NEW p \in Scheduler, Maintain(p)
        PROVE  rows' = rows
    BY <2>6 DEF Maintain, table, StartMaintain, CheckPartitioned,
                RecheckPartitioned, ConvertTable, Gate, Plan, CreatePartition,
                EndMaintain
  <2>7. ASSUME NEW p \in Scheduler, Cleanup(p)
        PROVE  t < now - 2 * Retention
    BY <2>2, <2>3, <2>7
    DEF Cleanup, table, StartCleanup, Choose, ListExpired, EndDrops, EndDelete
  <2>8. ASSUME \/ \E p \in Scheduler, j \in Job : MissJob(p, j)
               \/ \E p \in Scheduler : Crash(p)
               \/ Finished
               \/ UNCHANGED vars
        PROVE  rows' = rows
    BY <2>8 DEF MissJob, Crash, Finished, vars, table
  <2> QED BY <1>1, <2>4, <2>5, <2>6, <2>7, <2>8 DEF Next
<1>2. QED
  BY <1>1, TypeCorrect, CleanupHoldsExpired, PTL DEF Spec, NoEarlyLoss
-----------------------------------------------------------------------------
(* No table is converted twice, and maintenance leaves no gap.             *)

\* The table is partitioned and every process sees it: none will convert it.
NeverConverts ==
  /\ partitioned
  /\ \A p \in Scheduler : maintain[p].pc \notin {"recheck", "convert"}

\* From a partitioned table that can be listed, no process goes on to convert.
LEMMA NeverConvertsStep ==
  ASSUME "listFails" \notin Faults, TypeOK, NeverConverts, [Next]_vars
  PROVE  NeverConverts'
<1>1. maintain \in [Scheduler -> [pc : MaintainPC, cursor : Int, end : Int,
                                  ok : BOOLEAN]]
  BY DEF TypeOK
<1>2. ASSUME NEW seen \in BOOLEAN, Listing(seen)
      PROVE  seen = TRUE
  BY <1>2 DEF Listing, Fail, CanFail, NeverConverts
<1>3. ASSUME NEW p \in Scheduler, Maintain(p)
      PROVE  NeverConverts'
  <2>1. maintain[p].pc \notin {"recheck", "convert"}
    BY DEF NeverConverts
  <2>2. partitioned'
    BY <1>3 DEF Maintain, StartMaintain, CheckPartitioned, RecheckPartitioned,
                ConvertTable, Gate, Plan, CreatePartition, EndMaintain, table,
                NeverConverts
  <2>3. \A q \in Scheduler \ {p} : maintain'[q] = maintain[q]
    BY <1>1, <1>3
    DEF Maintain, StartMaintain, CheckPartitioned, RecheckPartitioned,
        ConvertTable, Gate, Plan, CreatePartition, EndMaintain
  <2>4. maintain'[p].pc \in {"check", "gate", "plan", "create", "idle"}
    <3>1. CASE CheckPartitioned(p)
      BY <1>1, <1>2, <3>1 DEF CheckPartitioned
    <3>2. CASE Gate(p)
      BY <1>1, <3>2 DEF Gate, IdleMaintain
    <3>3. CASE Plan(p)
      BY <1>1, <3>3 DEF Plan, IdleMaintain
    <3>4. CASE CreatePartition(p)
      BY <1>1, <3>4 DEF CreatePartition
    <3>5. CASE StartMaintain(p) \/ EndMaintain(p)
      BY <1>1, <3>5 DEF StartMaintain, EndMaintain, IdleMaintain
    <3> QED
      BY <1>3, <2>1, <3>1, <3>2, <3>3, <3>4, <3>5
      DEF Maintain, RecheckPartitioned, ConvertTable
  <2> QED BY <2>2, <2>3, <2>4 DEF NeverConverts
<1>4. ASSUME NEW p \in Scheduler, Cleanup(p)
      PROVE  NeverConverts'
  BY <1>4 DEF Cleanup, StartCleanup, Choose, ListExpired, DropPartition,
              EndDrops, DeleteBatch, EndDelete, NeverConverts, table
<1>5. ASSUME NEW p \in Scheduler, Crash(p)
      PROVE  NeverConverts'
  BY <1>1, <1>5 DEF Crash, IdleMaintain, NeverConverts, table
<1>6. ASSUME \/ \E p \in Scheduler, j \in Job : MissJob(p, j)
             \/ Tick
             \/ Finished
             \/ UNCHANGED vars
      PROVE  NeverConverts'
  BY <1>6 DEF MissJob, Tick, Finished, vars, table, NeverConverts
<1> QED BY <1>3, <1>4, <1>5, <1>6 DEF Next

LEMMA NeverConvertsAlways ==
  ASSUME "listFails" \notin Faults, \A layout \in Layouts : layout.partitioned
  PROVE  Spec => []NeverConverts
<1>1. Init => NeverConverts
  BY DEF Init, NeverConverts, IdleMaintain
<1>2. TypeOK /\ NeverConverts /\ [Next]_vars => NeverConverts'
  BY NeverConvertsStep
<1>3. QED
  BY <1>1, <1>2, TypeCorrect, PTL DEF Spec

\* The race on the conversion and the unreadable listing are the only ways to
\* lose a layout: a table that begins partitioned, and that every process can
\* list, keeps each partition until it has expired.
THEOREM LayoutKeptIfListed ==
  ASSUME "listFails" \notin Faults, \A layout \in Layouts : layout.partitioned
  PROVE  Spec => LayoutKept
<1>1. ASSUME TypeOK, CleanupInv, NeverConverts, [Next]_vars
      PROVE  [\A d \in parts \ parts' : UpperBound(d) <= now - 2 * Retention]_vars
  <2> SUFFICES ASSUME NEW d \in parts, d \notin parts'
               PROVE  UpperBound(d) <= now - 2 * Retention
    OBVIOUS
  <2>1. ASSUME NEW p \in Scheduler, Maintain(p)
        PROVE  parts \subseteq parts'
    BY <1>1, <2>1
    DEF Maintain, table, StartMaintain, CheckPartitioned, RecheckPartitioned,
        ConvertTable, Gate, Plan, CreatePartition, EndMaintain, NeverConverts
  <2>2. ASSUME NEW p \in Scheduler, DropPartition(p)
        PROVE  UpperBound(d) <= now - 2 * Retention
    BY <1>1, <2>2 DEF DropPartition, CleanupInv
  <2>3. ASSUME NEW p \in Scheduler, Cleanup(p), ~DropPartition(p)
        PROVE  parts' = parts
    BY <2>3 DEF Cleanup, table, StartCleanup, Choose, ListExpired, EndDrops,
                DeleteBatch, EndDelete
  <2>4. ASSUME \/ \E p \in Scheduler, j \in Job : MissJob(p, j)
               \/ \E p \in Scheduler : Crash(p)
               \/ Tick
               \/ Finished
               \/ UNCHANGED vars
        PROVE  parts' = parts
    BY <2>4 DEF MissJob, Crash, Tick, Finished, vars, table
  <2> QED BY <1>1, <2>1, <2>2, <2>3, <2>4 DEF Next
<1>2. Spec => []NeverConverts
  BY NeverConvertsAlways
<1>3. QED
  BY <1>1, <1>2, TypeCorrect, CleanupHoldsExpired, PTL DEF Spec, LayoutKept

\* From the retention horizon up to the last partition, no day is missing.
Gapless(days, today) ==
  \A d \in Int : (d >= today - Retention /\ \E e \in days : d <= e) => d \in days

\* The same, and each run of the loop has left no day out behind its cursor.
GapInv ==
  /\ Gapless(parts, Today)
  /\ \A p \in Scheduler : maintain[p].pc = "create" =>
       \A d \in Int : (d >= Today - Retention /\ d < maintain[p].cursor)
                      => d \in parts

\* Today moves on only.
LEMMA TodayGrows ==
  ASSUME TypeOK, [Next]_vars
  PROVE  Today \in Nat /\ Today' \in Nat /\ Today <= Today'
<1>1. now \in Nat /\ now' \in Nat /\ now <= now'
  BY NowGrows
<1> DEFINE a == DayOf(now)
           b == DayOf(now')
<1>2. a \in Nat /\ 2 * a <= now
  BY <1>1, DayBounds
<1>3. b \in Nat /\ now' < 2 * (b + 1)
  BY <1>1, DayBounds DEF UpperBound
<1>4. Today = a /\ Today' = b
  BY DEF Today
<1> HIDE DEF a, b
<1>5. a <= b
  BY <1>1, <1>2, <1>3
<1> QED BY <1>2, <1>3, <1>4, <1>5

LEMMA HorizonGrows ==
  ASSUME NEW a \in Nat, NEW b \in Nat, a <= b, NEW r \in Nat, NEW d \in Int,
         d >= b - r
  PROVE  d >= a - r
OBVIOUS

\* A step that keeps the partitions within retention, and starts no loop.
LEMMA GapKept ==
  ASSUME TypeOK, GapInv, [Next]_vars,
         parts' \subseteq parts,
         \A d \in parts \ parts' : d < Today - Retention,
         \A p \in Scheduler : maintain'[p].pc = "create" =>
           maintain[p].pc = "create" /\ maintain'[p].cursor = maintain[p].cursor
  PROVE  GapInv'
<1>1. Today \in Nat /\ Today' \in Nat /\ Today <= Today' /\ Retention \in Nat
  BY TodayGrows, RetentionAssumption
<1>2. ASSUME NEW d \in Int, d >= Today' - Retention
      PROVE  d >= Today - Retention /\ (d \in parts => d \in parts')
  <2>1. d >= Today - Retention
    BY <1>1, <1>2, HorizonGrows
  <2>2. ~(d < Today - Retention)
    BY <1>1, <2>1
  <2> QED BY <2>1, <2>2
<1>3. Gapless(parts', Today')
  BY <1>2 DEF GapInv, Gapless
<1>4. ASSUME NEW p \in Scheduler, maintain'[p].pc = "create", NEW d \in Int,
             d >= Today' - Retention, d < maintain'[p].cursor
      PROVE  d \in parts'
  BY <1>2, <1>4 DEF GapInv
<1> QED BY <1>3, <1>4 DEF GapInv, Gapless

\* The loop begins where the partitions end, or at the horizon.
LEMMA PlanGapless ==
  ASSUME TypeOK, GapInv, parts # {}, NEW p \in Scheduler, Plan(p), [Next]_vars
  PROVE  GapInv'
<1>1. PICK seen \in BOOLEAN, last \in parts \union {Today - 1} :
        /\ LastDaily(last)
        /\ maintain' = [maintain EXCEPT ![p] =
             IF seen THEN [pc |-> "create", cursor |-> StartDay(last),
                           end |-> Today + DaysAhead, ok |-> TRUE]
             ELSE IdleMaintain]
  BY DEF Plan
<1>2. /\ Today \in Nat /\ Retention \in Nat
      /\ last \in parts /\ last \in Int
      /\ Today' = Today /\ parts' = parts
  BY TodayGrows, RetentionAssumption, <1>1
  DEF LastDaily, TypeOK, Plan, Today, table
<1>3. Gapless(parts', Today')
  BY <1>2 DEF GapInv
<1>4. ASSUME NEW q \in Scheduler, maintain'[q].pc = "create", NEW d \in Int,
             d >= Today' - Retention, d < maintain'[q].cursor
      PROVE  d \in parts'
  <2>1. CASE q # p
    <3>1. maintain'[q] = maintain[q]
      BY <1>1, <2>1 DEF TypeOK
    <3> QED BY <1>2, <1>4, <3>1 DEF GapInv
  <2>2. CASE q = p
    <3>1. maintain'[p].cursor = StartDay(last)
      BY <1>1, <1>4, <2>2 DEF TypeOK, IdleMaintain
    <3>2. d <= last
      BY <1>2, <1>4, <2>2, <3>1 DEF StartDay
    <3> QED BY <1>2, <1>4, <3>2 DEF GapInv, Gapless
  <2> QED BY <2>1, <2>2
<1> QED BY <1>3, <1>4 DEF GapInv, Gapless

\* A turn of the loop creates the day at its cursor, or finds it there.
LEMMA CreateGapless ==
  ASSUME "ddlFails" \notin Faults, TypeOK, NeverConverts, GapInv,
         NEW p \in Scheduler, CreatePartition(p), [Next]_vars
  PROVE  GapInv'
<1> DEFINE c == maintain[p].cursor
<1>1. /\ c \in Int /\ Today \in Nat /\ Retention \in Nat /\ Today' = Today
      /\ maintain[p].pc = "create" /\ parts \subseteq Int
  BY TodayGrows, RetentionAssumption DEF TypeOK, CreatePartition, Today
<1>2. maintain' = [maintain EXCEPT ![p].cursor = c + 1]
  BY DEF CreatePartition, Fail, CanFail
<1>3. \/ Acceptable(c) /\ parts' = parts \union {c}
      \/ ~Acceptable(c) /\ parts' = parts
  BY DEF CreatePartition, Fail, CanFail
<1>4. \A d \in Int : (d >= Today - Retention /\ d < c) => d \in parts
  BY <1>1 DEF GapInv
<1>5. c >= Today - Retention => c \in parts'
  <2>1. ASSUME ~Acceptable(c), c >= Today - Retention
        PROVE  c \in parts
    <3>1. PICK e \in parts : ~(e < c)
      BY <2>1 DEF Acceptable, NeverConverts
    <3>2. c <= e
      BY <1>1, <3>1
    <3> QED BY <1>1, <2>1, <3>2 DEF GapInv, Gapless
  <2> QED BY <1>3, <2>1
<1> HIDE DEF c
<1>6. Gapless(parts', Today')
  <2> SUFFICES ASSUME NEW d \in Int, d >= Today - Retention,
                      NEW e \in parts', d <= e
               PROVE  d \in parts'
    BY <1>1 DEF Gapless
  <2>1. CASE e \in parts
    BY <1>3, <2>1 DEF GapInv, Gapless
  <2>2. CASE e = c
    <3>1. d < c \/ d = c
      BY <1>1, <2>2
    <3> QED BY <1>3, <1>4, <1>5, <3>1
  <2> QED BY <1>3, <2>1, <2>2
<1>7. ASSUME NEW q \in Scheduler, maintain'[q].pc = "create", NEW d \in Int,
             d >= Today' - Retention, d < maintain'[q].cursor
      PROVE  d \in parts'
  <2>1. CASE q # p
    <3>1. maintain'[q] = maintain[q]
      BY <1>2, <2>1 DEF TypeOK
    <3> QED BY <1>1, <1>3, <1>7, <3>1 DEF GapInv
  <2>2. CASE q = p
    <3>1. maintain'[p].cursor = c + 1
      BY <1>2, <2>2 DEF TypeOK
    <3>2. d < c \/ d = c
      BY <1>1, <1>7, <2>2, <3>1
    <3> QED BY <1>1, <1>3, <1>4, <1>5, <1>7, <3>2
  <2> QED BY <2>1, <2>2
<1> QED BY <1>6, <1>7 DEF GapInv, Gapless

LEMMA GapStep ==
  ASSUME Faults \intersect {"listFails", "ddlFails"} = {},
         TypeOK, CleanupInv, NeverConverts, GapInv, parts # {}, [Next]_vars
  PROVE  GapInv'
<1>1. maintain \in [Scheduler -> [pc : MaintainPC, cursor : Int, end : Int,
                                  ok : BOOLEAN]]
  BY DEF TypeOK
<1>2. ASSUME parts' = parts,
             \A p \in Scheduler : maintain'[p].pc = "create" =>
                                    maintain'[p] = maintain[p]
      PROVE  GapInv'
  BY <1>2, GapKept
<1>3. ASSUME NEW p \in Scheduler, Maintain(p), ~Plan(p), ~CreatePartition(p)
      PROVE  GapInv'
  <2>1. parts' = parts
    BY <1>3 DEF Maintain, StartMaintain, CheckPartitioned, RecheckPartitioned,
                ConvertTable, Gate, EndMaintain, table, NeverConverts
  <2>2. \A q \in Scheduler \ {p} : maintain'[q] = maintain[q]
    BY <1>1, <1>3 DEF Maintain, StartMaintain, CheckPartitioned,
                      RecheckPartitioned, ConvertTable, Gate, EndMaintain
  <2>3. maintain'[p].pc # "create"
    <3>1. CASE StartMaintain(p) \/ EndMaintain(p)
      BY <1>1, <3>1 DEF StartMaintain, EndMaintain, IdleMaintain
    <3>2. CASE CheckPartitioned(p)
      BY <1>1, <3>2 DEF CheckPartitioned
    <3>3. CASE Gate(p)
      BY <1>1, <3>3 DEF Gate, IdleMaintain
    <3>4. CASE RecheckPartitioned(p) \/ ConvertTable(p)
      BY <3>4 DEF RecheckPartitioned, ConvertTable, NeverConverts
    <3> QED BY <1>3, <3>1, <3>2, <3>3, <3>4 DEF Maintain
  <2> QED BY <1>2, <2>1, <2>2, <2>3
<1>4. ASSUME NEW p \in Scheduler, DropPartition(p)
      PROVE  GapInv'
  <2>1. PICK d \in cleanup[p].victims : parts' \in {parts, parts \ {d}}
    BY <1>4 DEF DropPartition
  <2>2. d < Today - Retention
    <3>1. UpperBound(d) <= now - 2 * Retention /\ d \in Int
      BY DEF CleanupInv, TypeOK
    <3>2. now \in Nat /\ now < UpperBound(Today)
      BY DayBounds DEF TypeOK, Today
    <3> QED BY <3>1, <3>2, RetentionAssumption, TodayGrows DEF UpperBound
  <2>3. maintain' = maintain
    BY <1>4 DEF DropPartition
  <2> QED BY <2>1, <2>2, <2>3, GapKept
<1>5. ASSUME NEW p \in Scheduler, Cleanup(p), ~DropPartition(p)
      PROVE  GapInv'
  <2>1. parts' = parts /\ maintain' = maintain
    BY <1>5 DEF Cleanup, table, StartCleanup, Choose, ListExpired, EndDrops,
                DeleteBatch, EndDelete
  <2> QED BY <1>2, <2>1
<1>6. ASSUME NEW p \in Scheduler, Crash(p)
      PROVE  GapInv'
  <2>1. parts' = parts
    BY <1>6 DEF Crash, table
  <2>2. \A q \in Scheduler : maintain'[q] \in {maintain[q], IdleMaintain}
    BY <1>1, <1>6 DEF Crash
  <2>3. IdleMaintain.pc # "create"
    BY DEF IdleMaintain
  <2> QED BY <1>2, <2>1, <2>2, <2>3
<1>7. ASSUME \/ \E p \in Scheduler, j \in Job : MissJob(p, j)
             \/ Tick
             \/ Finished
             \/ UNCHANGED vars
      PROVE  GapInv'
  <2>1. parts' = parts /\ maintain' = maintain
    BY <1>7 DEF MissJob, Tick, Finished, vars, table
  <2> QED BY <1>2, <2>1
<1> QED
  BY <1>3, <1>4, <1>5, <1>6, <1>7, PlanGapless, CreateGapless DEF Next

\* However many runs are missed, broken off or raced by those of other
\* processes, a run of the maintenance that goes through leaves every day from
\* the retention horizon to its last with a partition of its own, as long as
\* the cleanup never gets to drop the last partition there is (then the loop
\* begins today, and the days before share its partition) and no ALTER TABLE
\* has failed.
THEOREM GapsAreFilled ==
  ASSUME Faults \intersect {"listFails", "ddlFails"} = {},
         \A layout \in Layouts :
           layout.partitioned /\ Gapless(layout.parts, FirstDay)
  PROVE  Spec /\ [](parts # {}) => []GapFilled
<1>1. Init => GapInv
  <2> SUFFICES ASSUME Init PROVE GapInv
    OBVIOUS
  <2>1. Today = FirstDay
    BY RetentionAssumption DEF Init, Today, DayOf
  <2>2. Gapless(parts, FirstDay)
    BY DEF Init
  <2> QED BY <2>1, <2>2 DEF Init, GapInv, IdleMaintain
<1>2. TypeOK /\ CleanupInv /\ NeverConverts /\ GapInv /\ parts # {}
        /\ [Next]_vars => GapInv'
  BY GapStep
<1>3. Spec => []NeverConverts
  BY NeverConvertsAlways
<1>4. TypeOK /\ GapInv => GapFilled
  <2> SUFFICES ASSUME TypeOK, GapInv, NEW p \in Scheduler,
                      maintain[p].pc = "create",
                      maintain[p].cursor > maintain[p].end,
                      NEW d \in (Today - Retention)..maintain[p].end
               PROVE  LivesIn(2 * d, d) /\ LivesIn(2 * d + 1, d)
    BY DEF GapFilled
  <2>1. /\ Today \in Nat /\ Retention \in Nat /\ parts \subseteq Int
        /\ maintain[p].cursor \in Int /\ maintain[p].end \in Int
    BY RetentionAssumption, DayBounds DEF TypeOK, Today
  <2>2. d \in Int /\ d >= Today - Retention /\ d < maintain[p].cursor
    BY <2>1
  <2>3. d \in parts
    BY <2>2 DEF GapInv
  <2> QED BY <2>1, <2>2, <2>3 DEF LivesIn, UpperBound
<1>5. QED
  BY <1>1, <1>2, <1>3, <1>4, TypeCorrect, CleanupHoldsExpired, PTL DEF Spec
=============================================================================
