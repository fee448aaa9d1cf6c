------------------------ MODULE AgentPipelineProofs -------------------------
(***************************************************************************)
(* Theorems about AgentPipeline, for every set of servers and threads,     *)
(* every semaphore limit, every bound and every set of faults.             *)
(*                                                                         *)
(* First what the semaphore, the threads and the faults may do; then what  *)
(* the database says of the samples, whatever is lost, duplicated or       *)
(* reordered on the way; last where the samples are: at most in one place  *)
(* and never nowhere.                                                      *)
(***************************************************************************)
EXTENDS AgentPipeline, FiniteSetTheorems, SequenceTheorems, TLAPS

\* ingest_metrics maps rows to rows.
LEMMA IngestType ==
  ASSUME NEW row \in Row, NEW bytes \in Nat
  PROVE  Ingest(row, bytes) \in Row
BY DEF Ingest, Row

\* Writing back changed columns yields a row.
LEMMA OverlayType ==
  ASSUME NEW current \in Row, NEW loaded \in Row, NEW new \in Row
  PROVE  Overlay(current, loaded, new) \in Row
BY DEF Overlay, Column, Row

\* A commit keeps the types of what it writes.
LEMMA CommitType ==
  ASSUME TypeOK, NEW m \in Sample, NEW row \in Row, CommitSample(m, row)
  PROVE  /\ db' \in [Server -> Row]
         /\ probes' \in [Server -> Seq(1..MaxPush)]
         /\ stale' \in [Server -> BOOLEAN]
<1>1. m[1] \in Server /\ m[2] \in 1..MaxPush
  BY DEF Sample
<1>2. reading[m[1]][m[2]] \in Nat
  BY <1>1, PipelineAssumption DEF TypeOK
<1>3. Ingest(row, reading[m[1]][m[2]]) \in Row
  BY <1>2, IngestType
<1>4. db[m[1]] \in Row
  BY <1>1 DEF TypeOK
<1>5. Overlay(db[m[1]], row, Ingest(row, reading[m[1]][m[2]])) \in Row
  BY <1>3, <1>4, OverlayType
<1>6. db' \in [Server -> Row]
  BY <1>5 DEF CommitSample, TypeOK
<1>7. Append(probes[m[1]], m[2]) \in Seq(1..MaxPush)
  BY <1>1 DEF TypeOK
<1>8. probes' \in [Server -> Seq(1..MaxPush)]
  BY <1>7 DEF CommitSample, TypeOK
<1>9. stale' \in [Server -> BOOLEAN]
  BY DEF CommitSample, TypeOK
<1> QED BY <1>6, <1>8, <1>9
-----------------------------------------------------------------------------
(* Type correctness.                                                       *)

LEMMA InitType == Init => TypeOK
<1> SUFFICES ASSUME Init PROVE TypeOK
  OBVIOUS
<1>1. EmptyRow \in Row
  BY DEF EmptyRow, Row
<1>2. QED
  BY <1>1, PipelineAssumption
  DEF Init, TypeOK, RequestType, ConsumerType, IdleRequest, IdleConsumer,
      ThreadPC, ConsumerPC

\* Moving a busy request on keeps the type of request.
LEMMA GotoType ==
  ASSUME RequestType, NEW t \in Thread, NEW from, from # "idle",
         NEW to \in ThreadPC, to # "idle", Goto(t, from, to)
  PROVE  RequestType' /\ request[t].sample \in Sample /\ request[t].row \in Row
<1>1. request[t].sample \in Sample /\ request[t].row \in Row
  BY DEF RequestType, Goto
<1>2. request' \in [Thread -> [pc : ThreadPC, sample : Sample \union {NoSample},
                               row : Row]]
  BY DEF RequestType, Goto
<1>3. ASSUME NEW u \in Thread
      PROVE  request'[u].sample = NoSample <=> request'[u].pc = "idle"
  BY DEF RequestType, Goto
<1> QED BY <1>1, <1>2, <1>3 DEF RequestType

\* Answering a request keeps the types of request and waiting.
LEMMA ReplyType ==
  ASSUME RequestType, waiting \in [Server -> BOOLEAN], NEW t \in Thread,
         request[t].sample \in Sample, Reply(t)
  PROVE  RequestType' /\ waiting' \in [Server -> BOOLEAN]
<1>1. IdleRequest \in [pc : ThreadPC, sample : Sample \union {NoSample},
                       row : Row]
  BY DEF IdleRequest, EmptyRow, Row, ThreadPC
<1>2. request' \in [Thread -> [pc : ThreadPC, sample : Sample \union {NoSample},
                               row : Row]]
  BY <1>1 DEF RequestType, Reply
<1>3. ASSUME NEW u \in Thread
      PROVE  request'[u].sample = NoSample <=> request'[u].pc = "idle"
  <2>1. CASE u = t
    BY <2>1 DEF RequestType, Reply, IdleRequest
  <2>2. CASE u # t
    BY <2>2 DEF RequestType, Reply
  <2> QED BY <2>1, <2>2
<1>4. waiting' \in [Server -> BOOLEAN]
  BY Zenon DEF Reply
<1> QED BY <1>2, <1>3, <1>4 DEF RequestType

\* Every step of a request thread keeps the types.
LEMMA PushType ==
  ASSUME TypeOK, NEW t \in Thread, Push(t)
  PROVE  TypeOK'
<1> USE DEF TypeOK, redisVars, serverVars, ghostVars, Fail, CanFail
<1>1. CASE Authenticate(t)
  <2>1. /\ request[t].sample \in Sample
        /\ request[t].row \in Row
        /\ db[request[t].sample[1]] \in Row
    BY <1>1 DEF Authenticate, RequestType, Sample
  <2>2. request' \in [Thread -> [pc : ThreadPC, sample : Sample \union {NoSample},
                                 row : Row]]
    BY <1>1, <2>1, ZenonT(30) DEF Authenticate, RequestType, ThreadPC
  <2>3. ASSUME NEW u \in Thread
        PROVE  request'[u].sample = NoSample <=> request'[u].pc = "idle"
    BY <1>1 DEF Authenticate, RequestType
  <2>4. RequestType'
    BY <2>2, <2>3 DEF RequestType
  <2> QED BY <1>1, <2>4, Zenon DEF Authenticate, ConsumerType
<1>2. CASE Enqueue(t)
  <2>1. RequestType' /\ request[t].sample \in Sample
    BY <1>2, GotoType DEF Enqueue, ThreadPC
  <2> QED BY <1>2, <2>1 DEF Enqueue, ConsumerType
<1>3. CASE EnqueueTwice(t)
  <2>1. RequestType' /\ request[t].sample \in Sample
    BY <1>3, GotoType DEF EnqueueTwice, ThreadPC
  <2> QED BY <1>3, <2>1 DEF EnqueueTwice, ConsumerType
<1>4. CASE EnqueueUnknown(t)
  <2>1. RequestType' /\ request[t].sample \in Sample
    BY <1>4, GotoType DEF EnqueueUnknown, ThreadPC
  <2> QED BY <1>4, <2>1 DEF EnqueueUnknown, ConsumerType
<1>5. CASE EnqueueFails(t)
  <2>1. RequestType' /\ request[t].sample \in Sample
    BY <1>5, GotoType DEF EnqueueFails, ThreadPC
  <2> QED BY <1>5, <2>1 DEF EnqueueFails, ConsumerType
<1>6. CASE AcquirePermit(t)
  <2>1. RequestType' /\ request[t].sample \in Sample
    BY <1>6, GotoType DEF AcquirePermit, ThreadPC
  <2> QED BY <1>6, <2>1 DEF AcquirePermit, ConsumerType
<1>7. CASE LoadShed(t)
  <2>1. RequestType' /\ request[t].sample \in Sample
    BY <1>7, GotoType DEF LoadShed, ThreadPC
  <2> QED BY <1>7, <2>1 DEF LoadShed, ConsumerType
<1>8. CASE FallbackCommit(t)
  <2>1. RequestType' /\ request[t].sample \in Sample /\ request[t].row \in Row
    BY <1>8, GotoType DEF FallbackCommit, ThreadPC
  <2>2. /\ db' \in [Server -> Row]
        /\ probes' \in [Server -> Seq(1..MaxPush)]
        /\ stale' \in [Server -> BOOLEAN]
    BY <1>8, <2>1, CommitType DEF FallbackCommit
  <2> QED BY <1>8, <2>1, <2>2 DEF FallbackCommit, ConsumerType
<1>9. CASE FallbackFail(t)
  <2>1. request[t].sample \in Sample /\ request[t].row \in Row
    BY <1>9 DEF FallbackFail, RequestType
  <2>2. RequestType' /\ waiting' \in [Server -> BOOLEAN]
    BY <1>9, <2>1, ReplyType DEF FallbackFail, FallbackRaises
  <2> QED BY <1>9, <2>1, <2>2 DEF FallbackFail, FallbackRaises, ConsumerType
<1>10. CASE FallbackCommitUnknown(t)
  <2>1. request[t].sample \in Sample /\ request[t].row \in Row
    BY <1>10 DEF FallbackCommitUnknown, RequestType
  <2>2. RequestType' /\ waiting' \in [Server -> BOOLEAN]
    BY <1>10, <2>1, ReplyType DEF FallbackCommitUnknown, FallbackRaises
  <2>3. /\ db' \in [Server -> Row]
        /\ probes' \in [Server -> Seq(1..MaxPush)]
        /\ stale' \in [Server -> BOOLEAN]
    BY <1>10, <2>1, CommitType DEF FallbackCommitUnknown
  <2> QED BY <1>10, <2>1, <2>2, <2>3 DEF FallbackCommitUnknown, FallbackRaises, ConsumerType
<1>11. CASE Respond(t)
  <2>1. request[t].sample \in Sample
    BY <1>11 DEF Respond, RequestType
  <2>2. RequestType' /\ waiting' \in [Server -> BOOLEAN]
    BY <1>11, <2>1, ReplyType DEF Respond
  <2> QED BY <1>11, <2>2 DEF Respond, ConsumerType
<1> QED
  BY <1>1, <1>2, <1>3, <1>4, <1>5, <1>6, <1>7, <1>8, <1>9, <1>10, <1>11 DEF Push

\* A consumer record that is idle, or busy with a sample, has the right type.
LEMMA ConsumerRecord ==
  ASSUME NEW pc \in ConsumerPC, NEW sample \in Sample \union {NoSample},
         NEW row \in Row, sample = NoSample <=> pc = "polling",
         consumer' = [pc |-> pc, sample |-> sample, row |-> row]
  PROVE  ConsumerType'
BY DEF ConsumerType

LEMMA ConsumerRests ==
  ASSUME consumer' = IdleConsumer
  PROVE  ConsumerType'
<1>1. EmptyRow \in Row
  BY DEF EmptyRow, Row
<1> QED BY <1>1, ConsumerRecord DEF IdleConsumer, ConsumerPC

LEMMA ConsumerMoves ==
  ASSUME ConsumerType, consumer.pc # "polling", NEW pc \in ConsumerPC,
         pc # "polling", consumer' = [consumer EXCEPT !.pc = pc]
  PROVE  ConsumerType'
BY DEF ConsumerType

\* Every step of the consumer keeps the types.
LEMMA ConsumeType ==
  ASSUME TypeOK, Consume \/ ConsumerCrash
  PROVE  TypeOK'
<1> USE DEF TypeOK, redisVars, serverVars, ghostVars, Fail, CanFail
<1>1. consumer.pc # "polling" =>
        consumer.sample \in Sample /\ consumer.row \in Row
  BY DEF ConsumerType
<1>2. queue # << >> => Newest \in Sample /\ WithoutNewest \in Seq(Sample)
  BY DEF Newest, WithoutNewest
<1>3. EmptyRow \in Row
  BY DEF EmptyRow, Row
<1>4. CASE Pop
  <2>1. ConsumerType'
    BY <1>2, <1>3, <1>4, ConsumerRecord, PipelineAssumption
    DEF Pop, ConsumerPC, Sample
  <2> QED BY <1>2, <1>4, <2>1 DEF Pop, RequestType
<1>5. CASE PopLost
  BY <1>2, <1>5 DEF PopLost, RequestType, ConsumerType
<1>6. CASE Load
  <2>1. db[consumer.sample[1]] \in Row
    BY <1>1, <1>6 DEF Load, Sample
  <2>2. consumer' = [pc |-> "loaded", sample |-> consumer.sample,
                     row |-> db[consumer.sample[1]]]
    BY <1>6 DEF Load, ConsumerType
  <2>3. ConsumerType'
    BY <1>1, <1>6, <2>1, <2>2, ConsumerRecord, PipelineAssumption
    DEF Load, ConsumerPC, Sample
  <2> QED BY <1>6, <2>3 DEF Load, RequestType
<1>7. CASE Commit
  <2>1. /\ db' \in [Server -> Row]
        /\ probes' \in [Server -> Seq(1..MaxPush)]
        /\ stale' \in [Server -> BOOLEAN]
    BY <1>1, <1>7, CommitType DEF Commit
  <2> QED BY <1>7, <2>1, ConsumerRests DEF Commit, RequestType
<1>8. CASE CommitFails
  <2>1. ConsumerType'
    BY <1>8, ConsumerMoves DEF CommitFails, ConsumerPC
  <2> QED BY <1>8, <2>1 DEF CommitFails, RequestType
<1>9. CASE CommitUnknown
  <2>1. /\ db' \in [Server -> Row]
        /\ probes' \in [Server -> Seq(1..MaxPush)]
        /\ stale' \in [Server -> BOOLEAN]
    BY <1>1, <1>9, CommitType DEF CommitUnknown
  <2>2. ConsumerType'
    BY <1>9, ConsumerMoves DEF CommitUnknown, ConsumerPC
  <2> QED BY <1>1, <1>9, <2>1, <2>2 DEF CommitUnknown, RequestType
<1>10. CASE Park
  BY <1>1, <1>10, ConsumerRests DEF Park, RequestType
<1>11. CASE ParkFails
  BY <1>1, <1>11, ConsumerRests DEF ParkFails, RequestType
<1>12. CASE ConsumerCrash
  BY <1>1, <1>12, ConsumerRests DEF ConsumerCrash, RequestType
<1> QED
  BY <1>4, <1>5, <1>6, <1>7, <1>8, <1>9, <1>10, <1>11, <1>12 DEF Consume

\* Every step of an agent, of Redis, and a restart of the API keeps the types.
LEMMA OutsideType ==
  ASSUME TypeOK,
         \/ \E s \in Server, t \in Thread : AgentPush(s, t)
         \/ \E s \in Server : AgentTimeout(s)
         \/ ApiRestart
         \/ RedisDown
         \/ RedisBack
  PROVE  TypeOK'
<1> USE DEF TypeOK, redisVars, serverVars, ghostVars, Fail, CanFail
<1>1. EmptyRow \in Row
  BY DEF EmptyRow, Row
<1>2. ASSUME NEW s \in Server, NEW t \in Thread, AgentPush(s, t)
      PROVE  TypeOK'
  <2>1. sent[s] + 1 \in 1..MaxPush
    BY <1>2, PipelineAssumption DEF AgentPush
  <2>2. <<s, sent[s] + 1>> \in Sample
    BY <2>1 DEF Sample
  <2>3. <<s, sent[s] + 1>> # NoSample
    BY <2>2, PipelineAssumption DEF Sample
  <2>4. request' \in [Thread -> [pc : ThreadPC, sample : Sample \union {NoSample},
                                 row : Row]]
    BY <1>1, <1>2, <2>2 DEF AgentPush, RequestType, ThreadPC
  <2>5. ASSUME NEW u \in Thread
        PROVE  request'[u].sample = NoSample <=> request'[u].pc = "idle"
    BY <1>2, <2>3 DEF AgentPush, RequestType
  <2>6. RequestType'
    BY <2>4, <2>5 DEF RequestType
  <2> QED BY <1>2, <2>1, <2>6 DEF AgentPush, ConsumerType
<1>3. ASSUME NEW s \in Server, AgentTimeout(s)
      PROVE  TypeOK'
  BY <1>3 DEF AgentTimeout, RequestType, ConsumerType
<1>4. CASE ApiRestart
  <2>1. RequestType'
    BY <1>1, <1>4 DEF ApiRestart, RequestType, IdleRequest, ThreadPC
  <2>2. {request[t].sample : t \in Held} \subseteq Sample
    BY DEF Held, RequestType
  <2>3. permits' \in Nat
    BY <1>4, PipelineAssumption DEF ApiRestart
  <2>4. gone' \subseteq Sample /\ faultsLeft' \in Nat
    BY <1>4, <2>2 DEF ApiRestart
  <2>5. waiting' \in [Server -> BOOLEAN]
    BY <1>4, Zenon DEF ApiRestart
  <2>6. UNCHANGED <<reading, sent, redisUp, queue, errorQueue, consumer, db,
                    probes, stale, shed, rejected, ambiguous>>
    BY <1>4 DEF ApiRestart
  <2> QED
    BY <2>1, <2>3, <2>4, <2>5, <2>6 DEF ConsumerType
<1>5. CASE RedisDown
  <2>1. redisUp' \in BOOLEAN
    BY <1>5, Zenon DEF RedisDown
  <2>2. faultsLeft' \in Nat
    BY <1>5 DEF RedisDown
  <2>3. UNCHANGED <<reading, sent, waiting, queue, errorQueue, permits, request,
                    consumer, db, probes, stale, shed, rejected, gone,
                    ambiguous>>
    BY <1>5 DEF RedisDown
  <2> QED BY <2>1, <2>2, <2>3 DEF RequestType, ConsumerType
<1>6. CASE RedisBack
  <2>1. redisUp' \in BOOLEAN
    BY <1>6, Zenon DEF RedisBack
  <2> QED BY <1>6, <2>1 DEF RedisBack, RequestType, ConsumerType
<1> QED BY <1>2, <1>3, <1>4, <1>5, <1>6

\* The pipeline keeps its types: no queue, row, permit count or request is ever
\* malformed.
THEOREM TypeCorrect == Spec => []TypeOK
<1>1. Init => TypeOK
  BY InitType
<1>2. TypeOK /\ [Next]_vars => TypeOK'
  <2> SUFFICES ASSUME TypeOK, [Next]_vars PROVE TypeOK'
    OBVIOUS
  <2>1. CASE UNCHANGED vars
    BY <2>1 DEF vars, TypeOK, RequestType, ConsumerType
  <2>2. CASE Finished
    BY <2>2 DEF Finished, vars, TypeOK, RequestType, ConsumerType
  <2> QED BY <2>1, <2>2, PushType, ConsumeType, OutsideType DEF Next
<1>3. QED
  BY <1>1, <1>2, PTL DEF Spec
-----------------------------------------------------------------------------
(* The fallback semaphore.                                                 *)

LEMMA WritingFinite == IsFiniteSet(Writing) /\ Cardinality(Writing) \in Nat
BY FS_Subset, FS_CardinalityType, PipelineAssumption DEF Writing

\* A thread that starts to write takes one place.
LEMMA WritingGrows ==
  ASSUME PermitsConserved, NEW t \in Thread, t \notin Writing, permits \in Nat,
         Writing' = Writing \union {t}, permits' = permits - 1
  PROVE  PermitsConserved'
<1>1. Cardinality(Writing \union {t}) = Cardinality(Writing) + 1
  BY WritingFinite, FS_AddElement
<1> QED BY <1>1, WritingFinite DEF PermitsConserved

\* A thread that has finished writing gives its place back.
LEMMA WritingShrinks ==
  ASSUME PermitsConserved, NEW t \in Writing, permits \in Nat,
         Writing' = Writing \ {t}, permits' = permits + 1
  PROVE  PermitsConserved'
<1>1. Cardinality(Writing \ {t}) = Cardinality(Writing) - 1
  BY WritingFinite, FS_RemoveElement
<1> QED BY <1>1, WritingFinite DEF PermitsConserved

\* A step that leaves the writers and the semaphore alone.
LEMMA WritingStays ==
  ASSUME PermitsConserved, Writing' = Writing, permits' = permits
  PROVE  PermitsConserved'
BY DEF PermitsConserved

LEMMA GotoWriting ==
  ASSUME TypeOK, NEW t \in Thread, NEW from, NEW to, Goto(t, from, to)
  PROVE  /\ from # "writing" /\ to # "writing" => Writing' = Writing
         /\ from # "writing" /\ to = "writing" =>
              t \notin Writing /\ Writing' = Writing \union {t}
         /\ from = "writing" /\ to # "writing" =>
              t \in Writing /\ Writing' = Writing \ {t}
BY DEF TypeOK, RequestType, Goto, Writing

LEMMA ReplyWriting ==
  ASSUME TypeOK, NEW t \in Thread, Reply(t)
  PROVE  /\ request[t].pc # "writing" => Writing' = Writing
         /\ request[t].pc = "writing" => t \in Writing /\ Writing' = Writing \ {t}
BY DEF TypeOK, RequestType, Reply, IdleRequest, Writing

LEMMA PushPermits ==
  ASSUME TypeOK, PermitsConserved, NEW t \in Thread, Push(t)
  PROVE  PermitsConserved'
<1>1. permits \in Nat
  BY DEF TypeOK
<1>2. CASE Authenticate(t)
  <2>1. Writing' = Writing
    BY <1>2 DEF Authenticate, TypeOK, RequestType, Writing
  <2> QED BY <1>2, <2>1, WritingStays DEF Authenticate
<1>3. CASE Enqueue(t)
  BY <1>3, GotoWriting, WritingStays DEF Enqueue
<1>4. CASE EnqueueTwice(t)
  BY <1>4, GotoWriting, WritingStays DEF EnqueueTwice
<1>5. CASE EnqueueUnknown(t)
  BY <1>5, GotoWriting, WritingStays DEF EnqueueUnknown
<1>6. CASE EnqueueFails(t)
  BY <1>6, GotoWriting, WritingStays DEF EnqueueFails
<1>7. CASE AcquirePermit(t)
  BY <1>1, <1>7, GotoWriting, WritingGrows DEF AcquirePermit
<1>8. CASE LoadShed(t)
  BY <1>8, GotoWriting, WritingStays DEF LoadShed
<1>9. CASE FallbackCommit(t)
  BY <1>1, <1>9, GotoWriting, WritingShrinks DEF FallbackCommit
<1>10. CASE FallbackFail(t)
  BY <1>1, <1>10, ReplyWriting, WritingShrinks DEF FallbackFail, FallbackRaises
<1>11. CASE FallbackCommitUnknown(t)
  BY <1>1, <1>11, ReplyWriting, WritingShrinks
  DEF FallbackCommitUnknown, FallbackRaises
<1>12. CASE Respond(t)
  BY <1>12, ReplyWriting, WritingStays DEF Respond
<1> QED
  BY <1>2, <1>3, <1>4, <1>5, <1>6, <1>7, <1>8, <1>9, <1>10, <1>11, <1>12
  DEF Push

\* The consumer, Redis and the agents do not touch the semaphore; a restart of
\* the API makes a new one when no thread is writing.
LEMMA OtherPermits ==
  ASSUME TypeOK, PermitsConserved,
         \/ Consume
         \/ ConsumerCrash
         \/ \E s \in Server, t \in Thread : AgentPush(s, t)
         \/ \E s \in Server : AgentTimeout(s)
         \/ ApiRestart
         \/ RedisDown
         \/ RedisBack
         \/ UNCHANGED vars
  PROVE  PermitsConserved'
<1>1. CASE UNCHANGED <<request, permits>>
  BY <1>1, WritingStays DEF Writing
<1>2. ASSUME NEW s \in Server, NEW t \in Thread, AgentPush(s, t)
      PROVE  PermitsConserved'
  <2>1. Writing' = Writing
    BY <1>2 DEF AgentPush, TypeOK, RequestType, Writing
  <2> QED BY <1>2, <2>1, WritingStays DEF AgentPush
<1>3. CASE ApiRestart
  <2>1. Writing' = {}
    BY <1>3 DEF ApiRestart, IdleRequest, Writing
  <2>2. permits' = FallbackLimit
    BY <1>3 DEF ApiRestart
  <2> QED BY <2>1, <2>2, FS_EmptySet, PipelineAssumption DEF PermitsConserved
<1>4. CASE Consume \/ ConsumerCrash
  BY <1>1, <1>4 DEF Consume, ConsumerCrash, Pop, PopLost, Load, Commit,
                    CommitFails, CommitUnknown, Park, ParkFails
<1>5. CASE (\E s \in Server : AgentTimeout(s)) \/ RedisDown \/ RedisBack
  BY <1>1, <1>5 DEF AgentTimeout, RedisDown, RedisBack
<1> QED BY <1>1, <1>2, <1>3, <1>4, <1>5 DEF vars

\* No path through agent_push leaks a permit of the fallback semaphore or
\* returns one twice, for any number of threads and permits.
THEOREM PermitsCorrect == Spec => []PermitsConserved
<1>1. Init => PermitsConserved
  <2> SUFFICES ASSUME Init PROVE PermitsConserved
    OBVIOUS
  <2>1. Writing = {} /\ permits = FallbackLimit
    BY DEF Init, IdleRequest, Writing
  <2> QED BY <2>1, FS_EmptySet, PipelineAssumption DEF PermitsConserved
<1>2. TypeOK /\ PermitsConserved /\ [Next]_vars => PermitsConserved'
  BY PushPermits, OtherPermits DEF Next, Finished
<1>3. QED
  BY <1>1, <1>2, TypeCorrect, PTL DEF Spec

-----------------------------------------------------------------------------
(* The database.  Only a commit (CommitSample) writes db, probes and stale, so*)
(* each proof treats a commit by whichever process once, and all other steps*)
(* at once.                                                                 *)

\* A transaction in hand: its sample, and the row it loaded, counting no more
\* probes than there are.
Transaction(m, row) ==
  /\ m \in Sample
  /\ row \in Row
  /\ row.rollup <= Len(probes[m[1]])

\* A step either leaves the tables alone or commits one transaction, in which
\* case that transaction was in the hand of a thread or of the consumer.
LEMMA CommitOrNot ==
  ASSUME TypeOK, LoadedLedger, [Next]_vars
  PROVE  /\ reading' = reading
         /\ \/ UNCHANGED serverVars
            \/ \E m \in Sample, row \in Row :
                 Transaction(m, row) /\ CommitSample(m, row)
<1>1. ASSUME NEW t \in Thread, request[t].pc = "writing"
      PROVE  Transaction(request[t].sample, request[t].row)
  BY <1>1 DEF TypeOK, RequestType, LoadedLedger, Transaction
<1>2. ASSUME consumer.pc = "loaded"
      PROVE  Transaction(consumer.sample, consumer.row)
  BY <1>2 DEF TypeOK, ConsumerType, LoadedLedger, Transaction
<1>3. ASSUME NEW t \in Thread, Push(t)
      PROVE  /\ reading' = reading
             /\ \/ UNCHANGED serverVars
                \/ /\ request[t].pc = "writing"
                   /\ CommitSample(request[t].sample, request[t].row)
  BY <1>3 DEF Push, Authenticate, Enqueue, EnqueueTwice, EnqueueUnknown,
              EnqueueFails, AcquirePermit, LoadShed, FallbackCommit,
              FallbackFail, FallbackCommitUnknown, Respond, Goto
<1>4. ASSUME Consume
      PROVE  /\ reading' = reading
             /\ \/ UNCHANGED serverVars
                \/ /\ consumer.pc = "loaded"
                   /\ CommitSample(consumer.sample, consumer.row)
  BY <1>4 DEF Consume, Pop, PopLost, Load, Commit, CommitFails, CommitUnknown,
              Park, ParkFails
<1>5. ASSUME \/ \E s \in Server, t \in Thread : AgentPush(s, t)
             \/ \E s \in Server : AgentTimeout(s)
             \/ ConsumerCrash
             \/ ApiRestart
             \/ RedisDown
             \/ RedisBack
             \/ Finished
             \/ UNCHANGED vars
      PROVE  reading' = reading /\ UNCHANGED serverVars
  BY <1>5 DEF AgentPush, AgentTimeout, ConsumerCrash, ApiRestart, RedisDown,
              RedisBack, Finished, vars, serverVars
<1> QED BY <1>1, <1>2, <1>3, <1>4, <1>5 DEF Next, Transaction

\* What a commit does to the row of its own server and to the others.
LEMMA CommitEffect ==
  ASSUME TypeOK, NEW m \in Sample, NEW row \in Row, CommitSample(m, row),
         NEW s \in Server
  PROVE  /\ s # m[1] => /\ db'[s] = db[s]
                        /\ probes'[s] = probes[s]
                        /\ stale'[s] = stale[s]
         /\ s = m[1] =>
              /\ db'[s] = Overlay(db[s], row, Ingest(row, reading[s][m[2]]))
              /\ probes'[s] = Append(probes[s], m[2])
              /\ stale'[s] = (stale[s] \/ row # db[s])
BY DEF TypeOK, CommitSample, Sample

\* An undisturbed commit writes exactly what Ingest computes.
LEMMA OverlayFresh ==
  ASSUME NEW row \in Row, NEW bytes \in Nat
  PROVE  Overlay(row, row, Ingest(row, bytes)) = Ingest(row, bytes)
BY DEF Overlay, Column, Ingest, Row

\* The rollup column always changes, by one.
LEMMA OverlayRollup ==
  ASSUME NEW current \in Row, NEW loaded \in Row, NEW bytes \in Nat
  PROVE  Overlay(current, loaded, Ingest(loaded, bytes)).rollup
           = loaded.rollup + 1
BY DEF Overlay, Column, Ingest, Row
-----------------------------------------------------------------------------
(* The rows.                                                               *)

\* A commit keeps the row of every server in step with its probes.
LEMMA CommitRow ==
  ASSUME TypeOK, RowLedger, reading' = reading, NEW m \in Sample,
         NEW row \in Row, Transaction(m, row), CommitSample(m, row)
  PROVE  RowLedger'
<1> SUFFICES ASSUME NEW s \in Server
             PROVE  /\ db'[s].rollup <= Len(probes'[s])
                    /\ probes'[s] = << >> => db'[s] = EmptyRow
                    /\ ~stale'[s] => db'[s].rollup = Len(probes'[s])
                    /\ ~stale'[s] /\ Len(probes'[s]) > 0 =>
                         db'[s].snap = Committed(s, Len(probes[s]))'
  BY DEF RowLedger, Committed
<1>1. CASE s # m[1]
  BY <1>1, CommitEffect DEF RowLedger, Committed
<1>2. CASE s = m[1]
  <2> DEFINE bytes == reading[s][m[2]]
  <2>1. m[2] \in 1..MaxPush /\ bytes \in Nat
    BY PipelineAssumption DEF TypeOK, Sample
  <2>2. db[s] \in Row /\ probes[s] \in Seq(1..MaxPush)
    BY DEF TypeOK
  <2>3. /\ db'[s] = Overlay(db[s], row, Ingest(row, bytes))
        /\ probes'[s] = Append(probes[s], m[2])
        /\ stale'[s] = (stale[s] \/ row # db[s])
    BY <1>2, CommitEffect
  <2>4. /\ Len(probes'[s]) = Len(probes[s]) + 1
        /\ probes'[s][Len(probes[s]) + 1] = m[2]
        /\ probes'[s] # << >>
    BY <2>1, <2>2, <2>3
  <2>5. row.rollup \in Nat /\ row.rollup <= Len(probes[s])
    BY <1>2 DEF Transaction, Row
  <2>6. db'[s].rollup = row.rollup + 1
    BY <2>1, <2>2, <2>3, OverlayRollup
  <2>7. Len(probes[s]) \in Nat /\ db[s].rollup \in Nat
    BY <2>2 DEF Row
  <2>8. ASSUME ~stale'[s]
        PROVE  row = db[s] /\ ~stale[s]
    BY <2>3, <2>8
  <2>9. ASSUME ~stale'[s]
        PROVE  /\ db'[s].rollup = Len(probes'[s])
               /\ db'[s].snap = Committed(s, Len(probes[s]))'
    <3>1. db'[s] = Ingest(db[s], bytes)
      BY <2>1, <2>2, <2>3, <2>8, <2>9, OverlayFresh
    <3>2. db'[s].snap = bytes
      BY <3>1 DEF Ingest
    <3>3. Committed(s, Len(probes[s]))' = bytes
      BY <2>4 DEF Committed
    <3> QED BY <2>4, <2>6, <2>7, <2>8, <2>9, <3>2, <3>3 DEF RowLedger
  <2> QED BY <2>4, <2>5, <2>6, <2>7, <2>9
<1> QED BY <1>1, <1>2
-----------------------------------------------------------------------------
(* The transactions.                                                       *)

\* probe_results rows are never removed here.
LEMMA ProbesGrow ==
  ASSUME TypeOK, LoadedLedger, [Next]_vars, NEW s \in Server
  PROVE  Len(probes'[s]) >= Len(probes[s]) /\ Len(probes'[s]) \in Nat
<1>1. probes[s] \in Seq(1..MaxPush)
  BY DEF TypeOK
<1>2. CASE UNCHANGED serverVars
  BY <1>1, <1>2 DEF serverVars
<1>3. ASSUME NEW m \in Sample, NEW row \in Row, CommitSample(m, row)
      PROVE  Len(probes'[s]) >= Len(probes[s]) /\ Len(probes'[s]) \in Nat
  <2>1. m[2] \in 1..MaxPush
    BY DEF Sample
  <2>2. CASE s # m[1]
    BY <1>1, <1>3, <2>2, CommitEffect
  <2>3. CASE s = m[1]
    BY <1>1, <1>3, <2>1, <2>3, CommitEffect
  <2> QED BY <2>2, <2>3
<1> QED BY <1>2, <1>3, CommitOrNot

\* A thread keeps the sample and the row it has, or has begun a request with
\* nothing loaded, or has just loaded the row as it is.
LEMMA RequestRows ==
  ASSUME TypeOK, [Next]_vars, NEW u \in Thread, request'[u].sample # NoSample
  PROVE  \/ /\ request'[u].sample = request[u].sample
            /\ request'[u].row = request[u].row
         \/ request'[u].sample \in Sample /\ request'[u].row = EmptyRow
         \/ /\ request'[u].sample \in Sample
            /\ request'[u].row = db[request'[u].sample[1]]
<1> DEFINE Goal == \/ /\ request'[u].sample = request[u].sample
                      /\ request'[u].row = request[u].row
                   \/ request'[u].sample \in Sample /\ request'[u].row = EmptyRow
                   \/ /\ request'[u].sample \in Sample
                      /\ request'[u].row = db[request'[u].sample[1]]
<1> USE DEF TypeOK
<1>1. CASE request' = request
  BY <1>1
<1>2. ASSUME NEW s \in Server, NEW t \in Thread, AgentPush(s, t)
      PROVE  Goal
  <2>1. sent[s] + 1 \in 1..MaxPush
    BY <1>2, PipelineAssumption DEF AgentPush
  <2> QED BY <1>2, <2>1 DEF AgentPush, RequestType, Sample
<1>3. ASSUME NEW t \in Thread, Authenticate(t)
      PROVE  Goal
  BY <1>3 DEF Authenticate, RequestType
<1>4. ASSUME NEW t \in Thread, NEW from, NEW to, Goto(t, from, to)
      PROVE  Goal
  BY <1>4 DEF Goto, RequestType
<1>5. ASSUME NEW t \in Thread, Reply(t)
      PROVE  Goal
  BY <1>5 DEF Reply, RequestType, IdleRequest
<1>6. CASE ApiRestart
  BY <1>6 DEF ApiRestart, IdleRequest
<1>7. ASSUME NEW t \in Thread, Push(t)
      PROVE  Goal
  BY <1>3, <1>4, <1>5, <1>7
  DEF Push, Enqueue, EnqueueTwice, EnqueueUnknown, EnqueueFails, AcquirePermit,
      LoadShed, FallbackCommit, FallbackFail, FallbackCommitUnknown, Respond,
      FallbackRaises
<1>8. ASSUME Consume \/ ConsumerCrash \/ RedisDown \/ RedisBack \/ Finished
             \/ UNCHANGED vars
      PROVE  Goal
  BY <1>1, <1>8 DEF Consume, ConsumerCrash, RedisDown, RedisBack, Finished, vars, Pop,
              PopLost, Load, Commit, CommitFails, CommitUnknown, Park, ParkFails
<1>9. ASSUME NEW s \in Server, AgentTimeout(s)
      PROVE  Goal
  BY <1>1, <1>9 DEF AgentTimeout
<1>10. CASE Next
  <2>1. CASE \E s \in Server, t \in Thread : AgentPush(s, t)
    BY <1>2, <2>1
  <2>2. CASE \E s \in Server : AgentTimeout(s)
    BY <1>9, <2>2
  <2>3. CASE \E t \in Thread : Push(t)
    BY <1>7, <2>3
  <2> QED BY <1>6, <1>8, <1>10, <2>1, <2>2, <2>3 DEF Next
<1>11. CASE UNCHANGED vars
  BY <1>8, <1>11
<1> QED BY <1>10, <1>11

\* The same of the consumer.
LEMMA ConsumerRows ==
  ASSUME TypeOK, [Next]_vars, consumer'.sample # NoSample
  PROVE  \/ /\ consumer'.sample = consumer.sample
            /\ consumer'.row = consumer.row
         \/ consumer'.sample \in Sample /\ consumer'.row = EmptyRow
         \/ /\ consumer'.sample \in Sample
            /\ consumer'.row = db[consumer'.sample[1]]
<1> USE DEF TypeOK
<1>1. CASE consumer' = consumer
  BY <1>1
<1>2. CASE Pop
  <2>1. Newest \in Sample
    BY <1>2 DEF Pop, Newest
  <2> QED BY <1>2, <2>1 DEF Pop
<1>3. CASE Load
  BY <1>3 DEF Load, ConsumerType
<1>4. ASSUME consumer' = IdleConsumer
      PROVE  FALSE
  BY <1>4 DEF IdleConsumer
<1>5. CASE CommitFails \/ CommitUnknown
  BY <1>5 DEF CommitFails, CommitUnknown, ConsumerType
<1>6. CASE Consume \/ ConsumerCrash
  BY <1>1, <1>2, <1>3, <1>4, <1>5, <1>6
  DEF Consume, ConsumerCrash, PopLost, Commit, Park, ParkFails
<1>7. ASSUME NEW t \in Thread, Push(t)
      PROVE  consumer' = consumer
  BY <1>7 DEF Push, Authenticate, Enqueue, EnqueueTwice, EnqueueUnknown,
              EnqueueFails, AcquirePermit, LoadShed, FallbackCommit,
              FallbackFail, FallbackCommitUnknown, Respond
<1>8. ASSUME \/ \E s \in Server, t \in Thread : AgentPush(s, t)
             \/ \E s \in Server : AgentTimeout(s)
             \/ ApiRestart \/ RedisDown \/ RedisBack \/ Finished
             \/ UNCHANGED vars
      PROVE  consumer' = consumer
  BY <1>8 DEF AgentPush, AgentTimeout, ApiRestart, RedisDown, RedisBack,
              Finished, vars
<1> QED BY <1>1, <1>6, <1>7, <1>8 DEF Next

\* No transaction gets ahead of probe_results.
LEMMA LoadedLedgerStep ==
  ASSUME TypeOK, LedgerInv, [Next]_vars
  PROVE  LoadedLedger'
<1> USE DEF LedgerInv
<1> DEFINE Behind(m, row) == row.rollup <= Len(probes'[m[1]])
<1>1. ASSUME NEW m \in Sample
      PROVE  /\ m[1] \in Server
             /\ Len(probes[m[1]]) \in Nat
             /\ Len(probes'[m[1]]) \in Nat
             /\ Len(probes'[m[1]]) >= Len(probes[m[1]])
  <2>1. m[1] \in Server
    BY DEF Sample
  <2>2. Len(probes[m[1]]) \in Nat
    BY <2>1 DEF TypeOK
  <2> QED BY <2>1, <2>2, ProbesGrow
<1>2. ASSUME NEW m \in Sample
      PROVE  Behind(m, EmptyRow) /\ Behind(m, db[m[1]])
  BY <1>1 DEF RowLedger, EmptyRow, TypeOK, Row
<1>3. ASSUME NEW u \in Thread, request'[u].sample # NoSample
      PROVE  Behind(request'[u].sample, request'[u].row)
  <2>1. request[u].sample # NoSample => request[u].sample \in Sample
    BY DEF TypeOK, RequestType
  <2>2. request[u].sample # NoSample => Behind(request[u].sample, request[u].row)
    BY <1>1, <2>1 DEF LoadedLedger, TypeOK, RequestType, Row
  <2> HIDE DEF Behind
  <2> QED BY <1>2, <1>3, <2>2, RequestRows
<1>4. ASSUME consumer'.sample # NoSample
      PROVE  Behind(consumer'.sample, consumer'.row)
  <2>1. consumer.sample # NoSample => consumer.sample \in Sample
    BY DEF TypeOK, ConsumerType
  <2>2. consumer.sample # NoSample => Behind(consumer.sample, consumer.row)
    BY <1>1, <2>1 DEF LoadedLedger, TypeOK, ConsumerType, Row
  <2> HIDE DEF Behind
  <2> QED BY <1>2, <1>4, <2>2, ConsumerRows
<1> QED BY <1>3, <1>4 DEF LoadedLedger

\* The rows stay in step with their probes.
LEMMA RowLedgerStep ==
  ASSUME TypeOK, LedgerInv, [Next]_vars
  PROVE  RowLedger'
<1>1. reading' = reading
  BY CommitOrNot DEF LedgerInv
<1>2. CASE UNCHANGED serverVars
  BY <1>1, <1>2 DEF LedgerInv, RowLedger, serverVars, Committed
<1> QED BY <1>1, <1>2, CommitOrNot, CommitRow DEF LedgerInv

\* The rows of the servers, and the rows the transactions have loaded, never
\* count a probe that is not in the database.
THEOREM LedgerCorrect == Spec => []LedgerInv
<1>1. Init => LedgerInv
  BY DEF Init, LedgerInv, RowLedger, LoadedLedger, IdleRequest, IdleConsumer,
         EmptyRow
<1>2. TypeOK /\ LedgerInv /\ [Next]_vars => LedgerInv'
  BY LoadedLedgerStep, RowLedgerStep DEF LedgerInv
<1>3. QED
  BY <1>1, <1>2, TypeCorrect, PTL DEF Spec

\* A rollup bucket counts exactly the probes of its server, unless a commit
\* overwrote a concurrent one, and never more.
THEOREM RollupCorrect == Spec => []RollupCounts
<1>1. LedgerInv => RollupCounts
  BY DEF LedgerInv, RowLedger, RollupCounts
<1>2. QED
  BY <1>1, LedgerCorrect, PTL
-----------------------------------------------------------------------------
(* The accounted traffic.                                                  *)

\* A commit that overwrites nothing never lowers the account.
LEMMA CommitMonotone ==
  ASSUME TypeOK, NEW m \in Sample, NEW row \in Row, CommitSample(m, row),
         NEW s \in Server, ~stale'[s]
  PROVE  db'[s].used >= db[s].used
<1>1. db[s] \in Row
  BY DEF TypeOK
<1>2. CASE s # m[1]
  BY <1>1, <1>2, CommitEffect DEF Row
<1>3. CASE s = m[1]
  <2>1. reading[s][m[2]] \in Nat
    BY PipelineAssumption DEF TypeOK, Sample
  <2>2. row = db[s]
    BY <1>3, CommitEffect
  <2>3. db'[s] = Ingest(db[s], reading[s][m[2]])
    BY <1>1, <1>3, <2>1, <2>2, CommitEffect, OverlayFresh
  <2> QED BY <1>1, <2>1, <2>3 DEF Ingest, Row
<1> QED BY <1>2, <1>3

\* The traffic of a server is only ever lowered by a commit that overwrote a
\* concurrent one.
THEOREM UsedNeverDrops == Spec => UsedMonotone
<1>1. ASSUME TypeOK, LedgerInv, [Next]_vars
      PROVE  [\A s \in Server : db'[s].used < db[s].used => stale'[s]]_vars
  <2> SUFFICES ASSUME NEW s \in Server, ~stale'[s]
               PROVE  ~(db'[s].used < db[s].used)
    OBVIOUS
  <2>1. db[s].used \in Nat
    BY <1>1 DEF TypeOK, Row
  <2>2. CASE UNCHANGED serverVars
    BY <2>1, <2>2 DEF serverVars
  <2>3. ASSUME NEW m \in Sample, NEW row \in Row, CommitSample(m, row)
        PROVE  ~(db'[s].used < db[s].used)
    <3>1. db'[s].used \in Nat
      BY <1>1, <2>3, CommitType DEF Row
    <3> QED BY <1>1, <2>1, <2>3, <3>1, CommitMonotone
  <2> QED BY <1>1, <2>2, <2>3, CommitOrNot DEF LedgerInv
<1>2. QED
  BY <1>1, TypeCorrect, LedgerCorrect, PTL DEF Spec, UsedMonotone

\* A commit that arrives in order adds what the counter gained since the last.
LEMMA CommitExact ==
  ASSUME TypeOK, LedgerInv, ExactInOrder, reading' = reading,
         NEW m \in Sample, NEW row \in Row, CommitSample(m, row)
  PROVE  ExactInOrder'
<1> SUFFICES ASSUME NEW s \in Server, ~stale'[s], Len(probes'[s]) > 0,
                    Committed(s, 1)' > 0, InOrder(s)'
             PROVE  db'[s].used = Committed(s, Len(probes[s]))' - Committed(s, 1)'
  BY DEF ExactInOrder
<1>1. CASE s # m[1]
  BY <1>1, CommitEffect DEF ExactInOrder, Committed, InOrder
<1>2. CASE s = m[1]
  <2> DEFINE bytes == reading[s][m[2]]
             n == Len(probes[s])
  <2>1. m[2] \in 1..MaxPush /\ bytes \in Nat
    BY PipelineAssumption DEF TypeOK, Sample
  <2>2. db[s] \in Row /\ probes[s] \in Seq(1..MaxPush) /\ n \in Nat
    BY DEF TypeOK
  <2>3. probes'[s] = Append(probes[s], m[2]) /\ row = db[s] /\ ~stale[s]
    BY <1>2, CommitEffect
  <2>4. db'[s] = Ingest(db[s], bytes)
    BY <1>2, <2>1, <2>2, <2>3, CommitEffect, OverlayFresh
  <2>5. /\ Len(probes'[s]) = n + 1
        /\ probes'[s][n + 1] = m[2]
        /\ \A i \in 1..n : probes'[s][i] = probes[s][i]
    BY <2>1, <2>2, <2>3
  <2>6. Committed(s, Len(probes[s]))' = bytes
    BY <2>5 DEF Committed
  <2>7. \A i \in 1..n : Committed(s, i)' = Committed(s, i)
    BY <2>5 DEF Committed
  <2>8. \A i \in 1..n : Committed(s, i)' <= reading[s][probes'[s][i + 1]]
    BY <2>5 DEF InOrder, Committed
  <2>9. CASE n = 0
    <3>1. db[s] = EmptyRow
      BY <2>2, <2>9 DEF LedgerInv, RowLedger
    <3>2. Committed(s, 1)' = bytes
      BY <2>5, <2>9 DEF Committed
    <3> QED BY <2>1, <2>4, <2>6, <3>1, <3>2 DEF Ingest, EmptyRow
  <2>10. CASE n > 0
    <3>1. \A i \in 1..n : Committed(s, i) \in Nat
      <4> TAKE i \in 1..n
      <4>1. probes[s][i] \in 1..MaxPush
        BY <2>2, ElementOfSeq
      <4> QED BY <4>1, PipelineAssumption DEF TypeOK, Committed
    <3>2. Committed(s, 1)' = Committed(s, 1) /\ Committed(s, 1) > 0
      BY <2>2, <2>7, <2>10
    <3>3. \A i \in 1..(n - 1) : probes'[s][i + 1] = probes[s][i + 1]
      BY <2>2, <2>5
    <3>4. InOrder(s)
      BY <2>2, <2>7, <2>8, <3>3 DEF InOrder, Committed
    <3>5. db[s].used = Committed(s, n) - Committed(s, 1)
      BY <2>3, <2>10, <3>2, <3>4 DEF ExactInOrder
    <3>6. db[s].snap = Committed(s, n)
      BY <2>3, <2>10 DEF LedgerInv, RowLedger
    <3>7. Committed(s, n) <= bytes
      BY <2>2, <2>5, <2>7, <2>8, <2>10
    <3>8. db[s].used \in Nat
      BY <2>2 DEF Row
    <3>9. Committed(s, n) \in Nat /\ Committed(s, 1) \in Nat
      BY <2>2, <2>10, <3>1
    <3>10. db'[s].used = db[s].used + (bytes - db[s].snap)
      BY <2>1, <2>4, <3>2, <3>5, <3>6, <3>7, <3>8, <3>9 DEF Ingest
    <3> QED BY <2>1, <2>6, <3>2, <3>5, <3>6, <3>8, <3>9, <3>10
  <2> QED BY <2>2, <2>9, <2>10
<1> QED BY <1>1, <1>2

\* Whatever samples are lost, the account is exact as long as what arrives
\* arrives in order and no commit overwrites a concurrent one.
THEOREM AccountExact == Spec => []ExactInOrder
<1>1. Init => ExactInOrder
  BY DEF Init, ExactInOrder
<1>2. TypeOK /\ LedgerInv /\ ExactInOrder /\ [Next]_vars => ExactInOrder'
  <2> SUFFICES ASSUME TypeOK, LedgerInv, ExactInOrder, [Next]_vars
               PROVE  ExactInOrder'
    OBVIOUS
  <2>1. reading' = reading
    BY CommitOrNot DEF LedgerInv
  <2>2. CASE UNCHANGED serverVars
    BY <2>1, <2>2 DEF serverVars, ExactInOrder, Committed, InOrder
  <2> QED BY <2>1, <2>2, CommitOrNot, CommitExact DEF LedgerInv
<1>3. QED
  BY <1>1, <1>2, TypeCorrect, LedgerCorrect, PTL DEF Spec

-----------------------------------------------------------------------------
(* Where the samples are.  The copies of a sample are counted in five places.*)
(* The lemmas say what one step does to the count in one place; Conserved says*)
(* what it does to the sum; the invariant follows from that alone.          *)

\* Where e occurs in the sequence q, and how often.
Places(q, e) == {i \in DOMAIN q : q[i] = e}
Count(q, e)  == Cardinality(Places(q, e))

\* 1 if x is the sample looked for, else 0.
Is(x, e) == IF x = e THEN 1 ELSE 0

LEMMA CountType ==
  ASSUME NEW S, NEW q \in Seq(S), NEW e
  PROVE  IsFiniteSet(Places(q, e)) /\ Count(q, e) \in Nat
<1>1. DOMAIN q = 1..Len(q) /\ Len(q) \in Nat
  BY LenProperties
<1>2. IsFiniteSet(1..Len(q))
  BY <1>1, FS_Interval
<1>3. Places(q, e) \in SUBSET (1..Len(q))
  BY <1>1 DEF Places
<1>4. IsFiniteSet(Places(q, e))
  BY <1>2, <1>3, FS_Subset
<1> QED BY <1>4, FS_CardinalityType DEF Count

\* Appending x adds one occurrence of x.
LEMMA CountAppend ==
  ASSUME NEW S, NEW q \in Seq(S), NEW x \in S, NEW e
  PROVE  Count(Append(q, x), e) = Count(q, e) + Is(x, e)
<1> DEFINE n == Len(q) + 1
<1>1. /\ Len(q) \in Nat /\ DOMAIN q = 1..Len(q)
      /\ Append(q, x) \in Seq(S) /\ Len(Append(q, x)) = n
      /\ \A i \in 1..Len(q) : Append(q, x)[i] = q[i]
      /\ Append(q, x)[n] = x
  BY AppendProperties, LenProperties
<1>2. DOMAIN Append(q, x) = 1..n
  BY <1>1, LenProperties
<1>3. IsFiniteSet(Places(q, e)) /\ Count(q, e) \in Nat
  BY CountType
<1>4. n \notin Places(q, e)
  BY <1>1 DEF Places
<1>5. CASE x = e
  <2>1. Places(Append(q, x), e) = Places(q, e) \union {n}
    BY <1>1, <1>2, <1>5 DEF Places
  <2> QED BY <1>3, <1>4, <1>5, <2>1, FS_AddElement DEF Count, Is
<1>6. CASE x # e
  <2>1. Places(Append(q, x), e) = Places(q, e)
    BY <1>1, <1>2, <1>6 DEF Places
  <2> QED BY <1>3, <1>6, <2>1 DEF Count, Is
<1> QED BY <1>5, <1>6

\* Concatenating a pair is appending twice.
LEMMA AppendPair ==
  ASSUME NEW S, NEW q \in Seq(S), NEW x \in S
  PROVE  q \o <<x, x>> = Append(Append(q, x), x)
<1> DEFINE l == q \o <<x, x>>
           r == Append(Append(q, x), x)
<1>1. /\ <<x, x>> \in Seq(S) /\ Len(<<x, x>>) = 2
      /\ <<x, x>>[1] = x /\ <<x, x>>[2] = x
  OBVIOUS
<1>2. Len(q) \in Nat
  BY LenProperties
<1>3. /\ l \in Seq(S) /\ Len(l) = Len(q) + 2
      /\ \A i \in 1..(Len(q) + 2) :
           l[i] = IF i <= Len(q) THEN q[i] ELSE <<x, x>>[i - Len(q)]
  BY <1>1, ConcatProperties
<1>4. /\ r \in Seq(S) /\ Len(r) = Len(q) + 2
      /\ \A i \in 1..Len(q) : r[i] = q[i]
      /\ r[Len(q) + 1] = x /\ r[Len(q) + 2] = x
  BY <1>2, AppendProperties
<1>5. \A i \in 1..Len(l) : l[i] = r[i]
  <2> SUFFICES ASSUME NEW i \in 1..(Len(q) + 2) PROVE l[i] = r[i]
    BY <1>3
  <2>1. i \in 1..Len(q) \/ i = Len(q) + 1 \/ i = Len(q) + 2
    BY <1>2
  <2> HIDE DEF l, r
  <2> QED BY <1>1, <1>2, <1>3, <1>4, <2>1
<1> QED BY <1>3, <1>4, <1>5, SeqEqual

\* A nonempty sequence is its front with its last element appended.
LEMMA CountFront ==
  ASSUME NEW S, NEW q \in Seq(S), q # << >>, NEW e
  PROVE  Count(q, e) = Count(SubSeq(q, 1, Len(q) - 1), e) + Is(q[Len(q)], e)
<1>1. PICK f \in Seq(S), x \in S : q = Append(f, x)
  BY SequenceEmptyOrAppend
<1>2. /\ Len(q) = Len(f) + 1 /\ Len(f) \in Nat
      /\ q[Len(q)] = x
      /\ \A i \in 1..Len(f) : q[i] = f[i]
  BY <1>1, AppendProperties, LenProperties
<1>3. /\ SubSeq(q, 1, Len(f)) \in Seq(S)
      /\ Len(SubSeq(q, 1, Len(f))) = Len(f)
      /\ \A i \in 1..Len(f) : SubSeq(q, 1, Len(f))[i] = f[i]
  <2>1. \A i \in 1..Len(f) : q[i] \in S
    BY <1>2, ElementOfSeq
  <2> QED BY <1>2, <2>1, SubSeqProperties
<1>4. SubSeq(q, 1, Len(f)) = f
  BY <1>3, SeqEqual
<1>5. Len(q) - 1 = Len(f)
  BY <1>2
<1>6. SubSeq(q, 1, Len(q) - 1) = f
  BY <1>4, <1>5
<1>7. Count(Append(f, x), e) = Count(f, e) + Is(x, e)
  BY CountAppend
<1> QED BY <1>1, <1>2, <1>6, <1>7
-----------------------------------------------------------------------------
(* One step, one place.                                                    *)

\* The threads that hold a copy of m.
Holding(m) == {t \in Held : request[t].sample = m}

LEMMA HoldingType ==
  ASSUME NEW m
  PROVE  IsFiniteSet(Holding(m)) /\ InRequest(m) \in Nat
<1>1. Holding(m) \in SUBSET Thread
  BY DEF Holding, Held
<1>2. IsFiniteSet(Holding(m))
  BY <1>1, FS_Subset, PipelineAssumption
<1> QED BY <1>2, FS_CardinalityType DEF InRequest, Holding

LEMMA PlacesType ==
  ASSUME TypeOK, NEW m \in Sample
  PROVE  /\ Enqueued(m) \in Nat
         /\ InHand(m) \in Nat
         /\ InRequest(m) \in Nat
         /\ Stored(m) \in Nat
         /\ errorQueue[m] \in Nat
         /\ Copies(m) \in Nat
<1>1. Enqueued(m) \in Nat
  BY CountType, ZenonT(30) DEF TypeOK, Enqueued, Count, Places
<1>2. m[1] \in Server
  BY DEF Sample
<1>3. Stored(m) \in Nat
  <2>1. probes[m[1]] \in Seq(1..MaxPush)
    BY <1>2 DEF TypeOK
  <2>2. Count(probes[m[1]], m[2]) \in Nat
    BY <2>1, CountType
  <2> QED BY <2>2 DEF Stored, Count, Places
<1>4. InHand(m) \in Nat /\ errorQueue[m] \in Nat
  BY DEF InHand, TypeOK
<1> QED BY <1>1, <1>3, <1>4, HoldingType DEF Copies

\* RPUSH.
LEMMA Pushed ==
  ASSUME TypeOK, NEW x \in Sample, queue' = Append(queue, x), NEW m \in Sample
  PROVE  Enqueued(m)' = Enqueued(m) + Is(x, m)
<1>1. queue \in Seq(Sample)
  BY DEF TypeOK
<1>2. Count(queue', m) = Count(queue, m) + Is(x, m)
  BY <1>1, CountAppend
<1> QED BY <1>2 DEF Enqueued, Count, Places

\* BRPOP.
LEMMA Popped ==
  ASSUME TypeOK, queue # << >>, queue' = WithoutNewest, NEW m \in Sample
  PROVE  Enqueued(m)' = Enqueued(m) - Is(Newest, m)
<1>1. queue \in Seq(Sample) /\ queue' \in Seq(Sample)
  BY DEF TypeOK, WithoutNewest
<1>2. Count(queue, m) = Count(queue', m) + Is(Newest, m)
  BY <1>1, CountFront DEF Newest, WithoutNewest
<1>3. Count(queue', m) \in Nat
  BY <1>1, CountType
<1> QED BY <1>2, <1>3 DEF Enqueued, Count, Places, Is

\* COMMIT.
LEMMA Committing ==
  ASSUME TypeOK, NEW x \in Sample, NEW row, CommitSample(x, row),
         NEW m \in Sample
  PROVE  Stored(m)' = Stored(m) + Is(x, m)
<1>1. /\ x = <<x[1], x[2]>> /\ m = <<m[1], m[2]>>
      /\ x[1] \in Server /\ m[1] \in Server /\ x[2] \in 1..MaxPush
      /\ probes[m[1]] \in Seq(1..MaxPush)
  BY DEF Sample, TypeOK
<1>2. probes' = [probes EXCEPT ![x[1]] = Append(probes[x[1]], x[2])]
  BY DEF CommitSample
<1>3. CASE x[1] = m[1]
  <2>1. probes'[m[1]] = Append(probes[m[1]], x[2])
    BY <1>1, <1>2, <1>3 DEF TypeOK
  <2>2. Count(Append(probes[m[1]], x[2]), m[2])
          = Count(probes[m[1]], m[2]) + Is(x[2], m[2])
    <3> DEFINE q == probes[m[1]]
    <3>1. q \in Seq(1..MaxPush) /\ x[2] \in 1..MaxPush
      BY <1>1
    <3> HIDE DEF q
    <3>2. Count(Append(q, x[2]), m[2]) = Count(q, m[2]) + Is(x[2], m[2])
      BY <3>1, CountAppend
    <3> QED BY <3>2 DEF q
  <2>3. Is(x[2], m[2]) = Is(x, m)
    BY <1>1, <1>3 DEF Is
  <2> QED BY <2>1, <2>2, <2>3 DEF Stored, Count, Places
<1>4. CASE x[1] # m[1]
  <2>1. probes'[m[1]] = probes[m[1]]
    BY <1>1, <1>2, <1>4 DEF TypeOK
  <2>2. Is(x, m) = 0
    BY <1>1, <1>4 DEF Is
  <2> QED BY <2>1, <2>2, PlacesType DEF Stored
<1> QED BY <1>3, <1>4

\* A thread stops holding its sample; the other threads are as before.
LEMMA Released ==
  ASSUME NEW t \in Held, Held' = Held \ {t},
         \A u \in Held \ {t} : request'[u].sample = request[u].sample, NEW m
  PROVE  InRequest(m)' = InRequest(m) - Is(request[t].sample, m)
<1>1. Holding(m)' = Holding(m) \ {t}
  BY DEF Holding
<1>2. t \in Holding(m) <=> request[t].sample = m
  BY DEF Holding
<1>3. Cardinality(Holding(m)')
        = Cardinality(Holding(m)) - Is(request[t].sample, m)
  <2>1. IsFiniteSet(Holding(m)) /\ Cardinality(Holding(m)) \in Nat
    BY HoldingType, FS_CardinalityType
  <2>2. Cardinality(Holding(m) \ {t}) =
          IF t \in Holding(m) THEN Cardinality(Holding(m)) - 1
          ELSE Cardinality(Holding(m))
    BY <2>1, FS_RemoveElement
  <2> QED BY <1>1, <1>2, <2>1, <2>2 DEF Is
<1>4. /\ InRequest(m) = Cardinality(Holding(m))
      /\ InRequest(m)' = Cardinality(Holding(m)')
      /\ InRequest(m) \in Nat
  BY HoldingType DEF InRequest, Holding
<1> QED BY <1>3, <1>4 DEF Is

\* The threads hold what they held.
LEMMA StillHeld ==
  ASSUME Held' = Held, \A u \in Held : request'[u].sample = request[u].sample,
         NEW m
  PROVE  InRequest(m)' = InRequest(m)
BY DEF InRequest
-----------------------------------------------------------------------------
(* One step, all places.                                                   *)

\* A step that is no new sample makes copies only of a sample there is, and
\* says it is ambiguous; and loses copies only of a sample it accounts for.
Conserved(m) ==
  /\ Copies(m)' > Copies(m) => Copies(m) > 0 /\ m \in ambiguous'
  /\ Copies(m)' < Copies(m) => m \in shed' \union rejected' \union gone'

\* A request that moves on is held before and after, or released.
LEMMA GotoHeld ==
  ASSUME TypeOK, NEW t \in Thread, NEW from, NEW to, Goto(t, from, to),
         NEW m \in Sample
  PROVE  /\ from \in {"received", "authenticated", "fallback", "writing"}
              /\ to \in {"received", "authenticated", "fallback", "writing"}
              => InRequest(m)' = InRequest(m)
         /\ from \in {"received", "authenticated", "fallback", "writing"}
              /\ to = "respond"
              => InRequest(m)' = InRequest(m) - Is(request[t].sample, m)
<1>1. /\ request[t].pc = from
      /\ request'[t].pc = to
      /\ \A u \in Thread : request'[u].sample = request[u].sample
      /\ \A u \in Thread \ {t} : request'[u] = request[u]
  BY DEF Goto, TypeOK, RequestType
<1>2. ASSUME from \in {"received", "authenticated", "fallback", "writing"},
             to \in {"received", "authenticated", "fallback", "writing"}
      PROVE  InRequest(m)' = InRequest(m)
  <2>1. Held' = Held
    BY <1>1, <1>2 DEF Held
  <2>2. \A u \in Held : request'[u].sample = request[u].sample
    BY <1>1 DEF Held
  <2> QED BY <2>1, <2>2, StillHeld
<1>3. ASSUME from \in {"received", "authenticated", "fallback", "writing"},
             to = "respond"
      PROVE  InRequest(m)' = InRequest(m) - Is(request[t].sample, m)
  <2>1. Held' = Held \ {t} /\ t \in Held
    BY <1>1, <1>3 DEF Held
  <2>2. \A u \in Held \ {t} : request'[u].sample = request[u].sample
    BY <1>1 DEF Held
  <2> QED BY <2>1, <2>2, Released
<1> QED BY <1>2, <1>3

LEMMA ReplyHeld ==
  ASSUME TypeOK, NEW t \in Thread, Reply(t), NEW m \in Sample
  PROVE  /\ request[t].pc = "writing" =>
              InRequest(m)' = InRequest(m) - Is(request[t].sample, m)
         /\ request[t].pc = "respond" => InRequest(m)' = InRequest(m)
<1>1. /\ request'[t].pc = "idle"
      /\ \A u \in Thread \ {t} : request'[u] = request[u]
  BY DEF Reply, TypeOK, RequestType, IdleRequest
<1>2. CASE request[t].pc = "writing"
  <2>1. Held' = Held \ {t} /\ t \in Held
    BY <1>1, <1>2 DEF Held
  <2>2. \A u \in Held \ {t} : request'[u].sample = request[u].sample
    BY <1>1 DEF Held
  <2> QED BY <1>2, <2>1, <2>2, Released
<1>3. CASE request[t].pc = "respond"
  <2>1. Held' = Held /\ t \notin Held
    BY <1>1, <1>3 DEF Held
  <2>2. \A u \in Held : request'[u].sample = request[u].sample
    BY <1>1, <2>1 DEF Held
  <2> QED BY <1>3, <2>1, <2>2, StillHeld
<1> QED BY <1>2, <1>3

\* A thread that is busy has a sample; a thread that holds it is counted.
LEMMA Busy ==
  ASSUME TypeOK, NEW t \in Thread, request[t].pc # "idle"
  PROVE  /\ request[t].sample \in Sample
         /\ t \in Held => InRequest(request[t].sample) > 0
<1>1. request[t].sample \in Sample
  BY DEF TypeOK, RequestType
<1>2. ASSUME t \in Held
      PROVE  InRequest(request[t].sample) > 0
  <2>1. t \in Holding(request[t].sample)
    BY <1>2 DEF Holding
  <2>2. Cardinality(Holding(request[t].sample)) # 0
    BY <2>1, HoldingType, FS_EmptySet
  <2>3. InRequest(request[t].sample) = Cardinality(Holding(request[t].sample))
    BY DEF InRequest, Holding
  <2>4. InRequest(request[t].sample) \in Nat
    BY HoldingType
  <2> QED BY <2>2, <2>3, <2>4
<1> QED BY <1>1, <1>2

\* Every step of a request thread.
LEMMA PushConserves ==
  ASSUME TypeOK, NEW t \in Thread, Push(t), NEW m \in Sample
  PROVE  Conserved(m)
<1> DEFINE x == request[t].sample
<1> USE DEF redisVars, serverVars, ghostVars
<1>1. /\ Enqueued(m) \in Nat /\ InHand(m) \in Nat /\ InRequest(m) \in Nat
      /\ Stored(m) \in Nat /\ errorQueue[m] \in Nat
  BY PlacesType
<1>2. request[t].pc # "idle" => x \in Sample
  BY Busy
<1>3. request[t].pc \in {"received", "authenticated", "fallback", "writing"}
        => (x = m => InRequest(m) > 0)
  BY Busy DEF Held
<1>4. Is(x, m) \in {0, 1} /\ (Is(x, m) = 1 <=> x = m)
  BY DEF Is
<1> HIDE DEF x
<1>5. UNCHANGED queue => Enqueued(m)' = Enqueued(m)
  BY DEF Enqueued
<1>6. UNCHANGED consumer => InHand(m)' = InHand(m)
  BY DEF InHand
<1>7. UNCHANGED probes => Stored(m)' = Stored(m)
  BY DEF Stored
<1> USE DEF Conserved, Copies
<1>8. CASE Authenticate(t)
  <2>1. Held' = Held /\ \A u \in Held : request'[u].sample = request[u].sample
    BY <1>8 DEF Authenticate, Held, TypeOK, RequestType
  <2>2. InRequest(m)' = InRequest(m)
    BY <2>1, StillHeld
  <2>3. UNCHANGED <<queue, consumer, probes, errorQueue>>
    BY <1>8 DEF Authenticate
  <2> QED BY <1>1, <1>5, <1>6, <1>7, <2>2, <2>3
<1>9. CASE Enqueue(t)
  <2>1. /\ request[t].pc = "authenticated"
        /\ UNCHANGED <<consumer, probes, errorQueue>>
    BY <1>9 DEF Enqueue, Goto
  <2>2. InRequest(m)' = InRequest(m) - Is(x, m)
    BY <1>9, GotoHeld DEF Enqueue, x
  <2>3. Enqueued(m)' = Enqueued(m) + Is(x, m)
    BY <1>2, <1>9, <2>1, Pushed DEF Enqueue, x
  <2> QED BY <1>1, <1>4, <1>6, <1>7, <2>1, <2>2, <2>3
<1>10. CASE EnqueueTwice(t)
  <2>1. /\ request[t].pc = "authenticated"
        /\ UNCHANGED <<consumer, probes, errorQueue>>
        /\ ambiguous' = ambiguous \union {x}
    BY <1>10 DEF EnqueueTwice, Goto, x
  <2>2. InRequest(m)' = InRequest(m) - Is(x, m)
    BY <1>10, GotoHeld DEF EnqueueTwice, x
  <2>3. queue' = Append(Append(queue, x), x)
    <3>1. queue' = queue \o <<x, x>>
      BY <1>10 DEF EnqueueTwice, x
    <3> QED BY <1>2, <2>1, <3>1, AppendPair DEF TypeOK
  <2>4. Enqueued(m)' = Enqueued(m) + Is(x, m) + Is(x, m)
    <3>1. queue \in Seq(Sample) /\ Append(queue, x) \in Seq(Sample)
      BY <1>2, <2>1 DEF TypeOK
    <3>2. /\ Count(Append(queue, x), m) = Count(queue, m) + Is(x, m)
          /\ Count(Append(Append(queue, x), x), m)
               = Count(Append(queue, x), m) + Is(x, m)
      BY <1>2, <2>1, <3>1, CountAppend
    <3> QED BY <2>3, <3>2 DEF Enqueued, Count, Places
  <2> QED BY <1>1, <1>3, <1>4, <1>6, <1>7, <2>1, <2>2, <2>4
<1>11. CASE EnqueueUnknown(t)
  <2>1. /\ request[t].pc = "authenticated"
        /\ UNCHANGED <<consumer, probes, errorQueue>>
        /\ ambiguous' = ambiguous \union {x}
    BY <1>11 DEF EnqueueUnknown, Goto, x
  <2>2. InRequest(m)' = InRequest(m)
    BY <1>11, GotoHeld DEF EnqueueUnknown
  <2>3. Enqueued(m)' = Enqueued(m) + Is(x, m)
    BY <1>2, <1>11, <2>1, Pushed DEF EnqueueUnknown, x
  <2> QED BY <1>1, <1>3, <1>4, <1>6, <1>7, <2>1, <2>2, <2>3
<1>12. CASE EnqueueFails(t)
  <2>1. UNCHANGED <<queue, consumer, probes, errorQueue>>
    BY <1>12 DEF EnqueueFails
  <2>2. InRequest(m)' = InRequest(m)
    BY <1>12, GotoHeld DEF EnqueueFails
  <2> QED BY <1>1, <1>5, <1>6, <1>7, <2>1, <2>2
<1>13. CASE AcquirePermit(t)
  <2>1. UNCHANGED <<queue, consumer, probes, errorQueue>>
    BY <1>13 DEF AcquirePermit
  <2>2. InRequest(m)' = InRequest(m)
    BY <1>13, GotoHeld DEF AcquirePermit
  <2> QED BY <1>1, <1>5, <1>6, <1>7, <2>1, <2>2
<1>14. CASE LoadShed(t)
  <2>1. /\ UNCHANGED <<queue, consumer, probes, errorQueue>>
        /\ shed' = shed \union {x}
    BY <1>14 DEF LoadShed, x
  <2>2. InRequest(m)' = InRequest(m) - Is(x, m)
    BY <1>14, GotoHeld DEF LoadShed, x
  <2> QED BY <1>1, <1>4, <1>5, <1>6, <1>7, <2>1, <2>2
<1>15. CASE FallbackCommit(t)
  <2>1. /\ request[t].pc = "writing"
        /\ UNCHANGED <<queue, consumer, errorQueue>>
    BY <1>15 DEF FallbackCommit, Goto
  <2>2. InRequest(m)' = InRequest(m) - Is(x, m)
    BY <1>15, GotoHeld DEF FallbackCommit, x
  <2>3. Stored(m)' = Stored(m) + Is(x, m)
    BY <1>2, <1>15, <2>1, Committing DEF FallbackCommit, x
  <2> QED BY <1>1, <1>4, <1>5, <1>6, <2>1, <2>2, <2>3
<1>16. CASE FallbackFail(t)
  <2>1. /\ request[t].pc = "writing" /\ Reply(t)
        /\ UNCHANGED <<queue, consumer, probes, errorQueue>>
        /\ rejected' = rejected \union {x}
    BY <1>16 DEF FallbackFail, FallbackRaises, x
  <2>2. InRequest(m)' = InRequest(m) - Is(x, m)
    BY <2>1, ReplyHeld DEF x
  <2> QED BY <1>1, <1>4, <1>5, <1>6, <1>7, <2>1, <2>2
<1>17. CASE FallbackCommitUnknown(t)
  <2>1. /\ request[t].pc = "writing" /\ Reply(t)
        /\ UNCHANGED <<queue, consumer, errorQueue>>
    BY <1>17 DEF FallbackCommitUnknown, FallbackRaises
  <2>2. InRequest(m)' = InRequest(m) - Is(x, m)
    BY <2>1, ReplyHeld DEF x
  <2>3. Stored(m)' = Stored(m) + Is(x, m)
    BY <1>2, <1>17, <2>1, Committing DEF FallbackCommitUnknown, x
  <2> QED BY <1>1, <1>4, <1>5, <1>6, <2>1, <2>2, <2>3
<1>18. CASE Respond(t)
  <2>1. /\ request[t].pc = "respond" /\ Reply(t)
        /\ UNCHANGED <<queue, consumer, probes, errorQueue>>
    BY <1>18 DEF Respond
  <2>2. InRequest(m)' = InRequest(m)
    BY <2>1, ReplyHeld
  <2> QED BY <1>1, <1>5, <1>6, <1>7, <2>1, <2>2
<1> QED
  BY <1>8, <1>9, <1>10, <1>11, <1>12, <1>13, <1>14, <1>15, <1>16, <1>17,
     <1>18 DEF Push

\* Every step of the consumer.
LEMMA ConsumerConserves ==
  ASSUME TypeOK, Consume \/ ConsumerCrash, NEW m \in Sample
  PROVE  Conserved(m)
<1> DEFINE x == consumer.sample
<1> USE DEF redisVars, serverVars, ghostVars
<1>1. /\ Enqueued(m) \in Nat /\ InHand(m) \in Nat /\ InRequest(m) \in Nat
      /\ Stored(m) \in Nat /\ errorQueue[m] \in Nat
  BY PlacesType
<1>2. consumer.pc # "polling" => x \in Sample
  BY DEF TypeOK, ConsumerType
<1>3. consumer.pc = "polling" => InHand(m) = 0
  BY PipelineAssumption DEF TypeOK, ConsumerType, InHand, Sample
<1>4. InHand(m) = Is(x, m) /\ Is(x, m) \in {0, 1} /\ (Is(x, m) = 1 <=> x = m)
  BY DEF InHand, Is
<1>5. consumer' = IdleConsumer => InHand(m)' = 0
  BY PipelineAssumption DEF IdleConsumer, InHand, Sample
<1>6. Is(Newest, m) \in {0, 1} /\ (Is(Newest, m) = 1 <=> Newest = m)
  BY DEF Is
<1> HIDE DEF x
<1>7. UNCHANGED queue => Enqueued(m)' = Enqueued(m)
  BY DEF Enqueued
<1>8. UNCHANGED request => InRequest(m)' = InRequest(m)
  BY DEF InRequest, Held
<1>9. UNCHANGED probes => Stored(m)' = Stored(m)
  BY DEF Stored
<1> USE DEF Conserved, Copies
<1>10. CASE Pop
  <2>1. /\ consumer.pc = "polling" /\ UNCHANGED <<request, probes, errorQueue>>
        /\ consumer'.sample = Newest
        /\ queue # << >> /\ queue' = WithoutNewest
    BY <1>10 DEF Pop
  <2>2. Enqueued(m)' = Enqueued(m) - Is(Newest, m)
    BY <2>1, Popped
  <2>3. InHand(m)' = Is(Newest, m)
    BY <2>1 DEF InHand, Is
  <2> QED BY <1>1, <1>3, <1>6, <1>8, <1>9, <2>1, <2>2, <2>3
<1>11. CASE PopLost
  <2>1. /\ UNCHANGED <<request, consumer, probes, errorQueue>>
        /\ queue # << >> /\ queue' = WithoutNewest
        /\ gone' = gone \union {Newest}
    BY <1>11 DEF PopLost
  <2>2. Enqueued(m)' = Enqueued(m) - Is(Newest, m)
    BY <2>1, Popped
  <2>3. InHand(m)' = InHand(m)
    BY <2>1 DEF InHand
  <2> QED BY <1>1, <1>6, <1>8, <1>9, <2>1, <2>2, <2>3
<1>12. CASE Load \/ CommitFails
  <2>1. /\ UNCHANGED <<queue, request, probes, errorQueue>>
        /\ consumer'.sample = x
    BY <1>12 DEF Load, CommitFails, TypeOK, ConsumerType, x
  <2>2. InHand(m)' = InHand(m)
    BY <2>1 DEF InHand, x
  <2> QED BY <1>1, <1>7, <1>8, <1>9, <2>1, <2>2
<1>13. CASE Commit
  <2>1. /\ consumer.pc = "loaded" /\ UNCHANGED <<queue, request, errorQueue>>
        /\ consumer' = IdleConsumer
    BY <1>13 DEF Commit
  <2>2. Stored(m)' = Stored(m) + Is(x, m)
    BY <1>2, <1>13, <2>1, Committing DEF Commit, x
  <2> QED BY <1>1, <1>4, <1>5, <1>7, <1>8, <2>1, <2>2
<1>14. CASE CommitUnknown
  <2>1. /\ consumer.pc = "loaded" /\ UNCHANGED <<queue, request, errorQueue>>
        /\ consumer'.sample = x /\ ambiguous' = ambiguous \union {x}
    BY <1>14 DEF CommitUnknown, TypeOK, ConsumerType, x
  <2>2. Stored(m)' = Stored(m) + Is(x, m)
    BY <1>2, <1>14, <2>1, Committing DEF CommitUnknown, x
  <2>3. InHand(m)' = InHand(m)
    BY <2>1 DEF InHand, x
  <2> QED BY <1>1, <1>4, <1>7, <1>8, <2>1, <2>2, <2>3
<1>15. CASE Park
  <2>1. /\ consumer.pc = "failing" /\ UNCHANGED <<queue, request, probes>>
        /\ consumer' = IdleConsumer
        /\ errorQueue' = [errorQueue EXCEPT ![x] = @ + 1]
    BY <1>15 DEF Park, x
  <2>2. errorQueue'[m] = errorQueue[m] + Is(x, m)
    BY <1>2, <2>1 DEF TypeOK, Is
  <2> QED BY <1>1, <1>4, <1>5, <1>7, <1>8, <1>9, <2>1, <2>2
<1>16. CASE ParkFails \/ ConsumerCrash
  <2>1. /\ UNCHANGED <<queue, request, probes, errorQueue>>
        /\ consumer' = IdleConsumer
        /\ gone' = gone \union {x}
    BY <1>16 DEF ParkFails, ConsumerCrash, x
  <2> QED BY <1>1, <1>4, <1>5, <1>7, <1>8, <1>9, <2>1
<1> QED
  BY <1>10, <1>11, <1>12, <1>13, <1>14, <1>15, <1>16 DEF Consume

\* A restart drops every copy a thread holds, and says so.
LEMMA RestartConserves ==
  ASSUME TypeOK, ApiRestart, NEW m \in Sample
  PROVE  Conserved(m)
<1>1. /\ Enqueued(m) \in Nat /\ InHand(m) \in Nat /\ InRequest(m) \in Nat
      /\ Stored(m) \in Nat /\ errorQueue[m] \in Nat
  BY PlacesType
<1>2. UNCHANGED <<queue, consumer, probes, errorQueue>>
  BY DEF ApiRestart, redisVars, serverVars
<1>3. /\ Enqueued(m)' = Enqueued(m) /\ InHand(m)' = InHand(m)
      /\ Stored(m)' = Stored(m) /\ errorQueue'[m] = errorQueue[m]
  BY <1>2 DEF Enqueued, InHand, Stored
<1>4. Holding(m)' = {}
  BY DEF ApiRestart, Holding, Held, IdleRequest
<1>5. InRequest(m)' = 0
  BY <1>4, FS_EmptySet DEF InRequest, Holding
<1>6. CASE Holding(m) = {}
  <2>1. InRequest(m) = 0
    BY <1>6, FS_EmptySet DEF InRequest, Holding
  <2> QED BY <1>1, <1>3, <1>5, <2>1 DEF Conserved, Copies
<1>7. CASE Holding(m) # {}
  <2>1. m \in gone'
    BY <1>7 DEF ApiRestart, Holding
  <2> QED BY <1>1, <1>3, <1>5, <2>1 DEF Conserved, Copies
<1> QED BY <1>6, <1>7

\* A new sample is one more copy of itself, and of nothing else.
LEMMA PushStarts ==
  ASSUME TypeOK, NEW s \in Server, NEW t \in Thread, AgentPush(s, t),
         NEW m \in Sample
  PROVE  Copies(m)' = Copies(m) + Is(<<s, sent[s] + 1>>, m)
<1> DEFINE x == <<s, sent[s] + 1>>
<1>1. /\ Enqueued(m) \in Nat /\ InHand(m) \in Nat /\ InRequest(m) \in Nat
      /\ Stored(m) \in Nat /\ errorQueue[m] \in Nat
  BY PlacesType
<1>2. UNCHANGED <<queue, consumer, probes, errorQueue>>
  BY DEF AgentPush, redisVars, serverVars
<1>3. /\ Enqueued(m)' = Enqueued(m) /\ InHand(m)' = InHand(m)
      /\ Stored(m)' = Stored(m) /\ errorQueue'[m] = errorQueue[m]
  BY <1>2 DEF Enqueued, InHand, Stored
<1>4. /\ request[t].pc = "idle"
      /\ request'[t].pc = "received" /\ request'[t].sample = x
      /\ \A u \in Thread \ {t} : request'[u] = request[u]
  BY DEF AgentPush, TypeOK, RequestType
<1> HIDE DEF x
<1>5. t \notin Holding(m)
  BY <1>4 DEF Holding, Held
<1>6. Holding(m)' = IF x = m THEN Holding(m) \union {t} ELSE Holding(m)
  BY <1>4 DEF Holding, Held
<1>7. Cardinality(Holding(m)') = Cardinality(Holding(m)) + Is(x, m)
  <2>1. IsFiniteSet(Holding(m)) /\ Cardinality(Holding(m)) \in Nat
    BY HoldingType, FS_CardinalityType
  <2>2. Cardinality(Holding(m) \union {t}) = Cardinality(Holding(m)) + 1
    BY <1>5, <2>1, FS_AddElement
  <2> QED BY <1>6, <2>1, <2>2 DEF Is
<1>8. InRequest(m)' = InRequest(m) + Is(x, m)
  BY <1>7 DEF InRequest, Holding
<1>9. Is(x, m) \in {0, 1}
  BY DEF Is
<1>10. Copies(m)' = Copies(m) + Is(x, m)
  BY <1>1, <1>3, <1>8, <1>9 DEF Copies
<1> QED BY <1>10 DEF x

\* A step that touches none of the five places.
LEMMA StillConserves ==
  ASSUME TypeOK, UNCHANGED <<queue, consumer, request, probes, errorQueue>>,
         NEW m \in Sample
  PROVE  Conserved(m)
<1>1. Copies(m)' = Copies(m) /\ Copies(m) \in Nat
  BY PlacesType
  DEF Copies, Enqueued, InHand, InRequest, Held, Stored
<1> QED BY <1>1 DEF Conserved

\* Any step: a new sample of one agent, or everything is conserved.
LEMMA StepConserves ==
  ASSUME TypeOK, [Next]_vars
  PROVE  \/ \E s \in Server, t \in Thread : AgentPush(s, t)
         \/ sent' = sent /\ \A m \in Sample : Conserved(m)
<1>1. ASSUME NEW t \in Thread, Push(t)
      PROVE  sent' = sent /\ \A m \in Sample : Conserved(m)
  <2>1. sent' = sent
    BY <1>1 DEF Push, Authenticate, Enqueue, EnqueueTwice, EnqueueUnknown,
                EnqueueFails, AcquirePermit, LoadShed, FallbackCommit,
                FallbackFail, FallbackCommitUnknown, Respond
  <2> QED BY <1>1, <2>1, PushConserves
<1>2. CASE Consume \/ ConsumerCrash
  <2>1. sent' = sent
    BY <1>2 DEF Consume, ConsumerCrash, Pop, PopLost, Load, Commit,
                CommitFails, CommitUnknown, Park, ParkFails
  <2> QED BY <1>2, <2>1, ConsumerConserves
<1>3. CASE ApiRestart
  <2>1. sent' = sent
    BY <1>3 DEF ApiRestart
  <2> QED BY <1>3, <2>1, RestartConserves
<1>4. CASE \/ \E s \in Server : AgentTimeout(s)
           \/ RedisDown
           \/ RedisBack
           \/ Finished
           \/ UNCHANGED vars
  <2>1. UNCHANGED <<sent, queue, consumer, request, probes, errorQueue>>
    BY <1>4 DEF AgentTimeout, RedisDown, RedisBack, Finished, vars, redisVars,
                serverVars
  <2> QED BY <2>1, StillConserves
<1> QED BY <1>1, <1>2, <1>3, <1>4 DEF Next

\* What was observed stays observed.
LEMMA GhostsGrow ==
  ASSUME [Next]_vars
  PROVE  /\ shed \subseteq shed' /\ rejected \subseteq rejected'
         /\ gone \subseteq gone' /\ ambiguous \subseteq ambiguous'
<1> USE DEF ghostVars
<1>1. ASSUME NEW t \in Thread, Push(t)
      PROVE  /\ shed \subseteq shed' /\ rejected \subseteq rejected'
             /\ gone \subseteq gone' /\ ambiguous \subseteq ambiguous'
  BY <1>1 DEF Push, Authenticate, Enqueue, EnqueueTwice, EnqueueUnknown,
              EnqueueFails, AcquirePermit, LoadShed, FallbackCommit,
              FallbackFail, FallbackCommitUnknown, FallbackRaises, Respond
<1>2. CASE Consume \/ ConsumerCrash
  BY <1>2 DEF Consume, ConsumerCrash, Pop, PopLost, Load, Commit, CommitFails,
              CommitUnknown, Park, ParkFails
<1>3. CASE \/ \E s \in Server, t \in Thread : AgentPush(s, t)
           \/ \E s \in Server : AgentTimeout(s)
           \/ ApiRestart
           \/ RedisDown
           \/ RedisBack
           \/ Finished
           \/ UNCHANGED vars
  BY <1>3 DEF AgentPush, AgentTimeout, ApiRestart, RedisDown, RedisBack,
              Finished, vars
<1> QED BY <1>1, <1>2, <1>3 DEF Next
-----------------------------------------------------------------------------
(* The invariant.                                                          *)

\* There is no copy of a sample before its agent takes it.
NotBeforeSent == \A m \in Sample : m[2] > sent[m[1]] => Copies(m) = 0

\* At first there is no copy of anything.
LEMMA InitDelivery == Init => NotBeforeSent /\ AtMostOnce /\ NothingVanishes
<1> SUFFICES ASSUME Init PROVE NotBeforeSent /\ AtMostOnce /\ NothingVanishes
  OBVIOUS
<1>1. ASSUME NEW m \in Sample
      PROVE  Copies(m) = 0 /\ sent[m[1]] = 0 /\ m[2] \in Nat /\ m[2] > 0
  <2>1. m[1] \in Server /\ m[2] \in 1..MaxPush
    BY DEF Sample
  <2>2. Enqueued(m) = 0 /\ Stored(m) = 0
    <3>1. {i \in DOMAIN << >> : << >>[i] = m} = {}
      OBVIOUS
    <3>2. {i \in DOMAIN << >> : << >>[i] = m[2]} = {}
      OBVIOUS
    <3>3. queue = << >> /\ probes[m[1]] = << >>
      BY <2>1 DEF Init
    <3> QED BY <3>1, <3>2, <3>3, FS_EmptySet DEF Enqueued, Stored
  <2>3. InHand(m) = 0
    BY PipelineAssumption DEF Init, IdleConsumer, InHand, Sample
  <2>4. InRequest(m) = 0
    <3>1. {t \in Held : request[t].sample = m} = {}
      BY DEF Init, IdleRequest, Held
    <3> QED BY <3>1, FS_EmptySet DEF InRequest
  <2>5. errorQueue[m] = 0 /\ sent[m[1]] = 0
    BY <2>1 DEF Init
  <2> QED BY <2>1, <2>2, <2>3, <2>4, <2>5 DEF Copies
<1> QED BY <1>1 DEF NotBeforeSent, AtMostOnce, NothingVanishes

\* PlacesType, of the next state.
LEMMA CopiesTypeNext ==
  ASSUME NEW m \in Sample
  PROVE  (TypeOK => Copies(m) \in Nat)'
<1>1. TypeOK => Copies(m) \in Nat
  BY PlacesType
<1> QED BY <1>1, PTL

\* An agent that takes its next sample takes one there is no copy of.
LEMMA DeliveryStep ==
  ASSUME TypeOK, TypeOK', NotBeforeSent, AtMostOnce, NothingVanishes,
         [Next]_vars, NEW m \in Sample
  PROVE  /\ m[2] > sent'[m[1]] => Copies(m)' = 0
         /\ m \notin ambiguous' => Copies(m)' <= 1
         /\ m[2] <= sent'[m[1]] =>
              Copies(m)' >= 1 \/ m \in shed' \union rejected' \union gone'
<1>1. /\ m = <<m[1], m[2]>> /\ m[1] \in Server /\ m[2] \in 1..MaxPush
      /\ sent[m[1]] \in Nat
  BY DEF Sample, TypeOK
<1>2. /\ Copies(m) \in Nat
      /\ m[2] > sent[m[1]] => Copies(m) = 0
      /\ m \notin ambiguous => Copies(m) <= 1
      /\ m[2] <= sent[m[1]] =>
           Copies(m) >= 1 \/ m \in shed \union rejected \union gone
  BY PlacesType DEF NotBeforeSent, AtMostOnce, NothingVanishes
<1>3. Copies(m)' \in Nat
  BY CopiesTypeNext
<1>4. /\ m \notin ambiguous' => m \notin ambiguous
      /\ m \in shed \union rejected \union gone
           => m \in shed' \union rejected' \union gone'
  BY GhostsGrow
<1>5. ASSUME sent' = sent, Conserved(m)
      PROVE  /\ m[2] > sent'[m[1]] => Copies(m)' = 0
             /\ m \notin ambiguous' => Copies(m)' <= 1
             /\ m[2] <= sent'[m[1]] =>
                  Copies(m)' >= 1 \/ m \in shed' \union rejected' \union gone'
  BY <1>1, <1>2, <1>3, <1>4, <1>5 DEF Conserved
<1>6. ASSUME NEW s \in Server, NEW t \in Thread, AgentPush(s, t)
      PROVE  /\ m[2] > sent'[m[1]] => Copies(m)' = 0
             /\ m \notin ambiguous' => Copies(m)' <= 1
             /\ m[2] <= sent'[m[1]] =>
                  Copies(m)' >= 1 \/ m \in shed' \union rejected' \union gone'
  <2>1. Copies(m)' = Copies(m) + Is(<<s, sent[s] + 1>>, m)
    BY <1>6, PushStarts
  <2>2. sent' = [sent EXCEPT ![s] = sent[s] + 1]
    BY <1>6 DEF AgentPush
  <2>3. CASE m = <<s, sent[s] + 1>>
    <3>1. m[1] = s /\ m[2] = sent[s] + 1 /\ sent'[m[1]] = m[2]
      BY <1>1, <2>2, <2>3 DEF TypeOK
    <3>2. Copies(m)' = Copies(m) + 1 /\ Copies(m) = 0
      BY <1>1, <1>2, <2>1, <2>3, <3>1 DEF Is
    <3> QED BY <1>1, <3>1, <3>2
  <2>4. CASE m # <<s, sent[s] + 1>>
    <3>1. Copies(m)' = Copies(m)
      BY <1>2, <2>1, <2>4 DEF Is
    <3>2. CASE m[1] = s
      <4>1. sent'[m[1]] = sent[m[1]] + 1 /\ m[2] # sent[m[1]] + 1
        BY <1>1, <2>2, <2>4, <3>2 DEF TypeOK
      <4> QED BY <1>1, <1>2, <1>4, <3>1, <4>1
    <3>3. CASE m[1] # s
      <4>1. sent'[m[1]] = sent[m[1]]
        BY <1>1, <2>2, <3>3 DEF TypeOK
      <4> QED BY <1>2, <1>4, <3>1, <4>1
    <3> QED BY <3>2, <3>3
  <2> QED BY <2>3, <2>4
<1> QED BY <1>5, <1>6, StepConserves

\* The three together are inductive.
LEMMA DeliveryCorrect == Spec => [](NotBeforeSent /\ AtMostOnce /\ NothingVanishes)
<1>1. TypeOK /\ TypeOK' /\ NotBeforeSent /\ AtMostOnce /\ NothingVanishes
        /\ [Next]_vars
        => NotBeforeSent' /\ AtMostOnce' /\ NothingVanishes'
  BY DeliveryStep DEF NotBeforeSent, AtMostOnce, NothingVanishes
<1>2. QED
  BY <1>1, InitDelivery, TypeCorrect, PTL DEF Spec

\* No sample is ever in two places, whatever fails and in whatever order,
\* unless the reply to an RPUSH or a COMMIT that took effect was lost.
THEOREM DeliveredAtMostOnce == Spec => []AtMostOnce
BY DeliveryCorrect, PTL

\* No sample disappears without being shed, rejected or lost with a process:
\* agent_push and the consumer have no path that forgets one.
THEOREM NoneVanishes == Spec => []NothingVanishes
BY DeliveryCorrect, PTL
=============================================================================
