--------------------------- MODULE AgentPipeline ---------------------------
(***************************************************************************)
(* The path of a metrics sample from a host agent to the servers table:    *)
(*                                                                         *)
(*   vps-agent.py  -- POST /api/v1/agent/push -->  api/agent.py (threads)  *)
(*   api/agent.py  -- RPUSH -->  vps:agent:metrics_queue (a Redis list)    *)
(*   workers/agent_consumer.py  -- BRPOP -->  ingest  -->  MySQL           *)
(*   api/agent.py  -- Redis failure: bounded synchronous write --> MySQL   *)
(*                                                                         *)
(* A sample is <<server, n>>: the n-th reading an agent takes of its       *)
(* network counter.  One counter stands for the pair (bytes_out_total,     *)
(* bytes_in_total), which the code treats alike, and used for              *)
(* traffic_used_gb.  Every sample carries a byte total and falls into one  *)
(* UTC hour, hence one rollup bucket per server.                           *)
(*                                                                         *)
(* Every database transaction is a load (the REPEATABLE READ snapshot its  *)
(* first query takes) followed, later, by a commit.                        *)
(***************************************************************************)
EXTENDS Integers, Sequences, FiniteSets

CONSTANTS
  Server,         \* monitored servers, each with one agent
  Thread,         \* request threads of the API process
  FallbackLimit,  \* AGENT_FALLBACK_DB_CONCURRENCY
  MaxPush,        \* bound: samples per agent
  Traces,         \* counter readings an agent may see: [1..MaxPush -> Nat]
  Faults,         \* the kinds of failure that may happen
  MaxFaults,      \* bound: how many failures happen in a behaviour
  NoSample        \* no message in hand

FaultKind == {"redisDown",         \* the Redis connection is lost for a while
              "rpushReplyLost",    \* RPUSH executed, its reply never arrives
              "popReplyLost",      \* BRPOP executed, its reply never arrives
              "dbError",           \* the transaction fails and is rolled back
              "commitReplyLost",   \* COMMIT executed, its reply never arrives
              "clientTimeout",     \* the agent gives up after 15 seconds
              "consumerCrash",
              "apiRestart"}

ASSUME PipelineAssumption ==
  /\ IsFiniteSet(Thread)
  /\ FallbackLimit \in Nat
  /\ MaxPush \in Nat
  /\ Traces \subseteq [1..MaxPush -> Nat]
  /\ Faults \subseteq FaultKind
  /\ MaxFaults \in Nat
  /\ NoSample \notin Server \X (1..MaxPush)

Sample == Server \X (1..MaxPush)

VARIABLES
  reading,      \* reading[s][n]: what the counter of s shows at sample n
  sent,         \* sent[s]: samples the agent of s has taken
  waiting,      \* waiting[s]: the agent of s awaits the reply to its push
  redisUp,      \* the API and the consumer reach Redis
  queue,        \* vps:agent:metrics_queue, head at 1, tail at Len(queue)
  errorQueue,   \* errorQueue[m]: copies of m in vps:agent:metrics_queue:error
  permits,      \* value of _fallback_db_sem
  request,      \* request[t]: the push that thread t serves
  consumer,     \* the agent_consumer process
  db,           \* db[s]: the committed row of s and its rollup bucket
  probes,       \* probes[s]: committed probe_results rows, in commit order
  faultsLeft,   \* failures that may still happen
  \* observation only: nothing in the code reads these
  shed,         \* samples dropped by load-shedding
  rejected,     \* samples whose push was answered with a server error
  gone,         \* samples of which a copy was discarded without a trace
  ambiguous,    \* samples for which a reply was lost after the effect
  stale         \* stale[s]: a commit overwrote a row changed since its load

serverVars == <<db, probes, stale>>
redisVars  == <<redisUp, queue, errorQueue>>
ghostVars  == <<shed, rejected, gone, ambiguous>>
vars == <<reading, sent, waiting, redisUp, queue, errorQueue, permits, request,
          consumer, db, probes, faultsLeft, shed, rejected, gone, ambiguous,
          stale>>

Row == [snap : Nat, used : Nat, rollup : Nat]
EmptyRow == [snap |-> 0, used |-> 0, rollup |-> 0]

ThreadPC == {"idle", "received", "authenticated", "fallback", "writing",
             "respond"}
ConsumerPC == {"polling", "popped", "loaded", "failing"}

IdleRequest  == [pc |-> "idle", sample |-> NoSample, row |-> EmptyRow]
IdleConsumer == [pc |-> "polling", sample |-> NoSample, row |-> EmptyRow]

Init ==
  /\ reading \in [Server -> Traces]
  /\ sent = [s \in Server |-> 0]
  /\ waiting = [s \in Server |-> FALSE]
  /\ redisUp = TRUE
  /\ queue = << >>
  /\ errorQueue = [m \in Sample |-> 0]
  /\ permits = FallbackLimit
  /\ request = [t \in Thread |-> IdleRequest]
  /\ consumer = IdleConsumer
  /\ db = [s \in Server |-> EmptyRow]
  /\ probes = [s \in Server |-> << >>]
  /\ faultsLeft = MaxFaults
  /\ shed = {}
  /\ rejected = {}
  /\ gone = {}
  /\ ambiguous = {}
  /\ stale = [s \in Server |-> FALSE]

-----------------------------------------------------------------------------
(* Ingestion: what one accepted sample does to a server.                   *)

\* Mutant: a total of 0 is a snapshot like any other.
IngestFromZero(row, bytes) ==
  [snap   |-> bytes,
   used   |-> IF bytes >= row.snap THEN row.used + (bytes - row.snap)
              ELSE row.used,
   rollup |-> row.rollup + 1]

\* Mutant: a reading below the snapshot does not replace it.
IngestKeepsHigher(row, bytes) ==
  [snap   |-> IF bytes < row.snap THEN row.snap ELSE bytes,
   used   |-> IF row.snap > 0 /\ bytes >= row.snap
              THEN row.used + (bytes - row.snap)
              ELSE row.used,
   rollup |-> row.rollup + 1]

\* Mutant: a reading below the snapshot is not treated as a counter reset.
IngestUnclamped(row, bytes) ==
  [snap   |-> bytes,
   used   |-> IF row.snap > 0 /\ row.used + bytes >= row.snap
              THEN row.used + bytes - row.snap
              ELSE row.used,
   rollup |-> row.rollup + 1]

\* ingest_metrics and record_telemetry_rollup on a loaded row.  The snapshot
\* is replaced whatever the reading is; a total of 0 counts as "no snapshot".
Ingest(row, bytes) ==
  [snap   |-> bytes,
   used   |-> IF row.snap > 0 /\ bytes >= row.snap
              THEN row.used + (bytes - row.snap)
              ELSE row.used,
   rollup |-> row.rollup + 1]

\* The ORM writes the columns that differ from what it loaded, as values.
Column(current, loaded, new) == IF new # loaded THEN new ELSE current
Overlay(current, loaded, new) ==
  [snap   |-> Column(current.snap, loaded.snap, new.snap),
   used   |-> Column(current.used, loaded.used, new.used),
   rollup |-> Column(current.rollup, loaded.rollup, new.rollup)]

\* The bucket was absent when it was loaded and another transaction has
\* inserted it since: the INSERT violates uq(server, resolution, bucket).
BucketCollision(s, loaded) == loaded.rollup = 0 /\ db[s].rollup > 0

\* COMMIT of sample m by a transaction that loaded the row `loaded'.
CommitSample(m, loaded) ==
  LET s     == m[1]
      bytes == reading[s][m[2]]
  IN  /\ db' = [db EXCEPT ![s] = Overlay(db[s], loaded, Ingest(loaded, bytes))]
      /\ probes' = [probes EXCEPT ![s] = Append(probes[s], m[2])]
      /\ stale' = [stale EXCEPT ![s] = stale[s] \/ loaded # db[s]]

CanFail(kind) == kind \in Faults /\ faultsLeft > 0
Fail(kind) == CanFail(kind) /\ faultsLeft' = faultsLeft - 1

-----------------------------------------------------------------------------
(* The agent (run_forever, push_once): one push at a time, no retry.       *)

AgentPush(s, t) ==
  /\ sent[s] < MaxPush
  /\ ~waiting[s]
  /\ request[t].pc = "idle"
  /\ sent' = [sent EXCEPT ![s] = sent[s] + 1]
  /\ waiting' = [waiting EXCEPT ![s] = TRUE]
  /\ request' = [request EXCEPT ![t] = [pc     |-> "received",
                                        sample |-> <<s, sent[s] + 1>>,
                                        row    |-> EmptyRow]]
  /\ UNCHANGED <<reading, redisVars, permits, consumer, serverVars, faultsLeft,
                 ghostVars>>

\* urlopen(timeout=15) raises, run_forever prints and goes on; the request
\* is still being served.
AgentTimeout(s) ==
  /\ waiting[s]
  /\ Fail("clientTimeout")
  /\ waiting' = [waiting EXCEPT ![s] = FALSE]
  /\ UNCHANGED <<reading, sent, redisVars, permits, request, consumer,
                 serverVars, ghostVars>>

-----------------------------------------------------------------------------
(* agent_push, served by thread t.                                         *)

Goto(t, from, to) ==
  /\ request[t].pc = from
  /\ request' = [request EXCEPT ![t].pc = to]

\* The thread answers (202 or an error) and is free again.  The agent is
\* released if it still waits for this very sample.
Reply(t) ==
  LET m == request[t].sample
  IN  /\ request' = [request EXCEPT ![t] = IdleRequest]
      /\ waiting' = [waiting EXCEPT ![m[1]] =
                       waiting[m[1]] /\ sent[m[1]] # m[2]]

\* _authenticate_agent: the first query of the transaction loads the server.
Authenticate(t) ==
  /\ request[t].pc = "received"
  /\ request' = [request EXCEPT ![t].pc = "authenticated",
                                ![t].row = db[request[t].sample[1]]]
  /\ UNCHANGED <<reading, sent, waiting, redisVars, permits, consumer,
                 serverVars, faultsLeft, ghostVars>>

\* Mutant: the synchronous write is done as well as the enqueueing.
EnqueueAndFallBack(t) ==
  /\ redisUp
  /\ Goto(t, "authenticated", "fallback")
  /\ queue' = Append(queue, request[t].sample)
  /\ UNCHANGED <<reading, sent, waiting, redisUp, errorQueue, permits,
                 consumer, serverVars, faultsLeft, ghostVars>>

\* RPUSH is acknowledged: the request is done but for the heartbeat.
Enqueue(t) ==
  /\ redisUp
  /\ Goto(t, "authenticated", "respond")
  /\ queue' = Append(queue, request[t].sample)
  /\ UNCHANGED <<reading, sent, waiting, redisUp, errorQueue, permits,
                 consumer, serverVars, faultsLeft, ghostVars>>

\* retry_on_timeout: the reply to RPUSH is lost and the client sends it again.
EnqueueTwice(t) ==
  /\ redisUp
  /\ Fail("rpushReplyLost")
  /\ Goto(t, "authenticated", "respond")
  /\ queue' = queue \o <<request[t].sample, request[t].sample>>
  /\ ambiguous' = ambiguous \union {request[t].sample}
  /\ UNCHANGED <<reading, sent, waiting, redisUp, errorQueue, permits,
                 consumer, serverVars, shed, rejected, gone>>

\* RPUSH took effect, yet the client raises: the handler falls back.
EnqueueUnknown(t) ==
  /\ redisUp
  /\ Fail("rpushReplyLost")
  /\ Goto(t, "authenticated", "fallback")
  /\ queue' = Append(queue, request[t].sample)
  /\ ambiguous' = ambiguous \union {request[t].sample}
  /\ UNCHANGED <<reading, sent, waiting, redisUp, errorQueue, permits,
                 consumer, serverVars, shed, rejected, gone>>

EnqueueFails(t) ==
  /\ ~redisUp
  /\ Goto(t, "authenticated", "fallback")
  /\ UNCHANGED <<reading, sent, waiting, redisVars, permits, consumer,
                 serverVars, faultsLeft, ghostVars>>

\* Mutant: the result of acquire() is ignored.
AcquirePermitUnchecked(t) ==
  /\ Goto(t, "fallback", "writing")
  /\ permits' = permits - 1
  /\ UNCHANGED <<reading, sent, waiting, redisVars, consumer, serverVars,
                 faultsLeft, ghostVars>>

\* sem.acquire(blocking=False)
AcquirePermit(t) ==
  /\ permits > 0
  /\ Goto(t, "fallback", "writing")
  /\ permits' = permits - 1
  /\ UNCHANGED <<reading, sent, waiting, redisVars, consumer, serverVars,
                 faultsLeft, ghostVars>>

\* No permit: the metrics are dropped, the agent still gets 202.
LoadShed(t) ==
  /\ permits = 0
  /\ Goto(t, "fallback", "respond")
  /\ shed' = shed \union {request[t].sample}
  /\ UNCHANGED <<reading, sent, waiting, redisVars, permits, consumer,
                 serverVars, faultsLeft, rejected, gone, ambiguous>>

\* The synchronous write succeeds and the permit is returned.
FallbackCommit(t) ==
  /\ Goto(t, "writing", "respond")
  /\ ~BucketCollision(request[t].sample[1], request[t].row)
  /\ CommitSample(request[t].sample, request[t].row)
  /\ permits' = permits + 1
  /\ UNCHANGED <<reading, sent, waiting, redisVars, consumer, faultsLeft,
                 ghostVars>>

\* Mutant: the permit is released on the success path only.
FallbackRaisesWithPermit(t) ==
  /\ UNCHANGED permits
  /\ rejected' = rejected \union {request[t].sample}
  /\ Reply(t)

\* rollback, release the permit, raise: the agent gets an error.
FallbackRaises(t) ==
  /\ permits' = permits + 1
  /\ rejected' = rejected \union {request[t].sample}
  /\ Reply(t)

\* Mutant: the rollup was committed on its own before the write failed.
FallbackFailKeepsRollup(t) ==
  /\ request[t].pc = "writing"
  /\ Fail("dbError")
  /\ db' = [db EXCEPT ![request[t].sample[1]].rollup = @ + 1]
  /\ FallbackRaises(t)
  /\ UNCHANGED <<reading, sent, redisVars, consumer, probes, stale, shed, gone,
                 ambiguous>>

\* The commit fails: the rollup INSERT collides, or the database is in trouble.
FallbackFail(t) ==
  /\ request[t].pc = "writing"
  /\ \/ /\ BucketCollision(request[t].sample[1], request[t].row)
        /\ UNCHANGED faultsLeft
     \/ Fail("dbError")
  /\ FallbackRaises(t)
  /\ UNCHANGED <<reading, sent, redisVars, consumer, serverVars, shed, gone,
                 ambiguous>>

FallbackCommitUnknown(t) ==
  /\ request[t].pc = "writing"
  /\ ~BucketCollision(request[t].sample[1], request[t].row)
  /\ Fail("commitReplyLost")
  /\ CommitSample(request[t].sample, request[t].row)
  /\ ambiguous' = ambiguous \union {request[t].sample}
  /\ FallbackRaises(t)
  /\ UNCHANGED <<reading, sent, redisVars, consumer, shed, gone>>

\* Heartbeat commit (its failure is swallowed), then 202 {"accepted": true}.
Respond(t) ==
  /\ request[t].pc = "respond"
  /\ Reply(t)
  /\ UNCHANGED <<reading, sent, redisVars, permits, consumer, serverVars,
                 faultsLeft, ghostVars>>

\* The process dies and restarts: its threads, its semaphore and the open
\* transactions are new.
Held == {t \in Thread : request[t].pc \in {"received", "authenticated",
                                           "fallback", "writing"}}

ApiRestart ==
  /\ \E t \in Thread : request[t].pc # "idle"
  /\ Fail("apiRestart")
  /\ gone' = gone \union {request[t].sample : t \in Held}
  /\ request' = [t \in Thread |-> IdleRequest]
  /\ permits' = FallbackLimit
  /\ waiting' = [s \in Server |-> FALSE]
  /\ UNCHANGED <<reading, sent, redisVars, consumer, serverVars, shed,
                 rejected, ambiguous>>

-----------------------------------------------------------------------------
(* agent_consumer: run and _handle_message.                                *)

Newest == queue[Len(queue)]
WithoutNewest == SubSeq(queue, 1, Len(queue) - 1)

\* Mutant: the consumer waits for a batch of two.
PopBatched ==
  /\ consumer.pc = "polling"
  /\ redisUp
  /\ Len(queue) > 1
  /\ queue' = WithoutNewest
  /\ consumer' = [pc |-> "popped", sample |-> Newest, row |-> EmptyRow]
  /\ UNCHANGED <<reading, sent, waiting, redisUp, errorQueue, permits, request,
                 serverVars, faultsLeft, ghostVars>>

\* BRPOP takes the element RPUSH added last, and removes it.
Pop ==
  /\ consumer.pc = "polling"
  /\ redisUp
  /\ queue # << >>
  /\ queue' = WithoutNewest
  /\ consumer' = [pc |-> "popped", sample |-> Newest, row |-> EmptyRow]
  /\ UNCHANGED <<reading, sent, waiting, redisUp, errorQueue, permits, request,
                 serverVars, faultsLeft, ghostVars>>

\* The element is removed but never reaches the client: raw_payload is None,
\* the exception handler has nothing to park.
PopLost ==
  /\ consumer.pc = "polling"
  /\ redisUp
  /\ queue # << >>
  /\ Fail("popReplyLost")
  /\ queue' = WithoutNewest
  /\ gone' = gone \union {Newest}
  /\ UNCHANGED <<reading, sent, waiting, redisUp, errorQueue, permits, request,
                 consumer, serverVars, shed, rejected, ambiguous>>

\* db.session.get(Server, id): the snapshot of the consumer's transaction.
Load ==
  /\ consumer.pc = "popped"
  /\ consumer' = [consumer EXCEPT !.pc = "loaded",
                                  !.row = db[consumer.sample[1]]]
  /\ UNCHANGED <<reading, sent, waiting, redisVars, permits, request,
                 serverVars, faultsLeft, ghostVars>>

\* The consumer's transaction commits.
Commit ==
  /\ consumer.pc = "loaded"
  /\ ~BucketCollision(consumer.sample[1], consumer.row)
  /\ CommitSample(consumer.sample, consumer.row)
  /\ consumer' = IdleConsumer
  /\ UNCHANGED <<reading, sent, waiting, redisVars, permits, request,
                 faultsLeft, ghostVars>>

CommitFails ==
  /\ consumer.pc = "loaded"
  /\ \/ /\ BucketCollision(consumer.sample[1], consumer.row)
        /\ UNCHANGED faultsLeft
     \/ Fail("dbError")
  /\ consumer' = [consumer EXCEPT !.pc = "failing"]
  /\ UNCHANGED <<reading, sent, waiting, redisVars, permits, request,
                 serverVars, ghostVars>>

CommitUnknown ==
  /\ consumer.pc = "loaded"
  /\ ~BucketCollision(consumer.sample[1], consumer.row)
  /\ Fail("commitReplyLost")
  /\ CommitSample(consumer.sample, consumer.row)
  /\ consumer' = [consumer EXCEPT !.pc = "failing"]
  /\ ambiguous' = ambiguous \union {consumer.sample}
  /\ UNCHANGED <<reading, sent, waiting, redisVars, permits, request, shed,
                 rejected, gone>>

\* Mutant: the message is logged instead of parked.
ParkLogsOnly ==
  /\ consumer.pc = "failing"
  /\ redisUp
  /\ consumer' = IdleConsumer
  /\ UNCHANGED <<reading, sent, waiting, redisVars, permits, request,
                 serverVars, faultsLeft, ghostVars>>

\* The handler of run(): rollback, RPUSH to the error queue, sleep.
Park ==
  /\ consumer.pc = "failing"
  /\ redisUp
  /\ errorQueue' = [errorQueue EXCEPT ![consumer.sample] = @ + 1]
  /\ consumer' = IdleConsumer
  /\ UNCHANGED <<reading, sent, waiting, redisUp, queue, permits, request,
                 serverVars, faultsLeft, ghostVars>>

\* The RPUSH of the handler fails too: logged, the payload is forgotten.
ParkFails ==
  /\ consumer.pc = "failing"
  /\ ~redisUp
  /\ gone' = gone \union {consumer.sample}
  /\ consumer' = IdleConsumer
  /\ UNCHANGED <<reading, sent, waiting, redisVars, permits, request,
                 serverVars, faultsLeft, shed, rejected, ambiguous>>

ConsumerCrash ==
  /\ consumer.pc # "polling"
  /\ Fail("consumerCrash")
  /\ gone' = gone \union {consumer.sample}
  /\ consumer' = IdleConsumer
  /\ UNCHANGED <<reading, sent, waiting, redisVars, permits, request,
                 serverVars, shed, rejected, ambiguous>>

-----------------------------------------------------------------------------
(* Redis.  Its list survives an outage (redis_data is a volume).           *)

RedisDown ==
  /\ redisUp
  /\ Fail("redisDown")
  /\ redisUp' = FALSE
  /\ UNCHANGED <<reading, sent, waiting, queue, errorQueue, permits, request,
                 consumer, serverVars, ghostVars>>

RedisBack ==
  /\ ~redisUp
  /\ redisUp' = TRUE
  /\ UNCHANGED <<reading, sent, waiting, queue, errorQueue, permits, request,
                 consumer, serverVars, faultsLeft, ghostVars>>

-----------------------------------------------------------------------------
Push(t) ==
  \/ Authenticate(t)
  \/ Enqueue(t)
  \/ EnqueueTwice(t)
  \/ EnqueueUnknown(t)
  \/ EnqueueFails(t)
  \/ AcquirePermit(t)
  \/ LoadShed(t)
  \/ FallbackCommit(t)
  \/ FallbackFail(t)
  \/ FallbackCommitUnknown(t)
  \/ Respond(t)

Consume ==
  \/ Pop
  \/ PopLost
  \/ Load
  \/ Commit
  \/ CommitFails
  \/ CommitUnknown
  \/ Park
  \/ ParkFails

\* The agents have taken MaxPush samples and nothing is under way any more.
Finished ==
  /\ \A s \in Server : sent[s] = MaxPush
  /\ \A t \in Thread : request[t].pc = "idle"
  /\ consumer.pc = "polling"
  /\ queue = << >>
  /\ redisUp
  /\ UNCHANGED vars

Next ==
  \/ \E s \in Server, t \in Thread : AgentPush(s, t)
  \/ \E s \in Server : AgentTimeout(s)
  \/ \E t \in Thread : Push(t)
  \/ Consume
  \/ ConsumerCrash
  \/ ApiRestart
  \/ RedisDown
  \/ RedisBack
  \/ Finished

Spec == Init /\ [][Next]_vars

\* Request threads and the consumer's endless loop keep running and Redis comes
\* back.  Nothing obliges an agent to push or a failure to happen.
Fairness ==
  /\ \A t \in Thread : WF_vars(Push(t))
  /\ WF_vars(Consume)
  /\ WF_vars(RedisBack)

FairSpec == Spec /\ Fairness

-----------------------------------------------------------------------------
(* Properties.                                                             *)

\* A thread or the consumer has a sample in hand exactly while it is busy.
RequestType ==
  /\ request \in [Thread -> [pc : ThreadPC, sample : Sample \union {NoSample},
                             row : Row]]
  /\ \A t \in Thread : request[t].sample = NoSample <=> request[t].pc = "idle"
ConsumerType ==
  /\ consumer \in [pc : ConsumerPC, sample : Sample \union {NoSample},
                   row : Row]
  /\ consumer.sample = NoSample <=> consumer.pc = "polling"

\* The types of the variables.
TypeOK ==
  /\ reading \in [Server -> Traces]
  /\ sent \in [Server -> 0..MaxPush]
  /\ waiting \in [Server -> BOOLEAN]
  /\ redisUp \in BOOLEAN
  /\ queue \in Seq(Sample)
  /\ errorQueue \in [Sample -> Nat]
  /\ permits \in Nat
  /\ RequestType
  /\ ConsumerType
  /\ db \in [Server -> Row]
  /\ probes \in [Server -> Seq(1..MaxPush)]
  /\ faultsLeft \in Nat
  /\ shed \subseteq Sample
  /\ rejected \subseteq Sample
  /\ gone \subseteq Sample
  /\ ambiguous \subseteq Sample
  /\ stale \in [Server -> BOOLEAN]

Writing == {t \in Thread : request[t].pc = "writing"}

\* Every permit of the fallback semaphore is either free or held by exactly one
\* thread that is writing: no path out of agent_push (commit, failed commit,
\* lost reply, load-shedding, restart) leaks one or returns one twice.
PermitsConserved == permits + Cardinality(Writing) = FallbackLimit

\* Where the copies of a sample can be.
Enqueued(m)  == Cardinality({i \in DOMAIN queue : queue[i] = m})
InHand(m)    == IF consumer.sample = m THEN 1 ELSE 0
InRequest(m) == Cardinality({t \in Held : request[t].sample = m})
Stored(m)    == Cardinality({i \in DOMAIN probes[m[1]] :
                               probes[m[1]][i] = m[2]})
Copies(m) == Enqueued(m) + InHand(m) + InRequest(m) + Stored(m) + errorQueue[m]

\* A sample is stored, parked or in flight at most once in all, whatever
\* fails, unless the reply to an RPUSH or a COMMIT that had taken effect was
\* lost: a push never both enqueues and falls back, and a message is never
\* both committed and parked.
AtMostOnce == \A m \in Sample \ ambiguous : Copies(m) <= 1

\* A sample an agent sent is always somewhere, unless it was shed, its push
\* answered with an error, or a copy died with a process or a Redis failure.
NothingVanishes ==
  \A m \in Sample : m[2] <= sent[m[1]] =>
    \/ Copies(m) >= 1
    \/ m \in shed \union rejected \union gone

\* The readings of server s, in the order their commits reached the database.
Committed(s, i) == reading[s][probes[s][i]]
InOrder(s) ==
  \A i \in 1..(Len(probes[s]) - 1) : Committed(s, i) <= Committed(s, i + 1)

\* While no commit overwrote a concurrent one and no total arrived below its
\* predecessor, the accounted traffic is exactly what the counter gained since
\* the first stored sample, however many samples were lost in between.
ExactInOrder ==
  \A s \in Server :
    (/\ ~stale[s]
     /\ Len(probes[s]) > 0
     /\ Committed(s, 1) > 0
     /\ InOrder(s))
    => db[s].used = Committed(s, Len(probes[s])) - Committed(s, 1)

\* The rollup bucket never counts more samples than probe_results holds, and
\* misses one only if a commit overwrote a concurrent one.
RollupCounts ==
  \A s \in Server :
    /\ db[s].rollup <= Len(probes[s])
    /\ ~stale[s] => db[s].rollup = Len(probes[s])

\* The inductive form of the two: an undisturbed row carries the last committed
\* reading and counts every probe, a row without probes is untouched, and no
\* transaction has loaded a bucket that is ahead of probe_results.
RowLedger ==
  \A s \in Server :
    /\ db[s].rollup <= Len(probes[s])
    /\ probes[s] = << >> => db[s] = EmptyRow
    /\ ~stale[s] => db[s].rollup = Len(probes[s])
    /\ ~stale[s] /\ Len(probes[s]) > 0 =>
         db[s].snap = Committed(s, Len(probes[s]))
LoadedLedger ==
  /\ \A t \in Thread : request[t].sample # NoSample =>
       request[t].row.rollup <= Len(probes[request[t].sample[1]])
  /\ consumer.sample # NoSample =>
       consumer.row.rollup <= Len(probes[consumer.sample[1]])
LedgerInv == RowLedger /\ LoadedLedger

\* Accounted traffic goes down only where a commit overwrites a concurrent one.
UsedMonotone ==
  [][\A s \in Server : db'[s].used < db[s].used => stale'[s]]_vars

\* Every sample an agent sends is in the end stored, parked, shed, rejected or
\* lost: it does not stay in a request, in the queue or in the consumer's hand.
InFlight(m) == Enqueued(m) + InHand(m) + InRequest(m) > 0
Settles == \A m \in Sample : InFlight(m) ~> ~InFlight(m)

\* What the counter of s really gained over its first n samples; after a
\* reboot it counts from zero.
Gained(s) ==
  LET gain[n \in 0..MaxPush] ==
        IF n <= 1 THEN 0
        ELSE gain[n - 1] + (IF reading[s][n] >= reading[s][n - 1]
                            THEN reading[s][n] - reading[s][n - 1]
                            ELSE reading[s][n])
  IN  gain[sent[s]]

\* "Exact mode": the traffic accounted from byte totals is never more than the
\* traffic the counter measured.
ExactModeNeverOvercounts == \A s \in Server : db[s].used <= Gained(s)

\* "Failure [of the rollup] must not reject a valid agent push": with a healthy
\* database no push is answered with an error and no message is parked.
RollupNeverRejects ==
  Faults \intersect {"dbError", "commitReplyLost"} = {} =>
    /\ rejected = {}
    /\ \A m \in Sample : errorQueue[m] = 0
=============================================================================
