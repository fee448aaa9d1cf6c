---------------------------- MODULE ServerStatus ----------------------------
(***************************************************************************)
(* servers.status of one monitored server, and everyone who writes it:     *)
(*                                                                         *)
(*   api/agent.py agent_push         the heartbeat agent_key_last_used, and *)
(*                                   "online" when Redis fails             *)
(*   workers/agent_consumer.py       "online" for every queued push        *)
(*   scheduler_jobs/probe_jobs.py    _job_tcp_ping and _job_fetch_probes,  *)
(*                                   in every process with a scheduler     *)
(*   api/probe.py, api/servers.py    an administrator's request            *)
(*                                                                         *)
(* Time passes in ticks.  A timestamp is represented by its age; ages above *)
(* Fresh are not told apart, and NULL is such an age.  Every transaction   *)
(* is a load (the REPEATABLE READ snapshot) and, later, a commit that      *)
(* writes the status only if it differs from the loaded one.               *)
(***************************************************************************)
EXTENDS Integers

CONSTANTS
  Status,         \* the values of the column that occur
  Scheduler,      \* the processes that run the background jobs
  Fresh,          \* AGENT_STATUS_FRESH_SECONDS
  PushEvery,      \* INTERVAL of the agent
  PushTicks,      \* bound: how long a push request is under way
  PingTicks,      \* bound: how long a run of tcp_ping is under way
  HasAgent,       \* an agent is installed on the server
  HasProbe,       \* the server has a probe_url
  PingResult,     \* what a TCP connection attempt may show
  ProbeResult,    \* what the exporter may answer
  FailLimit,      \* 3 failures in a row
  FailTTL,        \* the expiry of vps:probe_fail:{id}
  MaxQueue,       \* bound: pushes waiting in the queue
  Faults,         \* the kinds of failure that may happen
  MaxFaults,      \* bound: how many failures happen in a behaviour
  Requests,       \* the administrator's requests that may happen
  MaxRequests     \* bound: how many of them happen in a behaviour

FaultKind == {"redis",       \* an operation on Redis raises
              "dbError",     \* the transaction fails and is rolled back
              "agentStops"}  \* the host or its agent goes down
RequestKind == {"ping", "fetch", "edit", "newKey"}

ASSUME StatusAssumption ==
  /\ {"online", "offline", "unknown"} \subseteq Status
  /\ Fresh \in Nat
  /\ PushEvery \in Nat /\ PushTicks \in Nat /\ PingTicks \in Nat
  /\ PingTicks <= Fresh
  /\ HasAgent \in BOOLEAN /\ HasProbe \in BOOLEAN
  /\ PingResult \subseteq Status
  /\ ProbeResult \subseteq Status \union {"error", "same"}
  /\ FailLimit \in Nat \ {0} /\ FailTTL \in Nat
  /\ MaxQueue \in Nat /\ MaxFaults \in Nat /\ MaxRequests \in Nat
  /\ Faults \subseteq FaultKind
  /\ Requests \subseteq RequestKind

VARIABLES
  status,       \* servers.status, committed
  age,          \* the age of servers.agent_key_last_used, committed
  alive,        \* the agent runs
  sincePush,    \* ticks since the agent sent its last push
  push,         \* the push request under way
  queued,       \* pushes of this server in vps:agent:metrics_queue
  consumer,     \* the agent_consumer process
  ping,         \* ping[p]: the run of _job_tcp_ping in process p
  fetch,        \* fetch[p]: the run of _job_fetch_probes in process p
  request,      \* the administrator's request under way
  fails,        \* vps:probe_fail:{id}, as [count, left]: left ticks to live
  faultsLeft,   \* failures that may still happen
  requestsLeft, \* administrator's requests that may still happen
  \* observation only: nothing in the code reads these
  steady,       \* ticks since the heartbeat was last older than Quiet
  streak        \* fetches of the job that failed since it last cleared fails

vars == <<status, age, alive, sincePush, push, queued, consumer, ping, fetch,
          request, fails, faultsLeft, requestsLeft, steady, streak>>

Old == Fresh + 1               \* any age that is not fresh, and NULL
Age == 0..Old
Quiet == Fresh - PingTicks     \* a heartbeat of this age outlives a ping run

Older(a) == IF a < Old THEN a + 1 ELSE a
Capped(n, limit) == IF n < limit THEN n ELSE limit

IdlePush    == [pc |-> "idle", loaded |-> "unknown", age |-> 0]
IdleLoop    == [pc |-> "idle", loaded |-> "unknown"]
IdlePing    == [pc |-> "idle", loaded |-> "unknown", age |-> 0, ticks |-> 0,
                new |-> "unknown"]
IdleFetch   == [pc |-> "idle", loaded |-> "unknown", new |-> "unknown"]
NoFailure   == [count |-> 0, left |-> 0]

\* A server that was just created: no agent has reported yet.
Init ==
  /\ status = "unknown"
  /\ age = Old
  /\ alive = HasAgent
  /\ sincePush = 0
  /\ push = IdlePush
  /\ queued = 0
  /\ consumer = IdleLoop
  /\ ping = [p \in Scheduler |-> IdlePing]
  /\ fetch = [p \in Scheduler |-> IdleFetch]
  /\ request = IdleFetch
  /\ fails = NoFailure
  /\ faultsLeft = MaxFaults
  /\ requestsLeft = MaxRequests
  /\ steady = 0
  /\ streak = 0

Fail(kind) ==
  /\ kind \in Faults
  /\ faultsLeft > 0
  /\ faultsLeft' = faultsLeft - 1

Ask(kind) ==
  /\ kind \in Requests
  /\ requestsLeft > 0
  /\ requestsLeft' = requestsLeft - 1

\* The ORM emits an UPDATE of the column only if its value has changed.
WriteStatus(loaded, new) == status' = IF new = loaded THEN status ELSE new

\* agent_key_last_used gets a new value.
SetHeartbeat(a) ==
  /\ age' = Capped(a, Old)
  /\ steady' = IF a > Quiet THEN 0 ELSE steady

-----------------------------------------------------------------------------
(* Time, and the host.                                                     *)

\* A request, a ping run and the agent's pause do not last for ever.
MayPass ==
  /\ alive => sincePush < PushEvery
  /\ push.pc # "idle" => push.age < PushTicks
  /\ \A p \in Scheduler : ping[p].pc # "idle" => ping[p].ticks < PingTicks

Aged(run) ==
  [run EXCEPT !.age   = IF run.pc = "pinging" THEN Older(@) ELSE @,
              !.ticks = IF run.pc = "idle" THEN @ ELSE @ + 1]

\* EXPIRE counts down; a counter without an expiry (left = 0) stays.
Expiring(c) == IF c.left = 1 THEN NoFailure
               ELSE [c EXCEPT !.left = IF @ = 0 THEN 0 ELSE @ - 1]

Tick ==
  /\ MayPass
  /\ age' = Older(age)
  /\ steady' = IF age' > Quiet THEN 0 ELSE Capped(steady + 1, PingTicks + 1)
  /\ sincePush' = IF alive THEN sincePush + 1 ELSE sincePush
  /\ push' = IF push.pc = "idle" THEN push ELSE [push EXCEPT !.age = @ + 1]
  /\ ping' = [p \in Scheduler |-> Aged(ping[p])]
  /\ fails' = Expiring(fails)
  /\ UNCHANGED <<status, alive, queued, consumer, fetch, request, faultsLeft,
                 requestsLeft, streak>>

AgentStops ==
  /\ alive
  /\ Fail("agentStops")
  /\ alive' = FALSE
  /\ sincePush' = 0
  /\ UNCHANGED <<status, age, push, queued, consumer, ping, fetch, request,
                 fails, requestsLeft, steady, streak>>

AgentReturns ==
  /\ HasAgent /\ ~alive
  /\ alive' = TRUE
  /\ UNCHANGED <<status, age, sincePush, push, queued, consumer, ping, fetch,
                 request, fails, faultsLeft, requestsLeft, steady, streak>>

-----------------------------------------------------------------------------
(* agent_push and agent_consumer.                                          *)

\* The handler loads the row and stamps it with the present time.
Authenticate ==
  /\ alive
  /\ push.pc = "idle"
  /\ push' = [pc |-> "stamped", loaded |-> status, age |-> 0]
  /\ sincePush' = 0
  /\ UNCHANGED <<status, age, alive, queued, consumer, ping, fetch, request,
                 fails, faultsLeft, requestsLeft, steady, streak>>

\* RPUSH; MaxQueue bounds the list.
Enqueue ==
  /\ push.pc = "stamped"
  /\ queued < MaxQueue
  /\ queued' = queued + 1
  /\ push' = [push EXCEPT !.pc = "respond"]
  /\ UNCHANGED <<status, age, alive, sincePush, consumer, ping, fetch, request,
                 fails, faultsLeft, requestsLeft, steady, streak>>

EnqueueFails ==
  /\ push.pc = "stamped"
  /\ Fail("redis")
  /\ push' = [push EXCEPT !.pc = "fallback"]
  /\ UNCHANGED <<status, age, alive, sincePush, queued, consumer, ping, fetch,
                 request, fails, requestsLeft, steady, streak>>

\* The synchronous write: status and heartbeat in one transaction.  What is
\* left of the request does not concern the status.
FallbackCommit ==
  /\ push.pc = "fallback"
  /\ WriteStatus(push.loaded, "online")
  /\ SetHeartbeat(push.age)
  /\ push' = IdlePush
  /\ UNCHANGED <<alive, sincePush, queued, consumer, ping, fetch, request,
                 fails, faultsLeft, requestsLeft, streak>>

\* Pushes of other servers hold all permits: the sample is dropped.
LoadShed ==
  /\ push.pc = "fallback"
  /\ push' = [push EXCEPT !.pc = "respond"]
  /\ UNCHANGED <<status, age, alive, sincePush, queued, consumer, ping, fetch,
                 request, fails, faultsLeft, requestsLeft, steady, streak>>

\* The commit of the heartbeat, apart from that of the metrics.
Heartbeat ==
  /\ push.pc = "respond"
  /\ SetHeartbeat(push.age)
  /\ push' = IdlePush
  /\ UNCHANGED <<status, alive, sincePush, queued, consumer, ping, fetch,
                 request, fails, faultsLeft, requestsLeft, streak>>

PushFails ==
  /\ push.pc \in {"fallback", "respond"}
  /\ Fail("dbError")
  /\ push' = IdlePush
  /\ UNCHANGED <<status, age, alive, sincePush, queued, consumer, ping, fetch,
                 request, fails, requestsLeft, steady, streak>>

PushStep ==
  \/ Authenticate
  \/ Enqueue
  \/ EnqueueFails
  \/ FallbackCommit
  \/ LoadShed
  \/ Heartbeat
  \/ PushFails

ConsumerLoad ==
  /\ consumer.pc = "idle"
  /\ queued > 0
  /\ queued' = queued - 1
  /\ consumer' = [pc |-> "loaded", loaded |-> status]
  /\ UNCHANGED <<status, age, alive, sincePush, push, ping, fetch, request,
                 fails, faultsLeft, requestsLeft, steady, streak>>

\* "an accepted push means the node is reachable now"
ConsumerCommit ==
  /\ consumer.pc = "loaded"
  /\ WriteStatus(consumer.loaded, "online")
  /\ consumer' = IdleLoop
  /\ UNCHANGED <<age, alive, sincePush, push, queued, ping, fetch, request,
                 fails, faultsLeft, requestsLeft, steady, streak>>

ConsumerFails ==
  /\ consumer.pc = "loaded"
  /\ Fail("dbError")
  /\ consumer' = IdleLoop
  /\ UNCHANGED <<status, age, alive, sincePush, push, queued, ping, fetch,
                 request, fails, requestsLeft, steady, streak>>

Consume == ConsumerLoad \/ ConsumerCommit \/ ConsumerFails

-----------------------------------------------------------------------------
(* _job_tcp_ping in process p.                                             *)

PingLoad(p) ==
  /\ ping[p].pc = "idle"
  /\ ping' = [ping EXCEPT ![p] = [pc |-> "pinging", loaded |-> status,
                                  age |-> age, ticks |-> 0,
                                  new |-> "unknown"]]
  /\ UNCHANGED <<status, age, alive, sincePush, push, queued, consumer, fetch,
                 request, fails, faultsLeft, requestsLeft, steady, streak>>

\* Mutant: the job records what the connection attempt showed.
MeasuredOnly(run, result) == result

\* Mutant: the heartbeat is compared with half the period.
HalfPeriod(run, result) == IF 2 * run.age <= Fresh THEN "online" ELSE result

\* Mutant: a heartbeat, however old, means the agent is in charge.
AnyHeartbeat(run, result) == "online"

\* After all connection attempts: the heartbeat that was loaded before them
\* decides, by its age now, whether their result counts.
Verdict(run, result) == IF run.age <= Fresh THEN "online" ELSE result

PingDecide(p) ==
  /\ ping[p].pc = "pinging"
  /\ \E r \in PingResult :
       ping' = [ping EXCEPT ![p].pc = "decided",
                            ![p].age = 0,
                            ![p].new = Verdict(ping[p], r)]
  /\ UNCHANGED <<status, age, alive, sincePush, push, queued, consumer, fetch,
                 request, fails, faultsLeft, requestsLeft, steady, streak>>

PingCommit(p) ==
  /\ ping[p].pc = "decided"
  /\ WriteStatus(ping[p].loaded, ping[p].new)
  /\ ping' = [ping EXCEPT ![p] = IdlePing]
  /\ UNCHANGED <<age, alive, sincePush, push, queued, consumer, fetch, request,
                 fails, faultsLeft, requestsLeft, steady, streak>>

PingFails(p) ==
  /\ ping[p].pc = "decided"
  /\ Fail("dbError")
  /\ ping' = [ping EXCEPT ![p] = IdlePing]
  /\ UNCHANGED <<status, age, alive, sincePush, push, queued, consumer, fetch,
                 request, fails, requestsLeft, steady, streak>>

Ping(p) == PingLoad(p) \/ PingDecide(p) \/ PingCommit(p) \/ PingFails(p)

-----------------------------------------------------------------------------
(* _job_fetch_probes in process p.                                         *)

FetchLoad(p) ==
  /\ HasProbe
  /\ fetch[p].pc = "idle"
  /\ fetch' = [fetch EXCEPT ![p] = [pc |-> "fetching", loaded |-> status,
                                    new |-> status]]
  /\ UNCHANGED <<status, age, alive, sincePush, push, queued, consumer, ping,
                 request, fails, faultsLeft, requestsLeft, steady, streak>>

\* Mutant: the default for a missing status is lost.
AnswerRaw(loaded, r) == r

\* A generic exporter that reports no status leaves the one loaded.
Answer(loaded, r) == IF r = "same" THEN loaded ELSE r

\* Mutant: a success leaves the failures counted so far.
KeepFailures ==
  \/ fails' = fails /\ UNCHANGED faultsLeft
  \/ UNCHANGED fails /\ Fail("redis")

\* The counter is deleted, if SETEX and DELETE before it work.
ClearFailures ==
  \/ fails' = NoFailure /\ UNCHANGED faultsLeft
  \/ UNCHANGED fails /\ Fail("redis")

FetchSucceeds(p) ==
  /\ fetch[p].pc = "fetching"
  /\ \E r \in ProbeResult \ {"error"} :
       fetch' = [fetch EXCEPT ![p].pc = "fetched",
                              ![p].new = Answer(fetch[p].loaded, r)]
  /\ ClearFailures
  /\ streak' = IF faultsLeft' = faultsLeft THEN 0 ELSE streak
  /\ UNCHANGED <<status, age, alive, sincePush, push, queued, consumer, ping,
                 request, requestsLeft, steady>>

\* INCR and EXPIRE work; the third failure in the window marks the server.
FetchErrs(p) ==
  /\ fetch[p].pc = "fetching"
  /\ "error" \in ProbeResult
  /\ fails' = [count |-> Capped(fails.count + 1, FailLimit), left |-> FailTTL]
  /\ fetch' = [fetch EXCEPT ![p].pc = "fetched",
                            ![p].new = IF fails'.count >= FailLimit
                                       THEN "offline" ELSE @]
  /\ streak' = Capped(streak + 1, FailLimit)
  /\ UNCHANGED <<status, age, alive, sincePush, push, queued, consumer, ping,
                 request, faultsLeft, requestsLeft, steady>>

\* INCR raises, or EXPIRE does after it: the failure is logged and no more.
FetchErrsUncounted(p) ==
  /\ fetch[p].pc = "fetching"
  /\ "error" \in ProbeResult
  /\ Fail("redis")
  /\ fails' \in {fails,
                 [fails EXCEPT !.count = Capped(@ + 1, FailLimit)]}
  /\ fetch' = [fetch EXCEPT ![p].pc = "fetched"]
  /\ streak' = Capped(streak + 1, FailLimit)
  /\ UNCHANGED <<status, age, alive, sincePush, push, queued, consumer, ping,
                 request, requestsLeft, steady>>

\* The commit comes after the fetches of all other servers.
FetchCommit(p) ==
  /\ fetch[p].pc = "fetched"
  /\ WriteStatus(fetch[p].loaded, fetch[p].new)
  /\ fetch' = [fetch EXCEPT ![p] = IdleFetch]
  /\ UNCHANGED <<age, alive, sincePush, push, queued, consumer, ping, request,
                 fails, faultsLeft, requestsLeft, steady, streak>>

FetchFails(p) ==
  /\ fetch[p].pc = "fetched"
  /\ Fail("dbError")
  /\ fetch' = [fetch EXCEPT ![p] = IdleFetch]
  /\ UNCHANGED <<status, age, alive, sincePush, push, queued, consumer, ping,
                 request, fails, requestsLeft, steady, streak>>

Fetch(p) ==
  \/ FetchLoad(p)
  \/ FetchSucceeds(p)
  \/ FetchErrs(p)
  \/ FetchErrsUncounted(p)
  \/ FetchCommit(p)
  \/ FetchFails(p)

-----------------------------------------------------------------------------
(* The administrator's requests.                                           *)

\* PUT /servers/{id} and POST /servers/{id}/metrics: any of the fields, status
\* among them.
EditStatus ==
  /\ Ask("edit")
  /\ status' \in Status
  /\ UNCHANGED <<age, alive, sincePush, push, queued, consumer, ping, fetch,
                 request, fails, faultsLeft, steady, streak>>

\* POST /servers/{id}/agent-key/generate: the new key was never used.
NewKey ==
  /\ Ask("newKey")
  /\ SetHeartbeat(Old)
  /\ UNCHANGED <<status, alive, sincePush, push, queued, consumer, ping, fetch,
                 request, fails, faultsLeft, streak>>

\* POST /probe/ping/batch or /probe/fetch-probe loads the servers.
RequestLoad(kind) ==
  /\ kind = "fetch" => HasProbe
  /\ Ask(kind)
  /\ request.pc = "idle"
  /\ request' = [pc |-> kind, loaded |-> status, new |-> status]
  /\ UNCHANGED <<status, age, alive, sincePush, push, queued, consumer, ping,
                 fetch, fails, faultsLeft, steady, streak>>

\* ping_batch records what the connection attempt showed.
RequestPing ==
  /\ request.pc = "ping"
  /\ \E r \in PingResult \ {"unknown"} :
       request' = [request EXCEPT !.pc = "ready", !.new = r]
  /\ UNCHANGED <<status, age, alive, sincePush, push, queued, consumer, ping,
                 fetch, fails, faultsLeft, requestsLeft, steady, streak>>

\* fetch_probe takes what the exporter answered and counts nothing.
RequestFetch ==
  /\ request.pc = "fetch"
  /\ \E r \in ProbeResult :
       request' = [request EXCEPT !.pc = "ready",
                                  !.new = IF r = "error" THEN @
                                          ELSE Answer(request.loaded, r)]
  /\ UNCHANGED <<status, age, alive, sincePush, push, queued, consumer, ping,
                 fetch, fails, faultsLeft, requestsLeft, steady, streak>>

RequestCommit ==
  /\ request.pc = "ready"
  /\ WriteStatus(request.loaded, request.new)
  /\ request' = IdleFetch
  /\ UNCHANGED <<age, alive, sincePush, push, queued, consumer, ping, fetch,
                 fails, faultsLeft, requestsLeft, steady, streak>>

RequestFails ==
  /\ request.pc = "ready"
  /\ Fail("dbError")
  /\ request' = IdleFetch
  /\ UNCHANGED <<status, age, alive, sincePush, push, queued, consumer, ping,
                 fetch, fails, requestsLeft, steady, streak>>

Serve == RequestPing \/ RequestFetch \/ RequestCommit \/ RequestFails

-----------------------------------------------------------------------------
Next ==
  \/ Tick
  \/ AgentStops
  \/ AgentReturns
  \/ PushStep
  \/ Consume
  \/ \E p \in Scheduler : Ping(p)
  \/ \E p \in Scheduler : Fetch(p)
  \/ EditStatus
  \/ NewKey
  \/ \E kind \in {"ping", "fetch"} : RequestLoad(kind)
  \/ Serve

Spec == Init /\ [][Next]_vars

\* Time passes, a running agent pushes, the consumer loops, the schedulers
\* start their interval jobs again and again, and a request is served to its
\* end.  Nothing obliges a host to stop or to return, an administrator to ask
\* or a failure to happen.
Fairness ==
  /\ WF_vars(Tick)
  /\ WF_vars(PushStep)
  /\ WF_vars(Consume)
  /\ \A p \in Scheduler : WF_vars(Ping(p)) /\ WF_vars(Fetch(p))
  /\ WF_vars(Serve)

FairSpec == Spec /\ Fairness

-----------------------------------------------------------------------------
(* Properties.                                                             *)

PingRun  == [pc : {"idle", "pinging", "decided"}, loaded : Status, age : Age,
             ticks : 0..PingTicks, new : Status]
FetchRun == [pc : {"idle", "fetching", "fetched"}, loaded : Status,
             new : Status]

\* The types of the variables.
HostType == alive \in BOOLEAN
TypeOK ==
  /\ status \in Status
  /\ age \in Age
  /\ HostType
  /\ sincePush \in 0..PushEvery
  /\ push \in [pc : {"idle", "stamped", "fallback", "respond"},
               loaded : Status, age : 0..PushTicks]
  /\ queued \in 0..MaxQueue
  /\ consumer \in [pc : {"idle", "loaded"}, loaded : Status]
  /\ ping \in [Scheduler -> PingRun]
  /\ fetch \in [Scheduler -> FetchRun]
  /\ request \in [pc : {"idle", "ping", "fetch", "ready"},
                  loaded : Status, new : Status]
  /\ fails \in [count : 0..FailLimit, left : 0..FailTTL]
  /\ faultsLeft \in 0..MaxFaults
  /\ requestsLeft \in 0..MaxRequests
  /\ steady \in 0..(PingTicks + 1)
  /\ streak \in 0..FailLimit

\* Process p's ping run ends and changes the status to something but online.
PingTakesDown(p) ==
  /\ ping[p].pc = "decided" /\ ping'[p].pc = "idle"
  /\ status' # status /\ status' # "online"

\* A server whose heartbeats have come regularly for longer than a ping run
\* lasts is never taken off "online" by the ping job, though the run decides
\* on a heartbeat it loaded before the connection attempts.
SteadyStaysOnline ==
  [][\A p \in Scheduler : PingTakesDown(p) => steady <= PingTicks]_vars

\* The inductive form: a heartbeat that has been steady was recent when the
\* run loaded it, and has aged by the length of the run since.
SteadyInv ==
  /\ steady > 0 => age <= Quiet
  /\ \A p \in Scheduler : steady > ping[p].ticks =>
       /\ ping[p].pc = "pinging" => ping[p].age <= Quiet + ping[p].ticks
       /\ ping[p].pc = "decided" => ping[p].new = "online"

\* A server whose heartbeats never again grow older than a ping run tolerates
\* is in the end shown as online for good, whatever the TCP pings show, and
\* whatever was under way, failed or was edited before.
KeepsOnline == <>[](age <= Quiet) => <>[](status = "online")

\* A server whose agent stops for good and that refuses connections is in the
\* end shown as offline for good: no push left in the queue, no run that loaded
\* the status before and no edit keeps it up.
GoesOffline == <>[](~alive) => <>[](status = "offline")

\* Process p's fetch fails and turns the server offline: not an exporter that
\* answers "offline".  (At its cap the streak no longer grows.)
FetchTakesDown(p) ==
  /\ fetch[p].pc = "fetching" /\ fetch'[p].pc = "fetched"
  /\ streak' > streak
  /\ fetch[p].new # "offline" /\ fetch'[p].new = "offline"

\* "N probe failures in a row": a fetch run turns the server offline only when
\* the last FailLimit fetches of the job, of whatever process, have failed.  (A
\* success that Redis does not let it record does not count as one.)
OnlyAfterStreak ==
  [][\A p \in Scheduler : FetchTakesDown(p) => streak' >= FailLimit]_vars
=============================================================================
