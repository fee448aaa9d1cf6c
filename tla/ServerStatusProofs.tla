------------------------ MODULE ServerStatusProofs ------------------------
(* Type correctness of ServerStatus, and: the ping job never takes a server *)
(* down whose heartbeats come regularly.                                    *)
EXTENDS ServerStatus, TLAPS

USE StatusAssumption

\* Ageing stays within the ages the model tells apart.
LEMMA OlderType == \A a \in Age : Older(a) \in Age
  BY DEF Older, Age, Old

\* A capped successor stays below the cap.
LEMMA CappedType == \A n, limit \in Nat : Capped(n, limit) \in 0..limit
  BY DEF Capped

\* Updates of a run leave it a run.
LEMMA PingAged ==
  ASSUME NEW run \in PingRun, NEW a \in Age, NEW t \in 0..PingTicks
  PROVE  [run EXCEPT !.age = a, !.ticks = t] \in PingRun
  BY DEF PingRun

LEMMA PingDecided ==
  ASSUME NEW run \in PingRun, NEW n \in Status
  PROVE  [run EXCEPT !.pc = "decided", !.age = 0, !.new = n] \in PingRun
  <1>1. 0 \in Age
    BY DEF Age, Old
  <1> QED BY <1>1 DEF PingRun

LEMMA FetchRunUpdate ==
  ASSUME NEW run \in FetchRun, NEW n \in Status
  PROVE  /\ [run EXCEPT !.pc = "fetched"] \in FetchRun
         /\ [run EXCEPT !.pc = "fetched", !.new = n] \in FetchRun
  BY DEF FetchRun

\* One tick of a ping run.
LEMMA AgedType ==
  ASSUME TypeOK, MayPass, NEW p \in Scheduler
  PROVE  Aged(ping[p]) \in PingRun
  <1> DEFINE run == ping[p]
             a == IF run.pc = "pinging" THEN Older(run.age) ELSE run.age
             t == IF run.pc = "idle" THEN run.ticks ELSE run.ticks + 1
  <1>1. run \in PingRun /\ (run.pc # "idle" => run.ticks < PingTicks)
    BY DEF TypeOK, MayPass
  <1>2. a \in Age
    BY <1>1, OlderType DEF PingRun
  <1>3. t \in 0..PingTicks
    BY <1>1 DEF PingRun
  <1>4. Aged(run) = [run EXCEPT !.age = a, !.ticks = t]
    BY DEF Aged
  <1> HIDE DEF a, t, run
  <1>5. [run EXCEPT !.age = a, !.ticks = t] \in PingRun
    BY <1>1, <1>2, <1>3, PingAged
  <1>6. Aged(run) \in PingRun
    BY <1>4, <1>5
  <1> QED BY <1>6 DEF run

\* Most steps leave the host alone.
LEMMA HostKept == HostType /\ UNCHANGED alive => HostType'
  BY DEF HostType

\* Initially the variables have their types.
LEMMA TypeInit == Init => TypeOK
  BY DEF Init, TypeOK, Age, Old, IdlePush, IdleLoop, IdlePing, IdleFetch,
         NoFailure, PingRun, FetchRun, HostType

LEMMA TypeTick == TypeOK /\ Tick => TypeOK'
  <1> SUFFICES ASSUME TypeOK, Tick PROVE TypeOK'
    OBVIOUS
  <1>1. age' \in Age
    BY OlderType DEF TypeOK, Tick
  <1>2. steady' \in 0..(PingTicks + 1)
    BY CappedType DEF TypeOK, Tick, Capped
  <1>3. sincePush' \in 0..PushEvery
    BY DEF TypeOK, Tick, MayPass
  <1>4. push' \in [pc : {"idle", "stamped", "fallback", "respond"},
                   loaded : Status, age : 0..PushTicks]
    BY DEF TypeOK, Tick, MayPass
  <1>5. ping' \in [Scheduler -> PingRun]
    BY AgedType DEF Tick
  <1>6. fails' \in [count : 0..FailLimit, left : 0..FailTTL]
    BY DEF TypeOK, Tick, Expiring, NoFailure
  <1> QED
    BY <1>1, <1>2, <1>3, <1>4, <1>5, <1>6 DEF TypeOK, Tick, HostType

LEMMA TypeAgent ==
  TypeOK /\ (AgentStops \/ AgentReturns \/ PushStep \/ Consume) => TypeOK'
  <1> SUFFICES ASSUME TypeOK,
                      AgentStops \/ AgentReturns \/ PushStep \/ Consume
               PROVE  TypeOK'
    OBVIOUS
  <1> USE HostKept DEF TypeOK, Fail, WriteStatus, SetHeartbeat, Capped, IdlePush, IdleLoop,
              Age, Old
  <1>1. CASE AgentStops
    <2>1. HostType'
      BY <1>1, Zenon DEF AgentStops, HostType
    <2> QED BY <1>1, <2>1 DEF AgentStops
  <1>2. CASE AgentReturns
    <2>1. HostType'
      BY <1>2, Zenon DEF AgentReturns, HostType
    <2> QED BY <1>2, <2>1 DEF AgentReturns
  <1>3. CASE Authenticate
    BY <1>3 DEF Authenticate
  <1>4. CASE Enqueue
    BY <1>4 DEF Enqueue
  <1>5. CASE EnqueueFails
    BY <1>5 DEF EnqueueFails
  <1>6. CASE FallbackCommit
    BY <1>6 DEF FallbackCommit
  <1>7. CASE LoadShed
    BY <1>7 DEF LoadShed
  <1>8. CASE Heartbeat
    BY <1>8 DEF Heartbeat
  <1>9. CASE PushFails
    BY <1>9 DEF PushFails
  <1>10. CASE ConsumerLoad
    BY <1>10 DEF ConsumerLoad
  <1>11. CASE ConsumerCommit
    BY <1>11 DEF ConsumerCommit
  <1>12. CASE ConsumerFails
    BY <1>12 DEF ConsumerFails
  <1> QED
    BY <1>1, <1>2, <1>3, <1>4, <1>5, <1>6, <1>7, <1>8, <1>9, <1>10, <1>11,
       <1>12 DEF PushStep, Consume

\* A fetch run that has its answer.
LEMMA FetchedType ==
  ASSUME TypeOK, NEW p \in Scheduler, NEW n \in Status,
         fetch' = [fetch EXCEPT ![p].pc = "fetched", ![p].new = n]
  PROVE  fetch' \in [Scheduler -> FetchRun]
  <1>1. fetch[p] \in FetchRun
    BY DEF TypeOK
  <1>2. [fetch[p] EXCEPT !.pc = "fetched", !.new = n] \in FetchRun
    BY <1>1, FetchRunUpdate
  <1>3. fetch' = [fetch EXCEPT ![p] =
                    [fetch[p] EXCEPT !.pc = "fetched", !.new = n]]
    BY DEF TypeOK
  <1> QED BY <1>2, <1>3 DEF TypeOK

LEMMA TypePing == TypeOK /\ (\E p \in Scheduler : Ping(p)) => TypeOK'
  <1> SUFFICES ASSUME TypeOK, NEW p \in Scheduler, Ping(p) PROVE TypeOK'
    OBVIOUS
  <1> USE HostKept DEF TypeOK, Fail, WriteStatus, IdlePing, Age, Old
  <1>1. CASE PingLoad(p)
    BY <1>1 DEF PingLoad, PingRun
  <1>2. CASE PingDecide(p)
    <2>1. PICK r \in PingResult :
             ping' = [ping EXCEPT ![p].pc = "decided", ![p].age = 0,
                                  ![p].new = Verdict(ping[p], r)]
      BY <1>2 DEF PingDecide
    <2>2. ping[p] \in PingRun /\ Verdict(ping[p], r) \in Status /\ 0 \in Age
      BY DEF Verdict, PingRun
    <2>3. [ping[p] EXCEPT !.pc = "decided", !.age = 0,
                          !.new = Verdict(ping[p], r)] \in PingRun
      BY <2>2, PingDecided
    <2>4. ping' = [ping EXCEPT ![p] =
                     [ping[p] EXCEPT !.pc = "decided", !.age = 0,
                                     !.new = Verdict(ping[p], r)]]
      BY <2>1
    <2>5. ping' \in [Scheduler -> PingRun]
      BY <2>3, <2>4
    <2> QED BY <1>2, <2>5 DEF PingDecide
  <1>3. CASE PingCommit(p)
    BY <1>3 DEF PingCommit, PingRun
  <1>4. CASE PingFails(p)
    BY <1>4 DEF PingFails, PingRun
  <1> QED
    BY <1>1, <1>2, <1>3, <1>4 DEF Ping

LEMMA TypeFetch == TypeOK /\ (\E p \in Scheduler : Fetch(p)) => TypeOK'
  <1> SUFFICES ASSUME TypeOK, NEW p \in Scheduler, Fetch(p) PROVE TypeOK'
    OBVIOUS
  <1> USE HostKept DEF TypeOK, Fail, WriteStatus, IdleFetch, NoFailure, Capped
  <1>1. CASE FetchLoad(p)
    BY <1>1 DEF FetchLoad, FetchRun
  <1>2. CASE FetchSucceeds(p)
    <2>1. PICK r \in ProbeResult \ {"error"} :
             fetch' = [fetch EXCEPT ![p].pc = "fetched",
                                    ![p].new = Answer(fetch[p].loaded, r)]
      BY <1>2 DEF FetchSucceeds
    <2>2. Answer(fetch[p].loaded, r) \in Status
      BY DEF Answer, FetchRun
    <2>3. fetch' \in [Scheduler -> FetchRun]
      BY <2>1, <2>2, FetchedType
    <2> QED BY <1>2, <2>3 DEF FetchSucceeds, ClearFailures
  <1>3. CASE FetchErrs(p)
    <2> DEFINE n == IF fails'.count >= FailLimit THEN "offline"
                    ELSE fetch[p].new
    <2>1. fetch' = [fetch EXCEPT ![p].pc = "fetched", ![p].new = n]
      BY <1>3 DEF FetchErrs
    <2>2. n \in Status
      BY DEF FetchRun
    <2> HIDE DEF n
    <2>3. fetch' \in [Scheduler -> FetchRun]
      BY <2>1, <2>2, FetchedType
    <2> QED BY <1>3, <2>3 DEF FetchErrs
  <1>4. CASE FetchErrsUncounted(p)
    BY <1>4 DEF FetchErrsUncounted, FetchRun
  <1>5. CASE FetchCommit(p)
    BY <1>5 DEF FetchCommit, FetchRun
  <1>6. CASE FetchFails(p)
    BY <1>6 DEF FetchFails, FetchRun
  <1> QED
    BY <1>1, <1>2, <1>3, <1>4, <1>5, <1>6 DEF Fetch

LEMMA TypeRequest ==
  TypeOK /\ (\/ EditStatus \/ NewKey \/ Serve
             \/ \E kind \in {"ping", "fetch"} : RequestLoad(kind)) => TypeOK'
  <1> SUFFICES ASSUME TypeOK,
                      \/ EditStatus \/ NewKey \/ Serve
                      \/ \E kind \in {"ping", "fetch"} : RequestLoad(kind)
               PROVE  TypeOK'
    OBVIOUS
  <1> USE HostKept DEF TypeOK, Fail, Ask, WriteStatus, SetHeartbeat, IdleFetch, Capped,
              Age, Old
  <1>1. CASE EditStatus
    BY <1>1 DEF EditStatus
  <1>2. CASE NewKey
    BY <1>2 DEF NewKey
  <1>3. ASSUME NEW kind \in {"ping", "fetch"}, RequestLoad(kind)
        PROVE  TypeOK'
    BY <1>3 DEF RequestLoad
  <1>4. CASE RequestPing
    BY <1>4 DEF RequestPing
  <1>5. CASE RequestFetch
    <2>1. PICK r \in ProbeResult :
             request' = [request EXCEPT
                           !.pc = "ready",
                           !.new = IF r = "error" THEN @
                                   ELSE Answer(request.loaded, r)]
      BY <1>5 DEF RequestFetch
    <2> DEFINE n == IF r = "error" THEN request.new
                    ELSE Answer(request.loaded, r)
    <2>2. n \in Status
      BY DEF Answer
    <2>3. request' = [request EXCEPT !.pc = "ready", !.new = n]
      BY <2>1
    <2> HIDE DEF n
    <2>4. request' \in [pc : {"idle", "ping", "fetch", "ready"},
                        loaded : Status, new : Status]
      BY <2>2, <2>3
    <2>5. streak' \in 0..FailLimit
      BY <1>5 DEF RequestFetch
    <2> QED BY <1>5, <2>4, <2>5 DEF RequestFetch
  <1>6. CASE RequestCommit
    BY <1>6 DEF RequestCommit
  <1>7. CASE RequestFails
    BY <1>7 DEF RequestFails
  <1> QED
    BY <1>1, <1>2, <1>3, <1>4, <1>5, <1>6, <1>7 DEF Serve

LEMMA TypeNext == TypeOK /\ [Next]_vars => TypeOK'
  <1>1. TypeOK /\ UNCHANGED vars => TypeOK'
    BY DEF TypeOK, HostType, vars
  <1> QED
    BY <1>1, TypeTick, TypeAgent, TypePing, TypeFetch, TypeRequest DEF Next

\* The variables of the status model keep their types, whatever fails.
THEOREM TypeCorrect == Spec => []TypeOK
  BY TypeInit, TypeNext, PTL DEF Spec

-----------------------------------------------------------------------------
(* SteadyInv.                                                              *)

\* The part of SteadyInv about one run.
RunSteady(p) ==
  steady > ping[p].ticks =>
    /\ ping[p].pc = "pinging" => ping[p].age <= Quiet + ping[p].ticks
    /\ ping[p].pc = "decided" => ping[p].new = "online"

LEMMA SteadyInit == Init => SteadyInv
  BY DEF Init, SteadyInv, IdlePing

\* A heartbeat is committed, and no run moves.
LEMMA SteadyHeartbeat ==
  ASSUME TypeOK, SteadyInv, NEW a \in Nat, SetHeartbeat(a), UNCHANGED ping
  PROVE  SteadyInv'
  BY DEF TypeOK, SteadyInv, SetHeartbeat, Capped, Quiet, Old, Age, PingRun

LEMMA SteadyTick == TypeOK /\ SteadyInv /\ Tick => SteadyInv'
  <1> SUFFICES ASSUME TypeOK, SteadyInv, Tick PROVE SteadyInv'
    OBVIOUS
  <1>1. steady' > 0 => age' <= Quiet
    BY DEF Tick, TypeOK, Age, Old, Older, Quiet
  <1>2. steady' <= steady + 1
    BY DEF Tick, TypeOK, Capped
  <1>3. ASSUME NEW p \in Scheduler PROVE RunSteady(p)'
    <2> DEFINE run == ping[p]
    <2>1. run \in PingRun /\ (steady > run.ticks =>
            /\ run.pc = "pinging" => run.age <= Quiet + run.ticks
            /\ run.pc = "decided" => run.new = "online")
      BY DEF TypeOK, SteadyInv
    <2>2. ping'[p] = Aged(run)
      BY DEF Tick
    <2>3. /\ Aged(run).pc = run.pc
          /\ Aged(run).new = run.new
          /\ run.pc = "pinging" => Aged(run).age = Older(run.age)
          /\ run.pc # "idle" => Aged(run).ticks = run.ticks + 1
      BY <2>1 DEF Aged, PingRun
    <2>4. Older(run.age) <= run.age + 1 /\ steady \in Nat
      BY <2>1 DEF Older, PingRun, Age, Old, TypeOK
    <2>5. /\ run.ticks \in Nat /\ run.age \in Nat /\ Older(run.age) \in Nat
          /\ Quiet \in Int /\ steady' \in Nat
      BY <2>1, OlderType, TypeTick DEF PingRun, Age, Old, Quiet, TypeOK
    <2>6. CASE run.pc = "pinging"
      BY <1>2, <2>1, <2>2, <2>3, <2>4, <2>5, <2>6 DEF RunSteady
    <2>7. CASE run.pc = "decided"
      BY <1>2, <2>1, <2>2, <2>3, <2>4, <2>5, <2>7 DEF RunSteady
    <2>8. CASE run.pc = "idle"
      BY <2>2, <2>3, <2>8 DEF RunSteady
    <2> QED BY <2>1, <2>6, <2>7, <2>8 DEF PingRun
  <1> QED BY <1>1, <1>3 DEF SteadyInv, RunSteady

LEMMA SteadyPing ==
  TypeOK /\ SteadyInv /\ (\E p \in Scheduler : Ping(p)) => SteadyInv'
  <1> SUFFICES ASSUME TypeOK, SteadyInv, NEW p \in Scheduler, Ping(p)
               PROVE  SteadyInv'
    OBVIOUS
  <1>1. UNCHANGED <<age, steady>> /\ \A q \in Scheduler \ {p} : ping'[q] = ping[q]
    BY DEF Ping, PingLoad, PingDecide, PingCommit, PingFails, TypeOK
  <1>2. RunSteady(p)'
    <2>1. CASE PingLoad(p)
      BY <2>1 DEF PingLoad, RunSteady, TypeOK, SteadyInv, Quiet, Age, Old
    <2>2. CASE PingDecide(p)
      <3>1. PICK r \in PingResult :
              ping' = [ping EXCEPT ![p].pc = "decided", ![p].age = 0,
                                   ![p].new = Verdict(ping[p], r)]
        BY <2>2 DEF PingDecide
      <3>2. /\ ping'[p].pc = "decided"
            /\ ping'[p].ticks = ping[p].ticks
            /\ ping'[p].new = Verdict(ping[p], r)
        BY <3>1 DEF TypeOK, PingRun
      <3>3. steady > ping[p].ticks => ping[p].age <= Fresh
        BY <2>2 DEF PingDecide, SteadyInv, TypeOK, PingRun, Age, Old, Quiet
      <3> QED BY <1>1, <3>2, <3>3 DEF RunSteady, Verdict
    <2>3. CASE PingCommit(p) \/ PingFails(p)
      BY <2>3 DEF PingCommit, PingFails, RunSteady, IdlePing, TypeOK
    <2> QED BY <2>1, <2>2, <2>3 DEF Ping
  <1> QED BY <1>1, <1>2 DEF SteadyInv, RunSteady

LEMMA SteadyNext == TypeOK /\ SteadyInv /\ [Next]_vars => SteadyInv'
  <1> SUFFICES ASSUME TypeOK, SteadyInv, [Next]_vars PROVE SteadyInv'
    OBVIOUS
  <1>1. UNCHANGED <<age, steady, ping>> => SteadyInv'
    BY DEF SteadyInv
  <1>2. CASE FallbackCommit \/ Heartbeat
    <2>1. push.age \in Nat
      BY DEF TypeOK
    <2> QED BY <1>2, <2>1, SteadyHeartbeat DEF FallbackCommit, Heartbeat
  <1>3. CASE NewKey
    <2>1. Old \in Nat
      BY DEF Old
    <2> QED BY <1>3, <2>1, SteadyHeartbeat DEF NewKey
  <1>4. CASE AgentStops \/ AgentReturns \/ PushStep \/ Consume
    BY <1>1, <1>2, <1>4
    DEF AgentStops, AgentReturns, PushStep, Authenticate, Enqueue,
        EnqueueFails, LoadShed, PushFails, Consume, ConsumerLoad,
        ConsumerCommit, ConsumerFails
  <1>5. CASE \E p \in Scheduler : Fetch(p)
    BY <1>1, <1>5
    DEF Fetch, FetchLoad, FetchSucceeds, FetchErrs, FetchErrsUncounted,
        FetchCommit, FetchFails
  <1>6. CASE \/ EditStatus \/ Serve
             \/ \E kind \in {"ping", "fetch"} : RequestLoad(kind)
    BY <1>1, <1>6
    DEF EditStatus, Serve, RequestLoad, RequestPing, RequestFetch,
        RequestCommit, RequestFails
  <1>7. CASE UNCHANGED vars
    BY <1>1, <1>7 DEF vars
  <1> QED
    BY <1>3, <1>4, <1>5, <1>6, <1>7, SteadyTick, SteadyPing DEF Next

\* A heartbeat that has come regularly was recent when a ping run loaded it.
THEOREM SteadyCorrect == Spec => []SteadyInv
  BY TypeCorrect, SteadyInit, SteadyNext, PTL DEF Spec

\* Only the commit of a ping run lets that run take a server down.
LEMMA TakesDownStep ==
  ASSUME TypeOK, SteadyInv, [Next]_vars, NEW p \in Scheduler, PingTakesDown(p)
  PROVE  steady <= PingTicks
  <1>1. steady \in Nat /\ ping[p].ticks \in 0..PingTicks
    BY DEF TypeOK, PingRun
  <1>2. CASE PingCommit(p)
    <2>1. ping[p].new # "online"
      BY <1>2 DEF PingCommit, WriteStatus, PingTakesDown
    <2> QED BY <1>1, <2>1 DEF SteadyInv, PingTakesDown
  <1>3. CASE PingLoad(p) \/ PingDecide(p) \/ PingFails(p)
    BY <1>3 DEF PingLoad, PingDecide, PingFails, PingTakesDown
  <1>4. CASE \E q \in Scheduler \ {p} : Ping(q)
    BY <1>4 DEF Ping, PingLoad, PingDecide, PingCommit, PingFails,
                PingTakesDown, TypeOK
  <1>5. CASE Tick
    BY <1>5 DEF Tick, PingTakesDown
  <1>6. CASE UNCHANGED ping
    BY <1>6 DEF PingTakesDown
  <1>7. \/ UNCHANGED ping
        \/ Tick
        \/ \E q \in Scheduler : Ping(q)
    <2>1. CASE AgentStops \/ AgentReturns \/ PushStep \/ Consume
      BY <2>1
      DEF AgentStops, AgentReturns, PushStep, Authenticate, Enqueue,
          EnqueueFails, FallbackCommit, Heartbeat, LoadShed, PushFails,
          Consume, ConsumerLoad, ConsumerCommit, ConsumerFails
    <2>2. CASE \E q \in Scheduler : Fetch(q)
      BY <2>2
      DEF Fetch, FetchLoad, FetchSucceeds, FetchErrs, FetchErrsUncounted,
          FetchCommit, FetchFails
    <2>3. CASE \/ EditStatus \/ NewKey \/ Serve
               \/ \E kind \in {"ping", "fetch"} : RequestLoad(kind)
      BY <2>3
      DEF EditStatus, NewKey, Serve, RequestLoad, RequestPing, RequestFetch,
          RequestCommit, RequestFails
    <2>4. CASE UNCHANGED vars
      BY <2>4 DEF vars
    <2> QED BY <2>1, <2>2, <2>3, <2>4 DEF Next
  <1> QED
    BY <1>2, <1>3, <1>4, <1>5, <1>6, <1>7 DEF Ping

\* A server with regular heartbeats is never taken down by the ping job.
THEOREM SteadyNeverTakenDown == Spec => SteadyStaysOnline
  <1>1. TypeOK /\ SteadyInv /\ [Next]_vars =>
          [\A p \in Scheduler : PingTakesDown(p) => steady <= PingTicks]_vars
    BY TakesDownStep
  <1> QED
    BY <1>1, TypeCorrect, SteadyCorrect, PTL DEF Spec, SteadyStaysOnline

-----------------------------------------------------------------------------
(* OnlyAfterStreak.                                                        *)

\* The counter in Redis is never ahead of the failures there were, however its
\* increments, its expiry and the clearing of two processes interleave.
CountInv == fails.count <= streak

LEMMA CountNext ==
  ASSUME TypeOK, CountInv, [Next]_vars
  PROVE  CountInv'
  <1>1. /\ fails.count \in 0..FailLimit /\ streak \in 0..FailLimit
        /\ fails \in [count : 0..FailLimit, left : 0..FailTTL]
        /\ faultsLeft \in Nat
    BY DEF TypeOK
  <1>2. ASSUME UNCHANGED <<fails, streak>>
        PROVE  CountInv'
    BY <1>2 DEF CountInv
  <1>3. ASSUME Tick
        PROVE  CountInv'
    BY <1>1, <1>3 DEF Tick, Expiring, NoFailure, CountInv
  <1>4. ASSUME NEW p \in Scheduler, FetchSucceeds(p)
        PROVE  CountInv'
    <2>1. streak' = IF faultsLeft' = faultsLeft THEN 0 ELSE streak
      BY <1>4 DEF FetchSucceeds
    <2>2. CASE fails' = NoFailure /\ UNCHANGED faultsLeft
      BY <2>1, <2>2 DEF NoFailure, CountInv
    <2>3. CASE UNCHANGED fails /\ Fail("redis")
      BY <1>1, <2>1, <2>3 DEF Fail, CountInv
    <2> QED BY <1>4, <2>2, <2>3 DEF FetchSucceeds, ClearFailures
  <1>5. ASSUME NEW p \in Scheduler, FetchErrs(p)
        PROVE  CountInv'
    BY <1>1, <1>5 DEF FetchErrs, Capped, CountInv
  <1>6. ASSUME NEW p \in Scheduler, FetchErrsUncounted(p)
        PROVE  CountInv'
    BY <1>1, <1>6 DEF FetchErrsUncounted, Capped, CountInv
  <1>7. ASSUME \/ AgentStops
               \/ AgentReturns
               \/ PushStep
               \/ Consume
               \/ EditStatus
               \/ NewKey
               \/ \E kind \in {"ping", "fetch"} : RequestLoad(kind)
               \/ Serve
               \/ UNCHANGED vars
        PROVE  UNCHANGED <<fails, streak>>
    BY <1>7
    DEF AgentStops, AgentReturns, PushStep, Authenticate, Enqueue, EnqueueFails,
        FallbackCommit, LoadShed, Heartbeat, PushFails, Consume, ConsumerLoad,
        ConsumerCommit, ConsumerFails, EditStatus, NewKey, RequestLoad, Serve,
        RequestPing, RequestFetch, RequestCommit, RequestFails, vars
  <1>8. ASSUME NEW p \in Scheduler,
               Ping(p) \/ FetchLoad(p) \/ FetchCommit(p) \/ FetchFails(p)
        PROVE  UNCHANGED <<fails, streak>>
    BY <1>8
    DEF Ping, PingLoad, PingDecide, PingCommit, PingFails, FetchLoad,
        FetchCommit, FetchFails
  <1> QED
    BY <1>2, <1>3, <1>4, <1>5, <1>6, <1>7, <1>8 DEF Next, Fetch

\* A fetch that failed, and was counted, says how long the streak is.
LEMMA StreakStep ==
  ASSUME TypeOK, CountInv, [Next]_vars, NEW p \in Scheduler, FetchTakesDown(p)
  PROVE  streak' >= FailLimit
  <1>1. /\ fails.count \in 0..FailLimit /\ streak \in 0..FailLimit
        /\ fetch \in [Scheduler -> FetchRun]
    BY DEF TypeOK
  <1>2. streak' > streak /\ fetch[p].new # "offline" /\ fetch'[p].new = "offline"
    BY DEF FetchTakesDown
  <1>3. ASSUME NEW q \in Scheduler, FetchErrs(q)
        PROVE  streak' >= FailLimit
    <2>1. q = p
      BY <1>1, <1>2, <1>3 DEF FetchErrs
    <2>2. fails'.count >= FailLimit
      BY <1>1, <1>2, <1>3, <2>1 DEF FetchErrs, FetchRun
    <2> QED BY <1>1, <1>3, <2>2 DEF FetchErrs, Capped, CountInv
  <1>4. ASSUME NEW q \in Scheduler, FetchErrsUncounted(q)
        PROVE  FALSE
    BY <1>1, <1>2, <1>4 DEF FetchErrsUncounted, FetchRun
  <1>5. ASSUME NEW q \in Scheduler, FetchSucceeds(q)
        PROVE  FALSE
    BY <1>1, <1>2, <1>5 DEF FetchSucceeds
  <1>6. ASSUME \/ Tick
               \/ AgentStops
               \/ AgentReturns
               \/ PushStep
               \/ Consume
               \/ EditStatus
               \/ NewKey
               \/ \E kind \in {"ping", "fetch"} : RequestLoad(kind)
               \/ Serve
               \/ UNCHANGED vars
               \/ \E q \in Scheduler :
                    Ping(q) \/ FetchLoad(q) \/ FetchCommit(q) \/ FetchFails(q)
        PROVE  streak' = streak
    BY <1>6
    DEF Tick, AgentStops, AgentReturns, PushStep, Authenticate, Enqueue,
        EnqueueFails, FallbackCommit, LoadShed, Heartbeat, PushFails, Consume,
        ConsumerLoad, ConsumerCommit, ConsumerFails, EditStatus, NewKey,
        RequestLoad, Serve, RequestPing, RequestFetch, RequestCommit,
        RequestFails, vars, Ping, PingLoad, PingDecide, PingCommit, PingFails,
        FetchLoad, FetchCommit, FetchFails
  <1> QED
    BY <1>1, <1>2, <1>3, <1>4, <1>5, <1>6 DEF Next, Fetch

\* For every number of processes, every limit, expiry and kind of failure, a
\* fetch that fails turns the server offline only at the end of a full streak.
THEOREM OfflineAfterStreak == Spec => OnlyAfterStreak
  <1>1. Init => CountInv
    BY DEF Init, NoFailure, CountInv
  <1>2. TypeOK /\ CountInv /\ [Next]_vars => CountInv'
    BY CountNext
  <1>3. TypeOK /\ CountInv /\ [Next]_vars =>
          [\A p \in Scheduler : FetchTakesDown(p) => streak' >= FailLimit]_vars
    BY StreakStep
  <1> QED
    BY <1>1, <1>2, <1>3, TypeCorrect, PTL DEF Spec, OnlyAfterStreak
=============================================================================
