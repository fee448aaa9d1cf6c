---------------------------- MODULE RequestCache ----------------------------
(***************************************************************************)
(* fetchJson of displayData.js, for the one address that its callers ask   *)
(* for again and again: a history of the open server.  Who asks while a    *)
(* request is young shares its promise, under way or settled; a request    *)
(* may be under way for longer than it is young.  The entry is taken away  *)
(* by a timer, by the request's own failure, or replaced.                  *)
(***************************************************************************)
EXTENDS Integers, FiniteSets, FiniteSetsExt

CONSTANTS
  Cache,        \* cacheMs
  Timeout,      \* timeoutMs
  Fetch,        \* bound: requests while the page is open, numbered
  MaxMoment     \* bound: time

ASSUME CacheAssumption ==
  /\ Cache \in Nat \ {0} /\ Timeout \in Nat \ {0} /\ MaxMoment \in Nat \ {0}
  /\ Fetch = 1..Cardinality(Fetch)

VARIABLES
  qClock,      \* Date.now()
  qSent,       \* when each request was sent, 0 before
  qState,      \* unsent, pending, rejected (its catch is still to run), done, failed
  qEntry,      \* the request in recentGetRequests, 0 if none
  qTimers,     \* the requests whose timer has not fired
  qHanded      \* the last call: which request it was handed, when, and how it stood

requestVars == <<qClock, qSent, qState, qEntry, qTimers, qHanded>>

RequestInit ==
  /\ qClock = 1
  /\ qSent = [r \in Fetch |-> 0]
  /\ qState = [r \in Fetch |-> "unsent"]
  /\ qEntry = 0
  /\ qTimers = {}
  /\ qHanded = [request |-> 0, at |-> 0, state |-> "pending"]

\* Timers and answers may be late; a request is over after its timeout.
Moves ==
  /\ qClock < MaxMoment
  /\ \A r \in Fetch : qState[r] = "pending" => qClock - qSent[r] < Timeout
  /\ \A r \in Fetch : qState[r] # "rejected"
  /\ qClock' = qClock + 1
  /\ UNCHANGED <<qSent, qState, qEntry, qTimers, qHanded>>

Young(r) == qClock - qSent[r] < Cache

Hand(r) == qHanded' = [request |-> r, at |-> qClock, state |-> qState'[r]]

\* The entry there is, if it is young.
ShareRequest ==
  /\ qEntry # 0 /\ Young(qEntry)
  /\ UNCHANGED <<qClock, qSent, qState, qEntry, qTimers>>
  /\ Hand(qEntry)

SendRequest ==
  /\ ~(qEntry # 0 /\ Young(qEntry))
  /\ \E r \in Fetch :
       /\ qState[r] = "unsent" /\ \A s \in Fetch : qState[s] = "unsent" => r <= s
       /\ qSent' = [qSent EXCEPT ![r] = qClock]
       /\ qState' = [qState EXCEPT ![r] = "pending"]
       /\ qEntry' = r
       /\ qTimers' = qTimers \union {r}
       /\ Hand(r)
  /\ UNCHANGED qClock

Answered(r) ==
  /\ qState[r] = "pending"
  /\ qState' = [qState EXCEPT ![r] = "done"]
  /\ UNCHANGED <<qClock, qSent, qEntry, qTimers, qHanded>>

\* An error, or the timeout.
Rejected(r) ==
  /\ qState[r] = "pending"
  /\ qState' = [qState EXCEPT ![r] = "rejected"]
  /\ UNCHANGED <<qClock, qSent, qEntry, qTimers, qHanded>>

\* Mutant: whatever is there is forgotten.
ForgetEntry(r) ==
  /\ qState[r] = "rejected"
  /\ qState' = [qState EXCEPT ![r] = "failed"]
  /\ qEntry' = 0
  /\ UNCHANGED <<qClock, qSent, qTimers, qHanded>>

\* A request that failed is not shared any longer, unless it was replaced.
ForgetFailed(r) ==
  /\ qState[r] = "rejected"
  /\ qState' = [qState EXCEPT ![r] = "failed"]
  /\ qEntry' = IF qEntry = r THEN 0 ELSE qEntry
  /\ UNCHANGED <<qClock, qSent, qTimers, qHanded>>

\* The timer of a request takes away that request, not its successor.
TimerFires(r) ==
  /\ r \in qTimers /\ ~Young(r)
  /\ qTimers' = qTimers \ {r}
  /\ qEntry' = IF qEntry = r THEN 0 ELSE qEntry
  /\ UNCHANGED <<qClock, qSent, qState, qHanded>>

RequestStep ==
  \/ Moves \/ ShareRequest \/ SendRequest
  \/ \E r \in Fetch : Answered(r) \/ Rejected(r) \/ ForgetFailed(r) \/ TimerFires(r)

RequestSpec == RequestInit /\ [][RequestStep]_requestVars

-----------------------------------------------------------------------------
RequestTypeOK ==
  /\ qClock \in 1..MaxMoment
  /\ qSent \in [Fetch -> 0..MaxMoment]
  /\ qState \in [Fetch -> {"unsent", "pending", "rejected", "done", "failed"}]
  /\ qEntry \in Fetch \union {0} /\ qTimers \subseteq Fetch
  /\ qHanded.request \in Fetch \union {0} /\ qHanded.at \in 0..MaxMoment

\* A young request that has not failed is the one that is shared, so that there is
\* never a second one beside it although old requests end late; and nobody is
\* handed an answer older than the cache keeps it, or a failure of the past.
OneYoungRequest ==
  /\ \A r \in Fetch : qState[r] \in {"pending", "done"} /\ Young(r) => qEntry = r
  /\ qHanded.request # 0 =>
       /\ qHanded.at - qSent[qHanded.request] < Cache
       /\ qHanded.state # "failed"
=============================================================================
