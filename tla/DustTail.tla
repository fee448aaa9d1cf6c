------------------------------ MODULE DustTail ------------------------------
(***************************************************************************)
(* The dust tail of the comet on the solar system page.  A worker computes *)
(* the particles of one observation epoch at a time; DustTailManager gives *)
(* it two buffers by transfer, draws the answer and takes the buffers      *)
(* back.  The frame loop calls tick, the worker's answers come in between. *)
(*                                                                         *)
(* Epochs are the multiples of STEP_DAYS the clock is rounded to.  The     *)
(* request number of the code is left out: it could tell answers apart     *)
(* only if two requests were out at once, which BuffersConserved excludes. *)
(***************************************************************************)
EXTENDS Integers, FiniteSets

CONSTANTS
  Input, Output,   \* the buffers of inputPool and of outputPool
  MaxEpoch,        \* bound: the last epoch of the clock
  MaxGeneration    \* bound: the first generation and the jumps of the clock

ASSUME DustAssumption ==
  /\ IsFiniteSet(Input) /\ Cardinality(Input) = 2
  /\ IsFiniteSet(Output) /\ Cardinality(Output) = 2
  /\ MaxEpoch \in Nat /\ MaxGeneration \in Nat \ {0}

VARIABLES
  uEpoch,       \* the clock of the frame loop
  uStatus,      \* status
  uLatched,     \* errorLatched
  uGeneration,  \* currentGeneration
  uPending,     \* latestPending
  uJob,         \* workerBusyJob
  uRequests,    \* the messages the worker has not answered
  uIn, uOut,    \* inputPool, outputPool
  uDisplay,     \* displayTObs
  uDrawn,       \* what the renderer shows; full: more than the comet's own place
  uPaused       \* _isPaused

dustVars == <<uEpoch, uStatus, uLatched, uGeneration, uPending, uJob,
              uRequests, uIn, uOut, uDisplay, uDrawn, uPaused>>

None == -1
Epoch == 0..MaxEpoch
Generation == 1..MaxGeneration
NoJob == [epoch |-> None, generation |-> 0, stale |-> FALSE]
Job == [epoch : Epoch, generation : Generation, stale : BOOLEAN]
Nothing == [epoch |-> None, generation |-> 0]
Wish == [epoch : Epoch, generation : Generation]
Blank == [epoch |-> None, generation |-> 0, full |-> FALSE]
Picture == [epoch : Epoch, generation : Generation, full : BOOLEAN]
Request == [epoch : Epoch, generation : Generation, in : Input, out : Output]

\* The worker is terminated, and the buffers are dropped.
GivenUp ==
  /\ uStatus = "disposed" \/ uLatched
  /\ uIn = {} /\ uOut = {} /\ uRequests = {}

-----------------------------------------------------------------------------
DustInit ==
  /\ uEpoch = 0
  /\ uStatus = "idle"
  /\ uLatched = FALSE
  /\ uGeneration = 1
  /\ uPending = Nothing
  /\ uJob = NoJob
  /\ uRequests = {}
  /\ uIn = Input /\ uOut = Output
  /\ uDisplay = None
  /\ uDrawn = Blank
  /\ uPaused = FALSE

\* _rejectSample, and the controlled errors: latched, and nothing is drawn.
Latch ==
  /\ uLatched' = TRUE
  /\ uStatus' = "error"
  /\ uPending' = Nothing
  /\ uDrawn' = Blank

\* A crash, or an exception after the transfer: the buffers are gone.
Fatal ==
  /\ Latch
  /\ uJob' = NoJob
  /\ uRequests' = {}
  /\ uIn' = {} /\ uOut' = {}

\* _dispatchJob, with the requests and the pools as they are then.  The comet's
\* states may fail to be sampled, and postMessage may throw, before or after
\* the transfer of the buffers.
DispatchJob(epoch, pending, drawn, requests, inPool, outPool) ==
  IF inPool = {} \/ outPool = {}
  THEN /\ uRequests' = requests /\ uIn' = inPool /\ uOut' = outPool
       /\ uJob' = NoJob /\ uPending' = pending /\ uDrawn' = drawn
       /\ UNCHANGED <<uStatus, uLatched>>
  ELSE \/ \E i \in inPool, o \in outPool :
            /\ uRequests' = requests \union
                 {[epoch |-> epoch, generation |-> uGeneration, in |-> i, out |-> o]}
            /\ uIn' = inPool \ {i} /\ uOut' = outPool \ {o}
            /\ uJob' = [epoch |-> epoch, generation |-> uGeneration,
                        stale |-> FALSE]
            /\ uStatus' = "computing"
            /\ uPending' = pending /\ uDrawn' = drawn
            /\ UNCHANGED uLatched
       \/ /\ Latch
          /\ uRequests' = requests /\ uIn' = inPool /\ uOut' = outPool
          /\ uJob' = NoJob
       \/ Fatal

-----------------------------------------------------------------------------
(* tick, once a frame; the clock stands still while the scene is dragged.   *)

TickPaused ==
  /\ uStatus # "disposed" /\ ~uLatched
  /\ uPaused' = TRUE
  /\ uStatus' = "paused"
  /\ UNCHANGED <<uEpoch, uLatched, uGeneration, uPending, uJob, uRequests, uIn,
                 uOut, uDisplay, uDrawn>>

\* The comet itself could not be placed this frame.
TickBodyInvalid ==
  /\ uStatus # "disposed" /\ ~uLatched
  /\ Latch
  /\ UNCHANGED <<uEpoch, uGeneration, uJob, uRequests, uIn, uOut, uDisplay,
                 uPaused>>

\* The epoch is drawn already, or the worker is busy and only the latest wish
\* is kept, or the job is sent; an older wish then stays.
Tick ==
  /\ uStatus # "disposed" /\ ~uLatched
  /\ \E epoch \in {uEpoch, uEpoch + 1} \intersect Epoch :
       /\ uEpoch' = epoch
       /\ \/ /\ epoch = uDisplay /\ uPending = Nothing
             /\ uStatus' = IF uStatus = "computing" THEN uStatus ELSE "ready"
             /\ UNCHANGED <<uLatched, uPending, uJob, uRequests, uIn, uOut,
                            uDrawn>>
          \/ /\ epoch # uDisplay \/ uPending # Nothing
             /\ uJob # NoJob
             /\ uPending' = [epoch |-> epoch, generation |-> uGeneration]
             /\ UNCHANGED <<uStatus, uLatched, uJob, uRequests, uIn, uOut,
                            uDrawn>>
          \/ /\ epoch # uDisplay \/ uPending # Nothing
             /\ uJob = NoJob
             /\ DispatchJob(epoch, uPending, uDrawn, uRequests, uIn, uOut)
  /\ uPaused' = FALSE
  /\ UNCHANGED <<uGeneration, uDisplay>>

\* Mutant: the epoch drawn before the jump still counts as drawn.
JumpKeepsDisplay(epoch) ==
  /\ uStatus # "disposed" /\ ~uLatched
  /\ uGeneration < MaxGeneration
  /\ uEpoch' = epoch
  /\ uGeneration' = uGeneration + 1
  /\ uJob' = IF uJob = NoJob THEN NoJob ELSE [uJob EXCEPT !.stale = TRUE]
  /\ uPending' = Nothing
  /\ uDrawn' = [epoch |-> epoch, generation |-> uGeneration', full |-> FALSE]
  /\ UNCHANGED <<uStatus, uLatched, uRequests, uIn, uOut, uPaused, uDisplay>>

\* notifyTimeDiscontinuity: what was asked for before the jump is void; the
\* zero-age release is drawn from a pooled buffer.
Jump(epoch) ==
  /\ uStatus # "disposed" /\ ~uLatched
  /\ uGeneration < MaxGeneration
  /\ uEpoch' = epoch
  /\ uGeneration' = uGeneration + 1
  /\ uJob' = IF uJob = NoJob THEN NoJob ELSE [uJob EXCEPT !.stale = TRUE]
  /\ uDisplay' = None
  /\ \/ /\ uOut # {}
        /\ uPending' = Nothing
        /\ uDrawn' = [epoch |-> epoch, generation |-> uGeneration', full |-> FALSE]
        /\ uStatus' = IF uPaused THEN "paused" ELSE "computing"
        /\ UNCHANGED uLatched
     \/ Latch
  /\ UNCHANGED <<uRequests, uIn, uOut, uPaused>>

-----------------------------------------------------------------------------
(* The worker.                                                              *)

\* Mutant: the input buffer of an answer is not taken back.
ReclaimOutput(r, drawn, status) ==
  /\ uRequests' = uRequests \ {r} /\ uIn' = uIn /\ uOut' = uOut \union {r.out}
  /\ uJob' = NoJob /\ uStatus' = status /\ uDrawn' = drawn
  /\ UNCHANGED <<uPending, uLatched>>

\* The buffers go back to their pools; then, unless paused, the latest wish is
\* sent (_maybeDispatchPending).
Reclaim(r, drawn, status) ==
  LET requests == uRequests \ {r}
      inPool == uIn \union {r.in}
      outPool == uOut \union {r.out}
  IN  IF ~uPaused /\ ~uLatched /\ uPending # Nothing
           /\ uPending.generation = uGeneration
      THEN DispatchJob(uPending.epoch, Nothing, drawn, requests, inPool, outPool)
      ELSE /\ uRequests' = requests /\ uIn' = inPool /\ uOut' = outPool
           /\ uJob' = NoJob /\ uStatus' = status /\ uDrawn' = drawn
           /\ UNCHANGED <<uPending, uLatched>>

\* Mutant: any answer of the busy job is drawn.
AcceptedLate(r) == ~uLatched /\ r.generation = uJob.generation

Accepted(r) ==
  ~uLatched /\ r.generation = uJob.generation /\ r.generation = uGeneration
    /\ ~uJob.stale

\* _onWorkerMessage without an error: drawn if nothing has changed since.
Answer(r) ==
  /\ r \in uRequests
  /\ IF Accepted(r)
     THEN /\ uDisplay' = r.epoch
          /\ Reclaim(r, [epoch |-> r.epoch, generation |-> r.generation, full |-> TRUE],
                     IF uPaused THEN "paused" ELSE "ready")
     ELSE /\ Reclaim(r, uDrawn, uStatus)
          /\ UNCHANGED uDisplay
  /\ UNCHANGED <<uEpoch, uGeneration, uPaused>>

\* The worker caught an error and sends the buffers back.
AnswerError(r) ==
  /\ r \in uRequests
  /\ Latch
  /\ uIn' = uIn \union {r.in} /\ uOut' = uOut \union {r.out}
  /\ uRequests' = uRequests \ {r}
  /\ uJob' = NoJob
  /\ UNCHANGED <<uEpoch, uGeneration, uDisplay, uPaused>>

\* onerror, onmessageerror: at any time, also while the script is loading.
WorkerCrashes ==
  /\ uStatus # "disposed" /\ ~GivenUp
  /\ Fatal
  /\ UNCHANGED <<uEpoch, uGeneration, uDisplay, uPaused>>

\* The page's solar system is destroyed.
Dispose ==
  /\ uStatus # "disposed"
  /\ uStatus' = "disposed"
  /\ uJob' = NoJob
  /\ uPending' = Nothing
  /\ uRequests' = {}
  /\ uIn' = {} /\ uOut' = {}
  /\ uDrawn' = Blank
  /\ UNCHANGED <<uEpoch, uLatched, uGeneration, uDisplay, uPaused>>

DustStep ==
  \/ TickPaused \/ TickBodyInvalid \/ Tick
  \/ \E epoch \in Epoch : Jump(epoch)
  \/ \E r \in uRequests : Answer(r) \/ AnswerError(r)
  \/ WorkerCrashes \/ Dispose

DustSpec == DustInit /\ [][DustStep]_dustVars

-----------------------------------------------------------------------------
DustTypeOK ==
  /\ uEpoch \in Epoch
  /\ uStatus \in {"idle", "computing", "ready", "paused", "error", "disposed"}
  /\ uLatched \in BOOLEAN
  /\ uGeneration \in Generation
  /\ uPending \in Wish \union {Nothing}
  /\ uJob \in Job \union {NoJob}
  /\ uRequests \subseteq Request
  /\ uIn \subseteq Input /\ uOut \subseteq Output
  /\ uDisplay \in Epoch \union {None}
  /\ uDrawn \in Picture \union {Blank}
  /\ uPaused \in BOOLEAN

\* "Bounded single-in-flight": at most one request is out, it is the busy job,
\* and every buffer is in its pool or with that request, unless the worker is
\* given up for good.  A buffer taken back twice, or lost on the way of a stale
\* or failed answer, would stop the tail after two such answers.
BuffersConserved ==
  \/ GivenUp
  \/ /\ uRequests = {} /\ uIn = Input /\ uOut = Output /\ uJob = NoJob
  \/ \E i \in Input, o \in Output :
       /\ uIn = Input \ {i} /\ uOut = Output \ {o}
       /\ uJob # NoJob
       /\ uRequests = {[epoch |-> uJob.epoch, generation |-> uJob.generation,
                        in |-> i, out |-> o]}

\* After a jump of the clock nothing that was computed before it is drawn, and
\* after an error nothing at all, whatever was under way ("Never read
\* coordinates or touch the renderer").
OnlyCurrentDrawn ==
  uDrawn # Blank => uDrawn.generation = uGeneration /\ ~uLatched

TailOver == uStatus = "disposed" \/ uLatched
TailWhole == uDrawn = [epoch |-> uEpoch, generation |-> uGeneration, full |-> TRUE]

\* Once the clock stands still the whole tail of its epoch is drawn and stays:
\* over pauses, a wish left over from before a pause, answers that were void,
\* and a jump back to an epoch that was drawn before it.
TailCatchesUp == <>[]TailOver \/ <>[]TailWhole
=============================================================================
