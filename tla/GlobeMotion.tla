---------------------------- MODULE GlobeMotion -----------------------------
(***************************************************************************)
(* What turns the globe (CesiumGlobe.js): the pointer that holds it, the   *)
(* momentum it is released with, and its own rotation, which stops while   *)
(* the visitor interacts and five seconds after.                           *)
(*                                                                         *)
(* Cesium reports a click when the last pointer is released near the place *)
(* where it was pressed, unless two were down: wherever it went meanwhile. *)
(* That a drag selects nothing is up to _clickSuppressUntil.               *)
(***************************************************************************)
EXTENDS Integers, FiniteSets

CONSTANTS
  Pointer,     \* mouse and fingers
  NoPointer,
  Fast         \* bound: the velocity of a drag

ASSUME MotionAssumption == NoPointer \notin Pointer /\ Fast \in Nat \ {0}

VARIABLES
  gLive,         \* not destroyed
  gHidden,       \* document.hidden
  gFar,          \* the camera is above AUTOROTATE_MIN_HEIGHT
  gDown,         \* the pointers that are pressed
  gPinched,      \* two of them were, since none was
  gHeld,         \* freeSpin
  gMoved,        \* _dragMovedPx > 6
  gSpeed,        \* _freeSpinVelocity
  gMomentum,     \* _freeSpinMomentumActive
  gInteracting,  \* _userInteracting
  gTimer,        \* _resumeTimer is pending
  gSuppressed,   \* before _clickSuppressUntil
  gDragged,      \* history: a pointer went away from where it was pressed
  gClicked       \* history: the press ended in a selection

motionStateVars == <<gLive, gHidden, gFar, gDown, gPinched, gHeld, gMoved, gSpeed,
                     gMomentum, gInteracting, gTimer, gSuppressed, gDragged, gClicked>>

spinVars == <<gSpeed, gMomentum>>
pressVars == <<gDown, gPinched, gHeld, gMoved, gDragged, gClicked>>
resumeVars == <<gInteracting, gTimer>>
seenVars == <<gLive, gHidden, gFar>>

Still == gSpeed' = 0 /\ gMomentum' = FALSE

\* pause: without the timer that would end it.
Pause == gInteracting' = TRUE /\ gTimer' = FALSE

\* scheduleResume: the timer begins anew.
ScheduleResume == gTimer' = TRUE

MotionInit ==
  /\ gLive = TRUE /\ gHidden = FALSE /\ gFar = TRUE
  /\ gDown = {} /\ gPinched = FALSE /\ gHeld = NoPointer /\ gMoved = FALSE
  /\ gSpeed = 0 /\ gMomentum = FALSE
  /\ gInteracting = FALSE /\ gTimer = FALSE /\ gSuppressed = FALSE
  /\ gDragged = FALSE /\ gClicked = FALSE

-----------------------------------------------------------------------------
\* The pointer pressed last holds the globe.
GlobePointerDown(p) ==
  /\ gLive /\ p \notin gDown
  /\ gDown' = gDown \union {p}
  /\ gPinched' = (gDown # {})
  /\ Pause /\ Still
  /\ gMoved' = FALSE
  /\ gHeld' = p
  /\ gDragged' = (gDown # {} /\ gDragged) /\ gClicked' = FALSE
  /\ UNCHANGED <<seenVars, gSuppressed>>

\* A pinch changes the height; only the pointer that holds the globe turns it,
\* pressed or not.
GlobePointerMove(p, away) ==
  /\ gLive /\ p \in gDown \union {gHeld}
  /\ gDragged' = (gDragged \/ (away /\ p \in gDown))
  /\ IF gHeld = p
     THEN gMoved' = (gMoved \/ away) /\ gSpeed' \in 0..Fast
     ELSE UNCHANGED <<gMoved, gSpeed>>
  /\ gFar' \in IF Cardinality(gDown) > 1 THEN BOOLEAN ELSE {gFar}
  /\ UNCHANGED <<gLive, gHidden, gDown, gPinched, gHeld, gMomentum, resumeVars,
                 gSuppressed, gClicked>>

\* startMomentum: only in space.
StartMomentum ==
  IF gFar /\ gSpeed > 0 THEN gMomentum' = TRUE /\ UNCHANGED gSpeed ELSE Still

\* Mutant: only a drag that leaves momentum counts as one.
SuppressIfSpinning(p) == gHeld = p /\ gMoved /\ gFar /\ gSpeed > 0

\* What keeps the click of this release from selecting.
SuppressClick(p) == gHeld = p /\ gMoved

\* The release of any pointer schedules the rotation.  Cesium's click comes with
\* it, after the listener in the window.
GlobePointerUp(p, click) ==
  /\ gLive /\ p \in gDown
  /\ click => gDown = {p} /\ ~gPinched
  /\ gDown' = gDown \ {p}
  /\ gPinched' = (gPinched /\ gDown # {p})
  /\ gSuppressed' = (gSuppressed \/ SuppressClick(p))
  /\ IF gHeld = p THEN gHeld' = NoPointer /\ StartMomentum
     ELSE UNCHANGED <<gHeld, spinVars>>
  /\ ScheduleResume
  /\ gClicked' = (click /\ ~gSuppressed')
  /\ UNCHANGED <<seenVars, gMoved, gInteracting, gDragged>>

\* Nothing listens to this: the pointer goes on holding the globe.
GlobePointerCancel(p) ==
  /\ p \in gDown
  /\ gDown' = gDown \ {p}
  /\ gPinched' = (gPinched /\ gDown # {p})
  /\ UNCHANGED <<seenVars, gHeld, gMoved, gDragged, gClicked, spinVars, resumeVars,
                 gSuppressed>>

Wheel ==
  /\ gLive
  /\ gInteracting' = TRUE /\ ScheduleResume
  /\ Still
  /\ gFar' \in BOOLEAN
  /\ UNCHANGED <<gLive, gHidden, pressVars, gSuppressed>>

\* Mutant: a timer that runs out while the tab is hidden does nothing.
ResumeIfVisible ==
  /\ gTimer
  /\ gTimer' = FALSE /\ gInteracting' = gHidden
  /\ UNCHANGED <<seenVars, pressVars, spinVars, gSuppressed>>

Resume ==
  /\ gTimer
  /\ gTimer' = FALSE /\ gInteracting' = FALSE
  /\ UNCHANGED <<seenVars, pressVars, spinVars, gSuppressed>>

SuppressionEnds ==
  /\ gSuppressed
  /\ gSuppressed' = FALSE
  /\ UNCHANGED <<seenVars, pressVars, spinVars, resumeVars>>

\* tick: momentum wears off.
GlobeFrame ==
  /\ gLive /\ gMomentum /\ ~gHidden
  /\ gSpeed' = gSpeed - 1
  /\ gMomentum' = (gSpeed' > 0)
  /\ UNCHANGED <<seenVars, pressVars, resumeVars, gSuppressed>>

\* shouldSpin in tick.
Spinning == ~gInteracting /\ ~gMomentum /\ ~gHidden /\ gFar

GlobeTabHides ==
  /\ gHidden' = ~gHidden
  /\ UNCHANGED <<gLive, gFar, pressVars, spinVars, resumeVars, gSuppressed>>

\* destroy: frames, timer and listeners are taken off.
GlobeDestroyed ==
  /\ gLive
  /\ gLive' = FALSE /\ gTimer' = FALSE
  /\ UNCHANGED <<gHidden, gFar, pressVars, spinVars, gInteracting, gSuppressed>>

MotionStep ==
  \/ \E p \in Pointer :
       \/ GlobePointerDown(p) \/ GlobePointerCancel(p)
       \/ \E b \in BOOLEAN : GlobePointerMove(p, b) \/ GlobePointerUp(p, b)
  \/ Wheel \/ Resume \/ SuppressionEnds \/ GlobeFrame
  \/ GlobeTabHides \/ GlobeDestroyed

MotionSpec == MotionInit /\ [][MotionStep]_motionStateVars

-----------------------------------------------------------------------------
MotionTypeOK ==
  /\ {gLive, gHidden, gFar, gPinched, gMoved, gMomentum, gInteracting, gTimer,
      gSuppressed, gDragged, gClicked} \subseteq BOOLEAN
  /\ gDown \subseteq Pointer /\ gHeld \in Pointer \union {NoPointer}
  /\ gSpeed \in 0..Fast
  /\ gMomentum => gSpeed > 0 /\ gHeld = NoPointer

\* A drag selects no node, also one that ends where it began, with a second
\* finger that came and went, or a pointer that was lost before.
NoSelectOnDrag == gClicked => ~gDragged

\* Released, the globe turns by itself again when it is seen from space, whatever
\* was pressed, wheeled, hidden or thrown before.
GlobeTurnsAgain ==
  []<>(Spinning \/ gHeld # NoPointer \/ gHidden \/ ~gFar \/ ~gLive)
=============================================================================
