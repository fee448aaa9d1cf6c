----------------------------- MODULE SolarScene -----------------------------
(***************************************************************************)
(* What happens inside the solar system (SolarSystem.js): the bodies stand *)
(* still while the scene is dragged and ten seconds after, the moon's      *)
(* button leaves the page while it cannot be placed, and downloaded        *)
(* textures replace the procedural ones.  Frames run while the scene is    *)
(* running and the tab is visible.                                         *)
(***************************************************************************)
EXTENDS FiniteSets

CONSTANT Bodies     \* the bodies that have a texture in the manifest

VARIABLES
  sRunning,    \* running
  sHidden,     \* the tab
  sDragging, sMoved, sMotion,   \* orbitState
  sTimer,      \* the resume timer is pending
  sPlaceable,  \* whether the moon's button has a place now
  sMoon,       \* the button: attached to the page, and __unsolvable
  sManifest,   \* the texture manifest
  sLoads,      \* the textures being downloaded
  sSlot,       \* the texture each body uses
  sAllocated,  \* textures not disposed of
  sTracked,    \* the textures in disposables
  sEphemeris,  \* ephemerisStatus.status
  sDust,       \* the dust tail's renderer and manager exist
  sDisposed    \* disposed

solarVars == <<sRunning, sHidden, sDragging, sMoved, sMotion, sTimer, sPlaceable,
               sMoon, sManifest, sLoads, sSlot, sAllocated, sTracked, sEphemeris,
               sDust, sDisposed>>

motionVars == <<sDragging, sMoved, sMotion, sTimer>>
sceneVars == <<sManifest, sLoads, sSlot, sAllocated, sTracked, sEphemeris, sDust,
               sDisposed>>

Texture == Bodies \X {"drawn", "photo"}
Procedural(b) == <<b, "drawn">>
Photo(b) == <<b, "photo">>

\* shouldAdvance in _tick.
Advancing == ~sDragging /\ sMotion # "paused"

FramesRun == sRunning /\ ~sHidden /\ ~sDisposed

SolarInit ==
  /\ sRunning = TRUE /\ sHidden = FALSE
  /\ sDragging = FALSE /\ sMoved = FALSE
  /\ sMotion = "running" /\ sTimer = FALSE
  /\ sPlaceable \in BOOLEAN
  /\ sMoon = [attached |-> sPlaceable, unsolvable |-> ~sPlaceable]
  /\ sManifest = "loading" /\ sLoads = {}
  /\ sSlot = [b \in Bodies |-> Procedural(b)]
  /\ sAllocated = {Procedural(b) : b \in Bodies}
  /\ sTracked = sAllocated
  /\ sEphemeris = "loading" /\ sDust = FALSE
  /\ sDisposed = FALSE

-----------------------------------------------------------------------------
(* Dragging.  A pointer may be released over the canvas without having been *)
(* pressed there, and leave it while it is pressed.                         *)

\* A timer that is pending begins anew, and goes on under the drag.
PointerDown ==
  /\ ~sDisposed /\ ~sDragging
  /\ sDragging' = TRUE /\ sMoved' = FALSE /\ sMotion' = "dragging"
  /\ UNCHANGED <<sTimer, sRunning, sHidden, sPlaceable, sMoon, sceneVars>>

PointerMove ==
  /\ sDragging /\ ~sDisposed
  /\ sMoved' = TRUE
  /\ UNCHANGED <<sDragging, sMotion, sTimer, sRunning, sHidden, sPlaceable, sMoon,
                 sceneVars>>

\* Mutant: nothing ends the pause after a drag.
PointerUpForEver ==
  /\ ~sDisposed
  /\ sDragging' = FALSE
  /\ sMotion' = IF sMoved THEN "paused" ELSE "running"
  /\ UNCHANGED <<sMoved, sTimer, sRunning, sHidden, sPlaceable, sMoon, sceneVars>>

PointerUp ==
  /\ ~sDisposed
  /\ sDragging' = FALSE
  /\ IF sMoved THEN sMotion' = "paused" /\ sTimer' = TRUE
     ELSE sMotion' = "running" /\ UNCHANGED sTimer
  /\ UNCHANGED <<sMoved, sRunning, sHidden, sPlaceable, sMoon, sceneVars>>

PointerLeave ==
  /\ sDragging /\ ~sDisposed
  /\ sDragging' = FALSE
  /\ UNCHANGED <<sMoved, sMotion, sTimer, sRunning, sHidden, sPlaceable, sMoon,
                 sceneVars>>

ResumeTimer ==
  /\ sTimer
  /\ sTimer' = FALSE /\ sMotion' = "running"
  /\ UNCHANGED <<sDragging, sMoved, sRunning, sHidden, sPlaceable, sMoon,
                 sceneVars>>

-----------------------------------------------------------------------------
(* The moon's button.                                                       *)

MoonMoves ==
  /\ sPlaceable' = ~sPlaceable
  /\ UNCHANGED <<motionVars, sRunning, sHidden, sMoon, sceneVars>>

\* _syncHitButtons: the verdict of the frame before does not count.
SyncMoon == sMoon' = [attached |-> sPlaceable, unsolvable |-> ~sPlaceable]

EnsureMoonAttached ==
  sMoon' = IF sMoon.unsolvable THEN sMoon ELSE [sMoon EXCEPT !.attached = TRUE]

Frame ==
  /\ FramesRun
  /\ SyncMoon
  /\ UNCHANGED <<motionVars, sRunning, sHidden, sPlaceable, sceneVars>>

\* pause and resume, by the page; resume runs a frame.
PauseScene ==
  /\ sRunning /\ ~sDisposed
  /\ sRunning' = FALSE
  /\ UNCHANGED <<motionVars, sHidden, sPlaceable, sMoon, sceneVars>>

ResumeScene ==
  /\ ~sRunning /\ ~sDisposed
  /\ sRunning' = TRUE
  /\ SyncMoon
  /\ UNCHANGED <<motionVars, sHidden, sPlaceable, sceneVars>>

HideTab ==
  /\ ~sHidden
  /\ sHidden' = TRUE
  /\ UNCHANGED <<motionVars, sRunning, sPlaceable, sMoon, sceneVars>>

ShowTab ==
  /\ sHidden
  /\ sHidden' = FALSE
  /\ IF sDisposed THEN UNCHANGED sMoon ELSE EnsureMoonAttached
  /\ UNCHANGED <<motionVars, sRunning, sPlaceable, sceneVars>>

-----------------------------------------------------------------------------
(* What is loaded, and what is released.                                    *)

ManifestArrives ==
  /\ sManifest = "loading"
  /\ \/ sManifest' = "done" /\ sLoads' = IF sDisposed THEN {} ELSE Bodies
     \/ sManifest' = "failed" /\ UNCHANGED sLoads
  /\ UNCHANGED <<motionVars, sRunning, sHidden, sPlaceable, sMoon, sSlot,
                 sAllocated, sTracked, sEphemeris, sDust, sDisposed>>

\* Mutant: a texture that arrives after destroy is used.
TextureArrivesLate(b) ==
  /\ b \in sLoads /\ sLoads' = sLoads \ {b}
  /\ sSlot' = [sSlot EXCEPT ![b] = Photo(b)]
  /\ sAllocated' = (sAllocated \ {sSlot[b]}) \union {Photo(b)}
  /\ sTracked' = (sTracked \ {sSlot[b]}) \union {Photo(b)}
  /\ UNCHANGED <<motionVars, sRunning, sHidden, sPlaceable, sMoon, sManifest,
                 sEphemeris, sDust, sDisposed>>

\* _swapPlanetTexture: the texture it replaces is disposed of and forgotten.
TextureArrives(b) ==
  /\ b \in sLoads /\ sLoads' = sLoads \ {b}
  /\ IF sDisposed
     THEN UNCHANGED <<sSlot, sAllocated, sTracked>>
     ELSE /\ sSlot' = [sSlot EXCEPT ![b] = Photo(b)]
          /\ sAllocated' = (sAllocated \ {sSlot[b]}) \union {Photo(b)}
          /\ sTracked' = (sTracked \ {sSlot[b]}) \union {Photo(b)}
  /\ UNCHANGED <<motionVars, sRunning, sHidden, sPlaceable, sMoon, sManifest,
                 sEphemeris, sDust, sDisposed>>

TextureFails(b) ==
  /\ b \in sLoads /\ sLoads' = sLoads \ {b}
  /\ UNCHANGED <<motionVars, sRunning, sHidden, sPlaceable, sMoon, sManifest, sSlot,
                 sAllocated, sTracked, sEphemeris, sDust, sDisposed>>

\* _loadEphemerides and _initializeDustTail.
EphemerisSettles ==
  /\ sEphemeris = "loading"
  /\ \/ sEphemeris' = "ready" /\ sDust' = (sDust \/ ~sDisposed)
     \/ sEphemeris' = "error" /\ UNCHANGED sDust
  /\ UNCHANGED <<motionVars, sRunning, sHidden, sPlaceable, sMoon, sManifest,
                 sLoads, sSlot, sAllocated, sTracked, sDisposed>>

\* destroy: what is still on its way arrives later.
DestroyScene ==
  /\ ~sDisposed
  /\ sDisposed' = TRUE
  /\ sRunning' = FALSE
  /\ sDust' = FALSE
  /\ sAllocated' = sAllocated \ sTracked
  /\ sTracked' = {}
  /\ sMoon' = [sMoon EXCEPT !.attached = FALSE]
  /\ UNCHANGED <<motionVars, sHidden, sPlaceable, sManifest, sLoads, sSlot,
                 sEphemeris>>

SolarStep ==
  \/ PointerDown \/ PointerMove \/ PointerUp \/ PointerLeave \/ ResumeTimer
  \/ MoonMoves \/ Frame \/ PauseScene \/ ResumeScene \/ HideTab \/ ShowTab
  \/ ManifestArrives \/ EphemerisSettles
  \/ \E b \in Bodies : TextureArrives(b) \/ TextureFails(b)
  \/ DestroyScene

-----------------------------------------------------------------------------
SolarTypeOK ==
  /\ sRunning \in BOOLEAN /\ sHidden \in BOOLEAN /\ sDragging \in BOOLEAN
  /\ sMoved \in BOOLEAN /\ sTimer \in BOOLEAN /\ sPlaceable \in BOOLEAN
  /\ sMotion \in {"running", "dragging", "paused"}
  /\ sMoon \in [attached : BOOLEAN, unsolvable : BOOLEAN]
  /\ sManifest \in {"loading", "done", "failed"} /\ sLoads \subseteq Bodies
  /\ sSlot \in [Bodies -> Texture]
  /\ sAllocated \subseteq Texture /\ sTracked \subseteq Texture
  /\ sEphemeris \in {"loading", "ready", "error"}
  /\ sDust \in BOOLEAN /\ sDisposed \in BOOLEAN

\* A body never uses a texture that was disposed of, the procedural texture and
\* its replacement are not both held, and whatever arrives after destroy is
\* released as well.
TexturesReleased ==
  /\ ~sDisposed => sAllocated = {sSlot[b] : b \in Bodies}
  /\ sDisposed => sAllocated = {} /\ ~sDust

\* Not dragged, the bodies move again in the end, whatever was pressed, left or
\* released in between; and the moon's button is back in the page after it had
\* no place, also when the frames stopped meanwhile ("a rAF halt while detached
\* must not leave it stranded").
SceneRecovers ==
  /\ []<>(Advancing \/ sDragging \/ sDisposed)
  /\ []<>(sMoon.attached \/ ~sPlaceable \/ ~FramesRun)
=============================================================================
