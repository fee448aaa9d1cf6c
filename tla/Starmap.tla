------------------------------ MODULE Starmap -------------------------------
(***************************************************************************)
(* The star map of the detail page: the page's server and lines from it to *)
(* all the others (GlobeStarmap.jsx, GlobeStarmapMount.jsx).  Servers at one *)
(* place share a marker, as they share a beacon on the globe.              *)
(*                                                                         *)
(* It is mounted with the list of then and not told of later ones.  Where  *)
(* a marker is on the canvas is left out: any of them may be in front.  The *)
(* tiles are never switched on; the countries are scenery.  *)
(***************************************************************************)
EXTENDS GlobeBeacons

CONSTANTS
  Named,       \* the servers whose location is in LOC_MAP
  MapLists,    \* the lists the map may be mounted with
  Zooms        \* bound: steps of the zoom, from 0

ASSUME StarmapAssumption ==
  Named \subseteq Server /\ Zooms \in Nat
    /\ \A list \in MapLists : DOMAIN list \subseteq Server

VARIABLES
  mMounted,    \* the component is on the page
  mOrigin,     \* originServerId: the page's server
  mMarkers,    \* the servers of the component: markers of one or of several
  mArcs,       \* the lines of the last frame: from a marker's servers to another's
  mFrames,     \* draw loops under way
  mListeners,  \* sets of the canvas' listeners
  mAtlas,      \* the outlines of the countries: asked, ready, failed
  mZoom,
  mTools,      \* what is switched on: showLines, autoSpin
  mMouse,      \* its button is down
  mTouches,    \* fingers on the canvas
  mDragging,   \* stateRef.current.dragging
  mPinch,      \* lastPinch
  mHovered,    \* the marker whose tooltip is shown, by its servers
  mLost        \* history: a touch ended without its event

starmapVars == <<mMounted, mOrigin, mMarkers, mArcs, mFrames, mListeners, mAtlas, mZoom,
                 mTools, mMouse, mTouches, mDragging, mPinch, mHovered, mLost>>

Tools == {"lines", "spin"}
dragVars == <<mMouse, mTouches, mDragging, mPinch, mLost>>
mapVars == <<mMounted, mOrigin, mMarkers, mAtlas>>
loopVars == <<mFrames, mListeners>>

-----------------------------------------------------------------------------
(* The markers.                                                             *)

\* aggregateClusterStatus of the mount.
MapStatus(list, members) ==
  LET seen == {list[s].status : s \in ToSet(members)}
  IN  IF seen = {"online"} THEN "online" ELSE IF seen = {"offline"} THEN "offline" ELSE "warn"

\* locationToLatLng: coordinates, else the name of the location.
PlacedBy(c) ==
  IF c.key[1] = "cluster" THEN "place" ELSE IF Head(c.members) \in Named THEN "name" ELSE "none"

\* Mutant: the others of a shared place are left out.
FirstOnly(list) ==
  {[servers |-> {Head(c.members)}, status |-> MapStatus(list, c.members), by |-> PlacedBy(c)] :
     c \in Clusters(list)}

\* normalizeServers and groupStarmapServersByCoordinate.
Markers(list) ==
  {[servers |-> ToSet(c.members), status |-> MapStatus(list, c.members), by |-> PlacedBy(c)] :
     c \in Clusters(list)}

Placed == {m \in mMarkers : m.by # "none"}

\* The first of the component's list: markers with coordinates, by the lowest
\* number among their servers, come before the others.
Earlier(m, n) ==
  IF m.by = n.by THEN Min(m.servers) <= Min(n.servers) ELSE m.by = "place"

\* A marker of several servers has an identifier of its own, and is not the
\* page's server: then the first one is taken for it.
Origin ==
  IF \E m \in Placed : m.servers = {mOrigin} THEN {m \in Placed : m.servers = {mOrigin}}
  ELSE {m \in Placed : \A n \in Placed : Earlier(m, n)}

\* Only between two markers in front, neither of them offline.
ArcsBetween(front) ==
  {[from |-> arc[1].servers, to |-> arc[2].servers] :
     arc \in {arc \in Origin \X Placed :
               /\ arc[1] # arc[2] /\ {arc[1], arc[2]} \subseteq front
               /\ arc[1].status # "offline" /\ arc[2].status # "offline"}}

-----------------------------------------------------------------------------
StarmapInit ==
  /\ mMounted = FALSE /\ mOrigin = 0 /\ mMarkers = {} /\ mArcs = {}
  /\ mFrames = 0 /\ mListeners = 0 /\ mAtlas = "none"
  /\ mZoom = 0 /\ mTools = Tools
  /\ mMouse = FALSE /\ mTouches = 0 /\ mDragging = FALSE /\ mPinch = FALSE
  /\ mHovered = {} /\ mLost = FALSE

\* mountGlobeStarmap, with the listeners, the first frame and the outlines.
MountStarmap(list, origin) ==
  /\ ~mMounted /\ mMounted' = TRUE
  /\ mOrigin' = origin /\ mMarkers' = Markers(list)
  /\ mFrames' = mFrames + 1 /\ mListeners' = mListeners + 1
  /\ mAtlas' = "asked"
  /\ mArcs' = {} /\ mZoom' = 0 /\ mTools' = Tools
  /\ mMouse' = FALSE /\ mTouches' = 0 /\ mDragging' = FALSE /\ mPinch' = FALSE /\ mHovered' = {}
  /\ mLost' = FALSE

\* The page is rendered anew: the old one is taken off first.
UnmountStarmap ==
  /\ mMounted /\ mMounted' = FALSE
  /\ mFrames' = mFrames - 1 /\ mListeners' = mListeners - 1
  /\ mMarkers' = {} /\ mArcs' = {} /\ mHovered' = {}
  /\ UNCHANGED <<mOrigin, mAtlas, mZoom, mTools, dragVars>>

\* The outlines arrive, or not, also after the map was taken off.
AtlasSettles ==
  /\ mAtlas = "asked" /\ mAtlas' \in {"ready", "failed"}
  /\ UNCHANGED <<mMounted, mOrigin, mMarkers, mArcs, loopVars, mZoom, mTools, dragVars,
                 mHovered>>

\* Another theme: listeners and loop are taken off and put on again.  A pinch that
\* is under way is forgotten with them. 
SwitchTheme ==
  /\ mMounted /\ mPinch' = FALSE
  /\ UNCHANGED <<mapVars, mArcs, loopVars, mZoom, mTools, mMouse, mTouches,
                 mDragging, mLost, mHovered>>

\* draw.
DrawFrame(front) ==
  /\ mMounted /\ front \subseteq Placed
  /\ mArcs' = IF "lines" \in mTools THEN ArcsBetween(front) ELSE {}
  /\ UNCHANGED <<mapVars, loopVars, mZoom, mTools, dragVars, mHovered>>

-----------------------------------------------------------------------------
(* Mouse, fingers and the buttons.                                          *)

StarmapMouse(down) ==
  /\ mMounted /\ mTouches = 0
  /\ mMouse' = down /\ mDragging' = down
  /\ mLost' = FALSE
  /\ UNCHANGED <<mapVars, mArcs, loopVars, mZoom, mTools, mTouches, mPinch,
                 mHovered>>

\* onMove: the last marker of the list that is near, or none.
MouseMoves(marker) ==
  /\ mMounted
  /\ mHovered' = marker
  /\ UNCHANGED <<mapVars, mArcs, loopVars, mZoom, mTools, dragVars>>

Wheeled(up) ==
  /\ mMounted
  /\ mZoom' = IF up THEN (IF mZoom < Zooms THEN mZoom + 1 ELSE mZoom)
              ELSE IF mZoom > 0 THEN mZoom - 1 ELSE 0
  /\ UNCHANGED <<mapVars, mArcs, loopVars, mTools, dragVars, mHovered>>

StarmapTouchStart ==
  /\ mMounted /\ ~mMouse /\ mTouches < 3
  /\ mTouches' = mTouches + 1
  /\ mDragging' = (mDragging \/ mTouches = 0)
  /\ mPinch' = (mPinch \/ mTouches = 1)
  /\ UNCHANGED <<mapVars, mArcs, loopVars, mZoom, mTools, mMouse, mLost, mHovered>>

StarmapTouchMove(zoom) ==
  /\ mMounted /\ mTouches = 2 /\ mPinch
  /\ mZoom' = zoom
  /\ UNCHANGED <<mapVars, mArcs, loopVars, mTools, dragVars, mHovered>>

\* The end of any finger ends drag and pinch.
StarmapTouchEnd ==
  /\ mMounted /\ mTouches > 0
  /\ mTouches' = mTouches - 1
  /\ mDragging' = FALSE /\ mPinch' = FALSE /\ mLost' = FALSE
  /\ UNCHANGED <<mapVars, mArcs, loopVars, mZoom, mTools, mMouse, mHovered>>

\* touchcancel: nothing listens to it.
StarmapTouchLost ==
  /\ mTouches > 0 /\ mTouches' = 0
  /\ mLost' = TRUE
  /\ UNCHANGED <<mapVars, mArcs, loopVars, mZoom, mTools, mMouse, mDragging, mPinch,
                 mHovered>>

ToggleTool(tool) ==
  /\ mMounted
  /\ mTools' = IF tool \in mTools THEN mTools \ {tool} ELSE mTools \union {tool}
  /\ UNCHANGED <<mapVars, mArcs, loopVars, mZoom, dragVars, mHovered>>

StarmapStep ==
  \/ \E list \in MapLists : \E s \in DOMAIN list : MountStarmap(list, s)
  \/ UnmountStarmap \/ AtlasSettles \/ SwitchTheme
  \/ \E front \in SUBSET Placed : DrawFrame(front)
  \/ \E b \in BOOLEAN : StarmapMouse(b) \/ Wheeled(b)
  \/ \E marker \in {m.servers : m \in Placed} \union {{}} : MouseMoves(marker)
  \/ StarmapTouchStart \/ StarmapTouchEnd \/ StarmapTouchLost
  \/ \E zoom \in 0..Zooms : StarmapTouchMove(zoom)
  \/ \E tool \in Tools : ToggleTool(tool)

-----------------------------------------------------------------------------
StarmapTypeOK ==
  /\ {mMounted, mMouse, mDragging, mPinch, mLost} \subseteq BOOLEAN
  /\ mAtlas \in {"none", "asked", "ready", "failed"}
  /\ mZoom \in 0..Zooms /\ mTouches \in 0..3 /\ mTools \subseteq Tools
  /\ mHovered \subseteq Server

\* Through themes, renderings and lost touches: one loop and one set of listeners
\* while the map is on the page and none after; every server of the page in one
\* marker; the lines start at the page's server, if it has a place of its own, go
\* to no marker that is offline; and a drag has a finger or mouse that holds it
\* unless its end was lost, so that the map turns when it is let go.
StarmapWhole ==
  /\ mFrames = (IF mMounted THEN 1 ELSE 0) /\ mListeners = mFrames
  /\ mMounted => Cardinality({m \in mMarkers : mOrigin \in m.servers}) = 1
  /\ \A arc \in mArcs :
       /\ arc.from # arc.to
       /\ (\E m \in Placed : m.servers = {mOrigin}) => arc.from = {mOrigin}
       /\ \A m \in mMarkers : m.servers = arc.to => m.status # "offline"
  /\ mDragging => mMouse \/ mTouches > 0 \/ mLost
=============================================================================
