------------------------------ MODULE HomeView ------------------------------
(***************************************************************************)
(* The home page: the solar system and, behind a click on the earth, the   *)
(* Cesium globe with the servers and the starship beside it.               *)
(*                                                                         *)
(*   showCesiumGlobe, showSolarSystem   switch between the two scenes      *)
(*   getGlobe, ensureStarshipMounted    import and construct, once         *)
(*   CesiumGlobe                        waits for a layout, then starts    *)
(*   StarshipShowcase                   waits, loads its model, or fails   *)
(*   dashboardTab.refresh               fetches the list every 10 s and on *)
(*                                      the handlers' events               *)
(*                                                                         *)
(* Calls of showCesiumGlobe that wait for the same promise go on together, *)
(* before any other event, and then do the same.  The server's list is     *)
(* known by a version.                                                     *)
(***************************************************************************)
EXTENDS Integers, FiniteSets

CONSTANTS
  Mobiles,     \* whether the viewport is small: it skips the ship
  MaxList,     \* bound: changes of the list of servers
  MaxAsked     \* bound: list requests under way at once

ASSUME HomeAssumption ==
  Mobiles \subseteq BOOLEAN /\ MaxList \in Nat /\ MaxAsked \in Nat

VARIABLES
  hMobile,     \* the viewport
  hView,       \* the scene that is displayed
  hRunning,    \* the solar system's frame loop
  hTween,      \* its camera is on the way to the earth
  hCalls,      \* what calls of showCesiumGlobe wait for; whether their token holds
  hLoad,       \* where getGlobe is
  hGlobe,      \* the Cesium globe
  hStage,      \* the ship's stage is displayed
  hMount,      \* starshipMountPromise, and whether its token holds
  hShip,       \* the showcase in starshipShowcase
  hList,       \* the version of the list on the server
  hAsked,      \* list requests under way: the version when they were sent
  hServers,    \* state.servers
  hFan,        \* the cluster fanned out, by the version of its members
  hHidden      \* the collapsed cluster is hidden

homeVars == <<hMobile, hView, hRunning, hTween, hCalls, hLoad, hGlobe, hStage,
              hMount, hShip, hList, hAsked, hServers, hFan,
              hHidden>>

Version == 0..MaxList
Absent == -1
NoGlobe == [state |-> "none", servers |-> Absent, drawn |-> Absent]
NoMount == [state |-> "none", valid |-> FALSE]
Calls == [for : {"globe", "mount"}, valid : BOOLEAN]

-----------------------------------------------------------------------------
HomeInit ==
  /\ hMobile \in Mobiles
  /\ hView = "solar"
  /\ hRunning = TRUE
  /\ hTween = FALSE
  /\ hCalls = {}
  /\ hLoad = "none"
  /\ hGlobe = NoGlobe
  /\ hStage = FALSE
  /\ hMount = NoMount
  /\ hShip = "none"
  /\ hList = 0
  /\ hAsked = {}
  /\ hServers = 0
  /\ hFan = Absent
  /\ hHidden = FALSE

\* rebuildVpsEntities: everything that was drawn is drawn anew from the list.
BuildEntities(globe) == [globe EXCEPT !.drawn = globe.servers]

\* clearClusterFanout and rebuild of the entities; before _init only the list
\* is kept, and the call throws.
UpdateServers(globe, servers) ==
  IF globe.state = "live" THEN BuildEntities([globe EXCEPT !.servers = servers])
  ELSE [globe EXCEPT !.servers = servers]

ClearFan == hFan' = Absent /\ hHidden' = FALSE

\* showClusterFanout: the members of the page's list stand in a ring; what is
\* hidden under them is looked up among the clusters that are drawn.
FanOut == hFan' = hServers /\ hHidden' = (hGlobe.drawn = hServers)

\* Mutant: the globe is displayed as it is.
ArriveAsDrawn(globe) ==
  /\ hView' = "earth"
  /\ hRunning' = FALSE
  /\ hGlobe' = globe
  /\ ClearFan

\* The end of showCesiumGlobe, for a call whose token still holds.
Arrive(globe) ==
  /\ hView' = "earth"
  /\ hRunning' = FALSE
  /\ hGlobe' = UpdateServers(globe, hServers)
  /\ ClearFan

\* ensureStarshipMounted: is there anything to wait for?
MountWaits == ~hMobile /\ hShip = "none"

\* Calls that have their globe: display the stage, then wait for the ship or
\* show the earth at once.
HaveGlobe(calls, globe) ==
  IF \E c \in calls : c.valid
  THEN /\ hStage' = TRUE
       /\ IF MountWaits
          THEN /\ hCalls' = {[for |-> "mount", valid |-> TRUE]}
               /\ hMount' = IF hMount.state = "none"
                            THEN [state |-> "import", valid |-> TRUE] ELSE hMount
               /\ hGlobe' = globe
               /\ UNCHANGED <<hView, hRunning, hFan, hHidden>>
          ELSE /\ hCalls' = {}
               /\ UNCHANGED hMount
               /\ Arrive(globe)
  ELSE /\ hCalls' = {}
       /\ hGlobe' = globe
       /\ UNCHANGED <<hStage, hMount, hView, hRunning, hFan, hHidden>>

-----------------------------------------------------------------------------
(* The solar system's side of the switch.                                   *)

\* _activate("Earth"): ignored while the camera is on its way.
ClickEarth ==
  /\ hView = "solar" /\ hRunning /\ ~hTween
  /\ hTween' = TRUE
  /\ UNCHANGED <<hMobile, hView, hRunning, hCalls, hLoad, hGlobe, hStage, hMount,
                 hShip, hList, hAsked, hServers, hFan,
                 hHidden>>

\* A wheel turn or a pinch takes the camera over.
InterruptTween ==
  /\ hTween /\ hView = "solar"
  /\ hTween' = FALSE
  /\ UNCHANGED <<hMobile, hView, hRunning, hCalls, hLoad, hGlobe, hStage, hMount,
                 hShip, hList, hAsked, hServers, hFan,
                 hHidden>>

\* The camera has arrived: onEarthClick calls showCesiumGlobe.
TweenEnds ==
  /\ hTween /\ hRunning
  /\ hTween' = FALSE
  /\ IF hLoad = "ready"
     THEN HaveGlobe({[for |-> "globe", valid |-> TRUE]}, hGlobe) /\ UNCHANGED hLoad
     ELSE /\ hCalls' = hCalls \union {[for |-> "globe", valid |-> TRUE]}
          /\ hLoad' = IF hLoad = "none" THEN "import" ELSE hLoad
          /\ UNCHANGED <<hStage, hMount, hView, hRunning, hGlobe, hFan, hHidden>>
  /\ UNCHANGED <<hMobile, hShip, hList, hAsked, hServers>>

\* destroy of the showcase, whatever it is still loading.
ShipDestroyed == hShip' = "none"

\* Mutant: the ship is hidden with its stage, not destroyed.
ShowSolarKeepsShip ==
  /\ hView = "earth"
  /\ hCalls' = {[c EXCEPT !.valid = FALSE] : c \in hCalls}
  /\ hStage' = FALSE
  /\ hView' = "solar"
  /\ hRunning' = TRUE
  /\ hTween' = FALSE
  /\ UNCHANGED <<hMobile, hLoad, hMount, hShip, hGlobe, hList, hAsked, hServers,
                 hFan, hHidden>>

\* showSolarSystem: Escape, or the return button, while the globe is displayed.
ShowSolarSystem ==
  /\ hView = "earth"
  /\ hCalls' = {[c EXCEPT !.valid = FALSE] : c \in hCalls}
  /\ hMount' = NoMount
  /\ ShipDestroyed
  /\ hStage' = FALSE
  /\ hView' = "solar"
  /\ hRunning' = TRUE
  /\ hTween' = FALSE
  /\ UNCHANGED <<hMobile, hLoad, hGlobe, hList, hAsked, hServers, hFan,
                 hHidden>>

-----------------------------------------------------------------------------
(* getGlobe.                                                                *)

\* The instance has the list of this moment; then its own showcase is imported,
\* unless the viewport is small.
GlobeImported ==
  /\ hLoad = "import"
  /\ LET globe == [state |-> "waiting", servers |-> hServers, drawn |-> Absent]
     IN  IF hMobile
         THEN hLoad' = "ready" /\ HaveGlobe(hCalls, globe)
         ELSE /\ hLoad' = "showcase"
              /\ hGlobe' = globe
              /\ UNCHANGED <<hStage, hMount, hCalls, hView, hRunning, hFan,
                             hHidden>>
  /\ UNCHANGED <<hMobile, hTween, hShip, hList, hAsked,
                 hServers>>

\* The next click tries again.
GlobeImportFails ==
  /\ hLoad = "import"
  /\ hLoad' = "none"
  /\ hCalls' = {}
  /\ UNCHANGED <<hMobile, hView, hRunning, hTween, hGlobe, hStage, hMount, hShip,
                 hList, hAsked, hServers, hFan, hHidden>>

\* Constructed on a stage that is not displayed yet, it is destroyed at once;
\* or its import failed.  The calls then try once more themselves.
ShowcaseSettles ==
  /\ hLoad = "showcase"
  /\ hLoad' = "ready"
  /\ HaveGlobe(hCalls, hGlobe)
  /\ UNCHANGED <<hMobile, hTween, hShip, hList, hAsked,
                 hServers>>

-----------------------------------------------------------------------------
(* ensureStarshipMounted.                                                   *)

\* Every call that awaits this promise goes on to the earth if its token holds.
MountSettles(ship) ==
  /\ hShip' = ship
  /\ hMount' = NoMount
  /\ hCalls' = {c \in hCalls : c.for # "mount"}
  /\ IF [for |-> "mount", valid |-> TRUE] \in hCalls
     THEN Arrive(hGlobe)
     ELSE UNCHANGED <<hView, hRunning, hGlobe, hFan, hHidden>>
  /\ UNCHANGED <<hMobile, hTween, hLoad, hStage, hList,
                 hAsked, hServers>>

MountArrives ==
  /\ hMount.state = "import"
  /\ MountSettles(IF hMount.valid /\ hStage THEN "waiting" ELSE hShip)

MountFails ==
  /\ hMount.state = "import"
  /\ MountSettles(hShip)

-----------------------------------------------------------------------------
(* StarshipShowcase: a delay and a layout, then the model, then its         *)
(* textures.  Either URL may fail; a failure while it is set up destroys    *)
(* the showcase, which stays in starshipShowcase.  What a showcase that was *)
(* destroyed is still loading is dropped when it arrives.                   *)

ShipStep(from, to) ==
  /\ hShip = from
  /\ hShip' = to
  /\ UNCHANGED <<hMobile, hView, hRunning, hTween, hCalls, hLoad, hGlobe, hStage,
                 hMount, hList, hAsked, hServers, hFan,
                 hHidden>>

ShipStarts == ShipStep("waiting", "loading") \/ ShipStep("waiting", "failed")
ShipLoads == ShipStep("loading", "textures") \/ ShipStep("loading", "failed")
ShipShown == ShipStep("textures", "shown") \/ ShipStep("textures", "failed")

-----------------------------------------------------------------------------
(* The globe itself.                                                        *)

\* It starts once its container has a size, or after 60 attempts without one.
GlobeStarts ==
  /\ hGlobe.state = "waiting"
  /\ hGlobe' = BuildEntities([hGlobe EXCEPT !.state = "live"])
  /\ UNCHANGED <<hMobile, hView, hRunning, hTween, hCalls, hLoad, hStage, hMount,
                 hShip, hList, hAsked, hServers, hFan,
                 hHidden>>

\* A browser without WebGL: the instance is kept, and never starts.
GlobeStartFails ==
  /\ hGlobe.state = "waiting"
  /\ hGlobe' = [hGlobe EXCEPT !.state = "dead"]
  /\ UNCHANGED <<hMobile, hView, hRunning, hTween, hCalls, hLoad, hStage, hMount,
                 hShip, hList, hAsked, hServers, hFan,
                 hHidden>>

\* handleGlobeNodeSelection, for a pin that stands for several servers.
SelectCluster ==
  /\ hView = "earth" /\ hGlobe.state = "live"
  /\ FanOut
  /\ UNCHANGED <<hMobile, hView, hRunning, hTween, hCalls, hLoad, hGlobe, hStage,
                 hMount, hShip, hList, hAsked, hServers>>

\* A click on nothing, or the picker's close button.
CloseCluster ==
  /\ hFan # Absent
  /\ ClearFan
  /\ UNCHANGED <<hMobile, hView, hRunning, hTween, hCalls, hLoad, hGlobe, hStage,
                 hMount, hShip, hList, hAsked, hServers>>

-----------------------------------------------------------------------------
(* The list.                                                                *)

ListChanges ==
  /\ hList < MaxList
  /\ hList' = hList + 1
  /\ UNCHANGED <<hMobile, hView, hRunning, hTween, hCalls, hLoad, hGlobe, hStage,
                 hMount, hShip, hAsked, hServers, hFan,
                 hHidden>>

\* The timer and the handlers ask again while an answer is under way.
Refresh ==
  /\ Cardinality(hAsked) < MaxAsked
  /\ hAsked' = hAsked \union {hList}
  /\ UNCHANGED <<hMobile, hView, hRunning, hTween, hCalls, hLoad, hGlobe, hStage,
                 hMount, hShip, hList, hServers, hFan,
                 hHidden>>

\* Mutant: the fan stays over the entities drawn anew.
GiveGlobeKeepsFan(servers) ==
  /\ hServers' = servers
  /\ hGlobe' = IF hLoad = "ready" THEN UpdateServers(hGlobe, servers) ELSE hGlobe
  /\ UNCHANGED <<hMobile, hView, hRunning, hTween, hCalls, hLoad, hStage, hMount,
                 hShip, hList, hFan, hHidden>>

\* A failure keeps the list, but the globe is given it again.
GiveGlobe(servers) ==
  /\ hServers' = servers
  /\ IF hLoad = "ready"
     THEN hGlobe' = UpdateServers(hGlobe, servers) /\ ClearFan
     ELSE UNCHANGED <<hGlobe, hFan, hHidden>>
  /\ UNCHANGED <<hMobile, hView, hRunning, hTween, hCalls, hLoad, hStage, hMount,
                 hShip, hList>>

ListAnswer(a) ==
  /\ a \in hAsked /\ hAsked' = hAsked \ {a}
  /\ \E servers \in a..hList : GiveGlobe(servers)

\* Mutant: a failure leaves the list there was at first.
ListFailsResets(a) ==
  /\ a \in hAsked /\ hAsked' = hAsked \ {a}
  /\ GiveGlobe(0)

ListFails(a) ==
  /\ a \in hAsked /\ hAsked' = hAsked \ {a}
  /\ GiveGlobe(hServers)

HomeStep ==
  \/ ClickEarth \/ InterruptTween \/ TweenEnds \/ ShowSolarSystem
  \/ GlobeImported \/ GlobeImportFails \/ ShowcaseSettles
  \/ MountArrives \/ MountFails
  \/ ShipStarts \/ ShipLoads \/ ShipShown
  \/ GlobeStarts \/ GlobeStartFails \/ SelectCluster \/ CloseCluster
  \/ ListChanges \/ Refresh
  \/ \E a \in hAsked : ListAnswer(a) \/ ListFails(a)

HomeSpec == HomeInit /\ [][HomeStep]_homeVars

-----------------------------------------------------------------------------
HomeTypeOK ==
  /\ hView \in {"solar", "earth"} /\ hRunning \in BOOLEAN /\ hTween \in BOOLEAN
  /\ hCalls \subseteq Calls
  /\ hLoad \in {"none", "import", "showcase", "ready"}
  /\ hGlobe \in [state : {"none", "waiting", "live", "dead"},
                 servers : Version \union {Absent}, drawn : Version \union {Absent}]
  /\ hMount \in [state : {"none", "import"}, valid : BOOLEAN]
  /\ hShip \in {"none", "waiting", "loading", "textures", "shown", "failed"}
  /\ hAsked \subseteq Version /\ hServers \in Version /\ hList \in Version
  /\ hFan \in Version \union {Absent} /\ hHidden \in BOOLEAN

\* Whatever is being imported, fails or is called twice, the page only ever
\* switches as ViewSwitch says: the scene that is hidden is not animated, and no
\* ship is left over the solar system.
Switch == INSTANCE ViewSwitch
            WITH view <- hView, animated <- hRunning, ship <- hShip # "none"
SwitchSpec == Switch!Spec

\* The globe on display shows the list the page has, also when the list arrived
\* while the globe was imported, or before it had started.
EarthShowsList ==
  hView = "earth" /\ hGlobe.state = "live" => hGlobe.drawn = hServers

\* A cluster is fanned out in place of its collapsed form, and with the members
\* the globe has drawn: a refresh of the list closes it first.
FanReplacesCluster ==
  /\ hFan # Absent => hHidden /\ hFan = hGlobe.drawn
  /\ hHidden => hFan # Absent

\* A click on the earth leads to the earth, or the import failed and the next
\* click tries again: no call waits for ever behind another.
EarthReached ==
  hCalls # {} ~> hView = "earth" \/ hLoad = "none"

\* After the last change the page ends with the server's list, although an
\* older answer may come after a newer one.
ListConverges == <>[](hServers = hList)
=============================================================================
