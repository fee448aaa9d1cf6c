--------------------------- MODULE HomeViewProofs ---------------------------
(***************************************************************************)
(* The home page implements ViewSwitch, the globe on display shows the     *)
(* page's list, and a drag of the globe selects no node: for any number of *)
(* lists, of requests and of pointers.  The two buffers of the dust tail are*)
(* never lost and never doubled, and what is drawn is of the present       *)
(* generation.  The globe is dressed by its own imagery, and no texture    *)
(* outlives the scene it was loaded for.                                   *)
(***************************************************************************)
EXTENDS HomeView, GlobeMotion, DustTail, SolarScene, GlobeLayers, GlobeBeacons,
        Starmap, OverviewPage, IntegerLemmas

(* The switch and the globe.  A step of the switch is a step of HomeView in *)
(* which a call of showCesiumGlobe comes to its end.  That this happens over*)
(* the solar system only, and that the ship is never there before, rests on *)
(* what an import under way says of the page: SwitchInv.                    *)

USE HomeAssumption

Waiting == [for |-> "mount", valid |-> TRUE]

\* While the solar system is shown there is no ship.  The earth is shown only by a
\* globe that is there, and the ship's import is under way only when a call that
\* holds waits for it, over the solar system.
SwitchInv ==
  /\ hView \in {"solar", "earth"} /\ hMount.state \in {"none", "import"}
  /\ hRunning = (hView = "solar")
  /\ hView = "solar" => hShip = "none"
  /\ hView = "earth" => hLoad = "ready" /\ hMount.state = "none"
  /\ hMount.state = "import" =>
       hLoad = "ready" /\ ~hMobile /\ hShip = "none" /\ Waiting \in hCalls

\* What HaveGlobe and Arrive do to the two scenes.
LEMMA HaveGlobeSwitches ==
  ASSUME SwitchInv, NEW calls, NEW globe, HaveGlobe(calls, globe),
         hView = "solar", UNCHANGED <<hShip, hMobile>>, hLoad' = "ready",
         hMount.state = "import" => \E c \in calls : c.valid
  PROVE  SwitchInv' /\ [Switch!Next]_(Switch!viewVars)
  <1>1. CASE (\E c \in calls : c.valid) /\ MountWaits
    <2>1. /\ hCalls' = {Waiting} /\ UNCHANGED <<hView, hRunning>>
          /\ hMount' = IF hMount.state = "none"
                       THEN [state |-> "import", valid |-> TRUE] ELSE hMount
      BY <1>1 DEF HaveGlobe, Waiting
    <2>2. ~hMobile /\ hShip = "none"
      BY <1>1 DEF MountWaits
    <2> QED BY <2>1, <2>2 DEF SwitchInv, Switch!viewVars
  <1>2. CASE (\E c \in calls : c.valid) /\ ~MountWaits
    <2>1. hView' = "earth" /\ hRunning' = FALSE /\ hMount' = hMount
      BY <1>2 DEF HaveGlobe, Arrive
    <2>2. hMount.state # "import"
      BY <1>2 DEF SwitchInv, MountWaits
    <2>3. hMount.state = "none"
      BY <2>2 DEF SwitchInv
    <2> QED BY <2>1, <2>3 DEF SwitchInv, Switch!Next, Switch!ShowEarth
  <1>3. CASE ~\E c \in calls : c.valid
    <2>1. UNCHANGED <<hView, hRunning, hMount>>
      BY <1>3 DEF HaveGlobe
    <2> QED BY <1>3, <2>1 DEF SwitchInv, Switch!viewVars
  <1> QED BY <1>1, <1>2, <1>3

LEMMA SwitchInit == HomeInit => SwitchInv /\ Switch!Init
  <1> SUFFICES ASSUME HomeInit PROVE SwitchInv /\ Switch!Init
    OBVIOUS
  <1>1. hView = "solar" /\ hRunning = TRUE /\ hShip = "none" /\ hMount = NoMount
    BY DEF HomeInit
  <1>2. SwitchInv
    BY <1>1 DEF SwitchInv, NoMount
  <1>3. (hShip # "none") = FALSE
    BY <1>1
  <1> QED BY <1>1, <1>2, <1>3 DEF Switch!Init

\* Every step of the page is a step of ViewSwitch, or changes nothing it speaks of.
LEMMA SwitchStep ==
  ASSUME SwitchInv, [HomeStep]_homeVars
  PROVE  SwitchInv' /\ [Switch!Next]_(Switch!viewVars)
  <1>1. CASE ClickEarth \/ InterruptTween \/ GlobeStarts \/ GlobeStartFails
    BY <1>1
    DEF ClickEarth, InterruptTween, GlobeStarts, GlobeStartFails, SwitchInv,
        Switch!viewVars
  <1>2. CASE TweenEnds
    <2>1. hView = "solar" /\ UNCHANGED <<hShip, hMobile>>
      BY <1>2 DEF TweenEnds, SwitchInv
    <2>2. CASE hLoad = "ready"
      <3> DEFINE calls == {[for |-> "globe", valid |-> TRUE]}
      <3>1. HaveGlobe(calls, hGlobe) /\ hLoad' = "ready"
        BY <1>2, <2>2 DEF TweenEnds
      <3>2. \E c \in calls : c.valid
        OBVIOUS
      <3> HIDE DEF calls
      <3> QED BY <2>1, <3>1, <3>2, HaveGlobeSwitches
    <2>3. CASE hLoad # "ready"
      BY <1>2, <2>1, <2>3 DEF TweenEnds, SwitchInv, Switch!viewVars
    <2> QED BY <2>2, <2>3
  <1>3. CASE ShowSolarSystem
    BY <1>3
    DEF ShowSolarSystem, ShipDestroyed, NoMount, SwitchInv, Switch!Next,
        Switch!ShowSolar
  <1>4. CASE GlobeImported
    <2>1. hView = "solar" /\ hMount.state = "none" /\ UNCHANGED <<hShip, hMobile>>
      BY <1>4 DEF GlobeImported, SwitchInv
    <2>2. CASE hMobile
      <3> DEFINE globe == [state |-> "waiting", servers |-> hServers, drawn |-> Absent]
      <3>1. HaveGlobe(hCalls, globe) /\ hLoad' = "ready"
        BY <1>4, <2>2 DEF GlobeImported
      <3> HIDE DEF globe
      <3> QED BY <2>1, <3>1, HaveGlobeSwitches
    <2>3. CASE ~hMobile
      BY <1>4, <2>1, <2>3 DEF GlobeImported, SwitchInv, Switch!viewVars
    <2> QED BY <2>2, <2>3
  <1>5. CASE GlobeImportFails
    BY <1>5 DEF GlobeImportFails, SwitchInv, Switch!viewVars
  <1>6. CASE ShowcaseSettles
    <2>1. hView = "solar" /\ hMount.state = "none" /\ UNCHANGED <<hShip, hMobile>>
      BY <1>6 DEF ShowcaseSettles, SwitchInv
    <2>2. HaveGlobe(hCalls, hGlobe) /\ hLoad' = "ready"
      BY <1>6 DEF ShowcaseSettles
    <2> QED BY <2>1, <2>2, HaveGlobeSwitches
  <1>7. ASSUME NEW s, hMount.state = "import", MountSettles(s)
        PROVE  SwitchInv' /\ [Switch!Next]_(Switch!viewVars)
    <2>1. hView = "solar" /\ hShip = "none" /\ hLoad = "ready" /\ Waiting \in hCalls
      BY <1>7 DEF SwitchInv
    <2>2. /\ hView' = "earth" /\ hRunning' = FALSE /\ hMount' = NoMount
          /\ hShip' = s /\ hLoad' = hLoad
      BY <1>7, <2>1 DEF MountSettles, Arrive, Waiting
    <2>3. SwitchInv'
      BY <2>1, <2>2 DEF SwitchInv, NoMount
    <2>4. Switch!ShowEarth
      BY <2>1, <2>2 DEF Switch!ShowEarth
    <2> QED BY <2>3, <2>4 DEF Switch!Next
  <1>8. CASE MountArrives \/ MountFails
    BY <1>7, <1>8 DEF MountArrives, MountFails
  <1>9. CASE ShipStarts \/ ShipLoads \/ ShipShown
    <2>1. PICK from, to :
            /\ ShipStep(from, to)
            /\ from # "none" /\ to # "none"
      BY <1>9 DEF ShipStarts, ShipLoads, ShipShown
    <2> QED BY <2>1 DEF ShipStep, SwitchInv, Switch!viewVars
  <1>10. CASE SelectCluster \/ CloseCluster \/ ListChanges \/ Refresh
    BY <1>10
    DEF SelectCluster, CloseCluster, ListChanges, Refresh, SwitchInv,
        Switch!viewVars
  <1>11. CASE \E a \in hAsked : ListAnswer(a) \/ ListFails(a)
    <2>1. PICK servers : GiveGlobe(servers)
      BY <1>11 DEF ListAnswer, ListFails
    <2> QED BY <2>1 DEF GiveGlobe, SwitchInv, Switch!viewVars
  <1>12. CASE UNCHANGED homeVars
    BY <1>12 DEF homeVars, SwitchInv, Switch!viewVars
  <1> QED
    BY <1>1, <1>2, <1>3, <1>4, <1>5, <1>6, <1>8, <1>9, <1>10, <1>11, <1>12
    DEF HomeStep

\* Whatever is being imported, fails or is called twice, the page switches as
\* ViewSwitch says.
THEOREM SwitchImplemented == HomeSpec => SwitchSpec
  <1> QED BY SwitchInit, SwitchStep, PTL DEF HomeSpec, SwitchSpec, Switch!Spec
-----------------------------------------------------------------------------
(* What the globe shows.                                                    *)

Globe == [state : {"none", "waiting", "live", "dead"}, servers : Int, drawn : Int]

ListTypes ==
  hServers \in Nat /\ hList \in Nat /\ hAsked \subseteq Nat /\ hGlobe \in Globe

\* A fan belongs to a globe that runs and is over what it has drawn.
FanInv ==
  /\ hFan # Absent => hGlobe.state = "live" /\ hHidden /\ hFan = hGlobe.drawn
  /\ hHidden => hFan # Absent

\* There is a globe only after its import, and the one on display has been given
\* the page's list, which it draws when it starts.
GlobeInv ==
  /\ ListTypes /\ FanInv
  /\ hGlobe.state # "none" => hLoad \in {"showcase", "ready"}
  /\ hView = "earth" => hGlobe.servers = hServers
  /\ EarthShowsList

LEMMA UpdateGlobe ==
  ASSUME NEW globe \in Globe, NEW servers \in Int
  PROVE  /\ UpdateServers(globe, servers) \in Globe
         /\ UpdateServers(globe, servers).state = globe.state
         /\ UpdateServers(globe, servers).servers = servers
         /\ globe.state = "live" => UpdateServers(globe, servers).drawn = servers
  BY DEF Globe, UpdateServers, BuildEntities

LEMMA ArriveShows ==
  ASSUME ListTypes, NEW globe \in Globe, Arrive(globe), hServers' = hServers
  PROVE  /\ hGlobe' \in Globe /\ hGlobe'.state = globe.state
         /\ hGlobe'.servers = hServers' /\ EarthShowsList' /\ FanInv'
  <1>1. hServers \in Int
    BY DEF ListTypes
  <1>2. /\ hGlobe' = UpdateServers(globe, hServers)
        /\ hFan' = Absent /\ hHidden' = FALSE
    BY DEF Arrive, ClearFan
  <1> QED BY <1>1, <1>2, UpdateGlobe DEF EarthShowsList, FanInv

\* Over the solar system, a call that has its globe keeps it as it is or shows it.
LEMMA HaveGlobeShows ==
  ASSUME GlobeInv, hView = "solar", NEW calls, NEW globe \in Globe,
         HaveGlobe(calls, globe), hLoad' = "ready",
         globe = hGlobe \/ hFan = Absent,
         UNCHANGED <<hServers, hList, hAsked>>
  PROVE  GlobeInv'
  <1>1. CASE Arrive(globe)
    BY <1>1, ArriveShows DEF GlobeInv, ListTypes
  <1>2. CASE UNCHANGED <<hView, hFan, hHidden>> /\ hGlobe' = globe
    BY <1>2 DEF GlobeInv, ListTypes, FanInv, EarthShowsList
  <1> QED BY <1>1, <1>2 DEF HaveGlobe

LEMMA GlobeInit == HomeInit => GlobeInv
  <1> SUFFICES ASSUME HomeInit PROVE GlobeInv
    OBVIOUS
  <1>1. hView = "solar" /\ hGlobe = NoGlobe /\ hFan = Absent /\ hHidden = FALSE
    BY DEF HomeInit
  <1>2. ListTypes
    BY DEF HomeInit, ListTypes, NoGlobe, Globe, Absent
  <1> QED BY <1>1, <1>2 DEF GlobeInv, FanInv, EarthShowsList, NoGlobe

\* A list of the page is given to the globe as soon as there is one.
LEMMA GiveGlobeShows ==
  ASSUME GlobeInv, SwitchInv, NEW servers \in Nat, GiveGlobe(servers),
         hAsked' \subseteq Nat
  PROVE  GlobeInv'
  <1>1. servers \in Int /\ hGlobe \in Globe
    BY DEF GlobeInv, ListTypes
  <1>2. hServers' = servers /\ UNCHANGED <<hView, hLoad, hList>>
    BY DEF GiveGlobe
  <1>3. CASE hLoad = "ready"
    <2>1. /\ hGlobe' = UpdateServers(hGlobe, servers)
          /\ hFan' = Absent /\ hHidden' = FALSE
      BY <1>3 DEF GiveGlobe, ClearFan
    <2> QED
      BY <1>1, <1>2, <1>3, <2>1, UpdateGlobe
      DEF GlobeInv, ListTypes, FanInv, EarthShowsList
  <1>4. CASE hLoad # "ready"
    <2>1. hView = "solar"
      BY <1>4 DEF SwitchInv
    <2>2. UNCHANGED <<hGlobe, hFan, hHidden>>
      BY <1>4 DEF GiveGlobe
    <2> QED
      BY <1>2, <2>1, <2>2 DEF GlobeInv, ListTypes, FanInv, EarthShowsList
  <1> QED BY <1>3, <1>4

LEMMA GlobeStep ==
  ASSUME GlobeInv, SwitchInv, [HomeStep]_homeVars PROVE GlobeInv'
  <1> DEFINE Seen == <<hView, hLoad, hGlobe, hServers, hFan, hHidden>>
  <1>0. ASSUME UNCHANGED Seen, hList' \in Nat, hAsked' \subseteq Nat PROVE GlobeInv'
    BY <1>0 DEF GlobeInv, ListTypes, FanInv, EarthShowsList
  <1>1. CASE ClickEarth \/ InterruptTween
    <2>1. UNCHANGED Seen /\ UNCHANGED <<hList, hAsked>>
      BY <1>1 DEF ClickEarth, InterruptTween
    <2> QED BY <1>0, <2>1 DEF GlobeInv, ListTypes
  <1>2. CASE TweenEnds
    <2>1. hView = "solar" /\ UNCHANGED <<hServers, hList, hAsked>>
      BY <1>2 DEF TweenEnds, SwitchInv
    <2>2. CASE hLoad = "ready"
      <3> DEFINE calls == {[for |-> "globe", valid |-> TRUE]}
      <3>1. HaveGlobe(calls, hGlobe) /\ hLoad' = "ready" /\ hGlobe \in Globe
        BY <1>2, <2>2 DEF TweenEnds, GlobeInv, ListTypes
      <3> HIDE DEF calls
      <3> QED BY <2>1, <3>1, HaveGlobeShows
    <2>3. CASE hLoad # "ready"
      <3>1. /\ UNCHANGED <<hView, hGlobe, hFan, hHidden>>
            /\ hLoad' = IF hLoad = "none" THEN "import" ELSE hLoad
        BY <1>2, <2>3 DEF TweenEnds
      <3> QED
        BY <2>1, <3>1 DEF GlobeInv, ListTypes, FanInv, EarthShowsList
    <2> QED BY <2>2, <2>3
  <1>3. CASE ShowSolarSystem
    BY <1>3 DEF ShowSolarSystem, GlobeInv, ListTypes, FanInv, EarthShowsList
  <1>4. CASE GlobeImported
    <2> DEFINE globe == [state |-> "waiting", servers |-> hServers, drawn |-> Absent]
    <2>1. /\ hView = "solar" /\ UNCHANGED <<hServers, hList, hAsked>>
          /\ hLoad = "import"
      BY <1>4 DEF GlobeImported, SwitchInv
    <2>2. hFan = Absent /\ hHidden # TRUE
      BY <2>1 DEF GlobeInv, FanInv
    <2>3. globe \in Globe /\ globe.state = "waiting"
      BY DEF Globe, GlobeInv, ListTypes, Absent
    <2>4. CASE hMobile
      <3>1. HaveGlobe(hCalls, globe) /\ hLoad' = "ready"
        BY <1>4, <2>4 DEF GlobeImported
      <3> HIDE DEF globe
      <3> QED BY <2>1, <2>2, <2>3, <3>1, HaveGlobeShows
    <2>5. CASE ~hMobile
      <3>1. /\ hGlobe' = globe /\ hLoad' = "showcase"
            /\ UNCHANGED <<hView, hFan, hHidden>>
        BY <1>4, <2>5 DEF GlobeImported
      <3> HIDE DEF globe
      <3> QED
        BY <2>1, <2>2, <2>3, <3>1 DEF GlobeInv, ListTypes, FanInv, EarthShowsList
    <2> QED BY <2>4, <2>5
  <1>5. CASE GlobeImportFails
    BY <1>5 DEF GlobeImportFails, GlobeInv, ListTypes, FanInv, EarthShowsList
  <1>6. CASE ShowcaseSettles
    <2>1. /\ hView = "solar" /\ UNCHANGED <<hServers, hList, hAsked>>
          /\ HaveGlobe(hCalls, hGlobe) /\ hLoad' = "ready" /\ hGlobe \in Globe
      BY <1>6 DEF ShowcaseSettles, SwitchInv, GlobeInv, ListTypes
    <2> QED BY <2>1, HaveGlobeShows
  <1>7. ASSUME NEW s, hMount.state = "import", MountSettles(s)
        PROVE  GlobeInv'
    <2>1. hLoad = "ready" /\ Waiting \in hCalls
      BY <1>7 DEF SwitchInv
    <2>2. /\ Arrive(hGlobe) /\ hLoad' = hLoad /\ hGlobe \in Globe
          /\ UNCHANGED <<hServers, hList, hAsked>>
      BY <1>7, <2>1 DEF MountSettles, Waiting, GlobeInv, ListTypes
    <2> QED BY <2>1, <2>2, ArriveShows DEF GlobeInv, ListTypes
  <1>8. CASE MountArrives \/ MountFails
    BY <1>7, <1>8 DEF MountArrives, MountFails
  <1>9. CASE ShipStarts \/ ShipLoads \/ ShipShown
    <2>1. UNCHANGED Seen /\ UNCHANGED <<hList, hAsked>>
      BY <1>9 DEF ShipStarts, ShipLoads, ShipShown, ShipStep
    <2> QED BY <1>0, <2>1 DEF GlobeInv, ListTypes
  <1>10. CASE GlobeStarts
    <2>1. /\ hGlobe.state = "waiting" /\ hGlobe \in Globe
          /\ hGlobe' = [[hGlobe EXCEPT !.state = "live"] EXCEPT
                         !.drawn = [hGlobe EXCEPT !.state = "live"].servers]
          /\ UNCHANGED <<hView, hLoad, hServers, hList, hAsked, hFan, hHidden>>
      BY <1>10 DEF GlobeStarts, BuildEntities, GlobeInv, ListTypes
    <2>2. /\ hGlobe' \in Globe /\ hGlobe'.servers = hGlobe.servers
          /\ hGlobe'.drawn = hGlobe.servers
      BY <2>1 DEF Globe
    <2>3. hFan = Absent /\ hHidden # TRUE
      BY <2>1 DEF GlobeInv, FanInv
    <2> QED
      BY <2>1, <2>2, <2>3 DEF GlobeInv, ListTypes, FanInv, EarthShowsList
  <1>11. CASE GlobeStartFails
    <2>1. /\ hGlobe.state = "waiting" /\ hGlobe \in Globe
          /\ hGlobe' = [hGlobe EXCEPT !.state = "dead"]
          /\ UNCHANGED <<hView, hLoad, hServers, hList, hAsked, hFan, hHidden>>
      BY <1>11 DEF GlobeStartFails, GlobeInv, ListTypes
    <2>2. /\ hGlobe' \in Globe /\ hGlobe'.servers = hGlobe.servers
          /\ hGlobe'.state = "dead"
      BY <2>1 DEF Globe
    <2>3. hFan = Absent /\ hHidden # TRUE
      BY <2>1 DEF GlobeInv, FanInv
    <2> QED
      BY <2>1, <2>2, <2>3 DEF GlobeInv, ListTypes, FanInv, EarthShowsList
  <1>12. CASE SelectCluster
    <2>1. /\ hGlobe.state = "live" /\ hGlobe.drawn = hServers
          /\ hFan' = hServers /\ hHidden' = (hGlobe.drawn = hServers)
          /\ UNCHANGED <<hView, hLoad, hGlobe, hServers, hList, hAsked>>
      BY <1>12 DEF SelectCluster, FanOut, GlobeInv, EarthShowsList
    <2>2. hServers # Absent
      BY DEF GlobeInv, ListTypes, Absent
    <2> QED
      BY <2>1, <2>2 DEF GlobeInv, ListTypes, FanInv, EarthShowsList
  <1>13. CASE CloseCluster
    BY <1>13
    DEF CloseCluster, ClearFan, GlobeInv, ListTypes, FanInv, EarthShowsList
  <1>14. CASE ListChanges \/ Refresh
    <2>1. UNCHANGED Seen
      BY <1>14 DEF ListChanges, Refresh
    <2>2. /\ hList' = hList + 1 \/ hList' = hList
          /\ hAsked' = hAsked \/ hAsked' = hAsked \union {hList}
      BY <1>14 DEF ListChanges, Refresh
    <2>3. hList \in Nat /\ hAsked \subseteq Nat
      BY DEF GlobeInv, ListTypes
    <2>4. hList' \in Nat
      BY <2>2, <2>3
    <2>5. hAsked' \subseteq Nat
      BY <2>2, <2>3
    <2> QED BY <1>0, <2>1, <2>4, <2>5
  <1>15. CASE \E a \in hAsked : ListAnswer(a) \/ ListFails(a)
    <2>1. PICK servers \in Nat : GiveGlobe(servers)
      BY <1>15 DEF ListAnswer, ListFails, GlobeInv, ListTypes
    <2>2. hAsked' \subseteq Nat
      BY <1>15 DEF ListAnswer, ListFails, GlobeInv, ListTypes
    <2> QED BY <2>1, <2>2, GiveGlobeShows
  <1>16. CASE UNCHANGED homeVars
    BY <1>16 DEF homeVars, GlobeInv, ListTypes, FanInv, EarthShowsList
  <1> QED
    BY <1>1, <1>2, <1>3, <1>4, <1>5, <1>6, <1>8, <1>9, <1>10, <1>11, <1>12, <1>13,
       <1>14, <1>15, <1>16
    DEF HomeStep

\* The globe on display shows the page's list, also when it came while the globe
\* was imported; and the fan stands for a cluster that the globe has drawn.
THEOREM GlobeShows == HomeSpec => [](EarthShowsList /\ FanReplacesCluster)
  <1>1. GlobeInv => EarthShowsList /\ FanReplacesCluster
    BY DEF GlobeInv, FanInv, FanReplacesCluster
  <1> QED
    BY <1>1, SwitchInit, SwitchStep, GlobeInit, GlobeStep, PTL DEF HomeSpec

\* What the page, the imports and the globe are made of.
Globes == [state : {"none", "waiting", "live", "dead"},
           servers : Version \union {Absent}, drawn : Version \union {Absent}]

LEMMA HomeTypesInit == HomeInit => HomeTypeOK
  <1> SUFFICES ASSUME HomeInit PROVE HomeTypeOK
    OBVIOUS
  <1>1. 0 \in Version
    BY HomeAssumption DEF Version
  <1> QED BY <1>1 DEF HomeInit, HomeTypeOK, NoGlobe, NoMount

\* The list that is given to a globe, and what it draws.
LEMMA GlobeTyped ==
  ASSUME NEW globe \in Globes, NEW servers \in Version
  PROVE  UpdateServers(globe, servers) \in Globes
  BY DEF Globes, UpdateServers, BuildEntities

LEMMA ArriveTyped ==
  ASSUME HomeTypeOK, NEW globe \in Globes, Arrive(globe)
  PROVE  /\ hView' = "earth" /\ hRunning' = FALSE /\ hGlobe' \in Globes
         /\ hFan' = Absent /\ hHidden' = FALSE
  <1>1. hServers \in Version
    BY DEF HomeTypeOK
  <1> QED BY <1>1, GlobeTyped DEF Arrive, ClearFan

LEMMA HaveGlobeTyped ==
  ASSUME HomeTypeOK, NEW calls, NEW globe \in Globes, HaveGlobe(calls, globe),
         hLoad' \in {"none", "import", "showcase", "ready"}, hTween' \in BOOLEAN,
         UNCHANGED <<hShip, hList, hAsked, hServers>>
  PROVE  HomeTypeOK'
  <1>0. HomeTypeOK
    OBVIOUS
  <1>1. /\ hView' \in {"solar", "earth"} /\ hRunning' \in BOOLEAN /\ hGlobe' \in Globes
        /\ hFan' \in Version \union {Absent} /\ hHidden' \in BOOLEAN
    <2>1. CASE Arrive(globe)
      BY <2>1, ArriveTyped
    <2>2. CASE hGlobe' = globe /\ UNCHANGED <<hView, hRunning, hFan, hHidden>>
      BY <2>2 DEF HomeTypeOK
    <2> QED BY <2>1, <2>2 DEF HaveGlobe
  <1>2. hCalls' \subseteq Calls
    <2>1. [for |-> "mount", valid |-> TRUE] \in Calls
      BY DEF Calls
    <2>2. hCalls' = {[for |-> "mount", valid |-> TRUE]} \/ hCalls' = {}
      BY DEF HaveGlobe
    <2> QED BY <2>1, <2>2
  <1>3. hMount' \in [state : {"none", "import"}, valid : BOOLEAN]
    <2>1. hMount \in [state : {"none", "import"}, valid : BOOLEAN]
      BY DEF HomeTypeOK
    <2>2. hMount' = hMount \/ hMount' = [state |-> "import", valid |-> TRUE]
      BY DEF HaveGlobe
    <2>3. [state |-> "import", valid |-> TRUE] \in [state : {"none", "import"}, valid : BOOLEAN]
      OBVIOUS
    <2> QED BY <2>1, <2>2, <2>3
  <1> QED BY <1>1, <1>2, <1>3 DEF HomeTypeOK, Globes

LEMMA HomeTypesStep == HomeTypeOK /\ [HomeStep]_homeVars => HomeTypeOK'
  <1> SUFFICES ASSUME HomeTypeOK, [HomeStep]_homeVars PROVE HomeTypeOK'
    OBVIOUS
  <1>0. hGlobe \in Globes /\ hServers \in Version /\ hList \in Version /\ hAsked \subseteq Version
    BY DEF HomeTypeOK, Globes
  <1>1. CASE ClickEarth \/ InterruptTween
    BY <1>1 DEF ClickEarth, InterruptTween, HomeTypeOK
  <1>2. CASE TweenEnds
    <2>1. CASE hLoad = "ready"
      <3>1. HaveGlobe({[for |-> "globe", valid |-> TRUE]}, hGlobe)
            /\ hLoad' = "ready" /\ hTween' = FALSE /\ UNCHANGED <<hShip, hList, hAsked, hServers>>
        BY <1>2, <2>1 DEF TweenEnds
      <3> QED BY <1>0, <3>1, HaveGlobeTyped
    <2>2. CASE hLoad # "ready"
      <3>1. /\ hCalls' = hCalls \union {[for |-> "globe", valid |-> TRUE]}
            /\ hLoad' = IF hLoad = "none" THEN "import" ELSE hLoad
            /\ hTween' = FALSE
            /\ UNCHANGED <<hMount, hView, hRunning, hGlobe, hFan, hHidden, hShip, hList, hAsked,
                           hServers>>
        BY <1>2, <2>2 DEF TweenEnds
      <3>2. hCalls' \subseteq Calls
        <4>1. hCalls \subseteq Calls /\ [for |-> "globe", valid |-> TRUE] \in Calls
          BY DEF HomeTypeOK, Calls
        <4> QED BY <3>1, <4>1
      <3>3. hLoad' \in {"none", "import", "showcase", "ready"}
        BY <3>1 DEF HomeTypeOK
      <3>4. /\ hMount' = hMount /\ hView' = hView /\ hRunning' = hRunning /\ hGlobe' = hGlobe
            /\ hFan' = hFan /\ hHidden' = hHidden /\ hShip' = hShip /\ hList' = hList
            /\ hAsked' = hAsked /\ hServers' = hServers /\ hTween' = FALSE
        BY <3>1
      <3>5. FALSE \in BOOLEAN
        OBVIOUS
      <3> QED BY <3>2, <3>3, <3>4, <3>5, ZenonT(30) DEF HomeTypeOK
    <2> QED BY <2>1, <2>2
  <1>3. CASE ShowSolarSystem
    <2>1. hCalls' \subseteq Calls
      <3>1. \A c \in Calls : [c EXCEPT !.valid = FALSE] \in Calls
        BY DEF Calls
      <3>2. hCalls \subseteq Calls
        BY DEF HomeTypeOK
      <3>3. hCalls' = {[c EXCEPT !.valid = FALSE] : c \in hCalls}
        BY <1>3 DEF ShowSolarSystem
      <3> QED BY <3>1, <3>2, <3>3
    <2> QED BY <1>3, <2>1 DEF ShowSolarSystem, ShipDestroyed, HomeTypeOK, NoMount
  <1>4. CASE GlobeImported
    <2> DEFINE globe == [state |-> "waiting", servers |-> hServers, drawn |-> Absent]
    <2>1. globe \in Globes
      BY <1>0 DEF Globes
    <2>2. hTween' = hTween /\ UNCHANGED <<hShip, hList, hAsked, hServers>>
      BY <1>4 DEF GlobeImported
    <2>3. CASE hLoad' = "ready" /\ HaveGlobe(hCalls, globe)
      <3>1. hTween' \in BOOLEAN
        BY <2>2 DEF HomeTypeOK
      <3> QED BY <2>1, <2>2, <2>3, <3>1, HaveGlobeTyped
    <2>4. CASE hLoad' = "showcase" /\ hGlobe' = globe
               /\ UNCHANGED <<hStage, hMount, hCalls, hView, hRunning, hFan, hHidden>>
      BY <2>1, <2>2, <2>4 DEF HomeTypeOK, Globes
    <2> QED BY <1>4, <2>3, <2>4 DEF GlobeImported
  <1>5. CASE GlobeImportFails
    BY <1>5 DEF GlobeImportFails, HomeTypeOK
  <1>6. CASE ShowcaseSettles
    <2>1. HaveGlobe(hCalls, hGlobe) /\ hLoad' = "ready" /\ hTween' = hTween
          /\ UNCHANGED <<hShip, hList, hAsked, hServers>>
      BY <1>6 DEF ShowcaseSettles
    <2>2. hTween' \in BOOLEAN
      BY <2>1 DEF HomeTypeOK
    <2> QED BY <1>0, <2>1, <2>2, HaveGlobeTyped
  <1>7. ASSUME NEW ship, MountSettles(ship),
               ship \in {"none", "waiting", "loading", "textures", "shown", "failed"}
        PROVE  HomeTypeOK'
    <2>1. /\ hView' \in {"solar", "earth"} /\ hRunning' \in BOOLEAN /\ hGlobe' \in Globes
          /\ hFan' \in Version \union {Absent} /\ hHidden' \in BOOLEAN
      <3>1. CASE Arrive(hGlobe)
        BY <1>0, <3>1, ArriveTyped
      <3>2. CASE UNCHANGED <<hView, hRunning, hGlobe, hFan, hHidden>>
        BY <1>0, <3>2 DEF HomeTypeOK
      <3> QED BY <1>7, <3>1, <3>2 DEF MountSettles
    <2>2. hCalls' \subseteq Calls
      BY <1>7 DEF MountSettles, HomeTypeOK
    <2> QED BY <1>7, <2>1, <2>2 DEF MountSettles, HomeTypeOK, NoMount, Globes
  <1>8. CASE MountArrives \/ MountFails
    <2>1. hShip \in {"none", "waiting", "loading", "textures", "shown", "failed"}
      BY DEF HomeTypeOK
    <2> QED BY <1>7, <1>8, <2>1 DEF MountArrives, MountFails
  <1>9. CASE ShipStarts \/ ShipLoads \/ ShipShown
    BY <1>9 DEF ShipStarts, ShipLoads, ShipShown, ShipStep, HomeTypeOK
  <1>10. CASE GlobeStarts \/ GlobeStartFails
    <2>1. hGlobe' \in Globes
      BY <1>0, <1>10 DEF GlobeStarts, GlobeStartFails, Globes, BuildEntities
    <2>2. UNCHANGED <<hView, hRunning, hTween, hCalls, hLoad, hMount, hShip, hList, hAsked,
                      hServers, hFan, hHidden>>
      BY <1>10 DEF GlobeStarts, GlobeStartFails
    <2> QED BY <2>1, <2>2 DEF HomeTypeOK, Globes
  <1>11. CASE SelectCluster \/ CloseCluster
    <2>1. hFan' \in Version \union {Absent} /\ hHidden' \in BOOLEAN
      BY <1>0, <1>11 DEF SelectCluster, CloseCluster, FanOut, ClearFan
    <2>2. UNCHANGED <<hView, hRunning, hTween, hCalls, hLoad, hGlobe, hMount, hShip, hList, hAsked,
                      hServers>>
      BY <1>11 DEF SelectCluster, CloseCluster
    <2> QED BY <2>1, <2>2 DEF HomeTypeOK
  <1>12. CASE ListChanges \/ Refresh
    <2>1. hList' \in Version /\ hAsked' \subseteq Version
      <3>1. CASE ListChanges
        BY <1>0, <3>1, HomeAssumption DEF ListChanges, Version
      <3>2. CASE Refresh
        <4>1. hAsked' = hAsked \union {hList} /\ hList' = hList
          BY <3>2 DEF Refresh
        <4> QED BY <1>0, <4>1
      <3> QED BY <1>12, <3>1, <3>2
    <2>2. UNCHANGED <<hView, hRunning, hTween, hCalls, hLoad, hGlobe, hMount, hShip, hServers,
                      hFan, hHidden>>
      BY <1>12 DEF ListChanges, Refresh
    <2> QED BY <2>1, <2>2 DEF HomeTypeOK
  <1>13. ASSUME NEW a \in hAsked, ListAnswer(a) \/ ListFails(a) PROVE HomeTypeOK'
    <2>1. PICK servers \in Version : GiveGlobe(servers)
      <3>1. \A n \in a..hList : n \in Version
        BY <1>0, HomeAssumption DEF Version
      <3> QED BY <1>0, <1>13, <3>1 DEF ListAnswer, ListFails
    <2>2. hAsked' \subseteq Version
      BY <1>0, <1>13 DEF ListAnswer, ListFails
    <2>3. hGlobe' \in Globes /\ hFan' \in Version \union {Absent} /\ hHidden' \in BOOLEAN
      <3>1. UpdateServers(hGlobe, servers) \in Globes
        BY <1>0, GlobeTyped
      <3> QED BY <1>0, <2>1, <3>1 DEF GiveGlobe, ClearFan, HomeTypeOK
    <2>4. hServers' \in Version
          /\ UNCHANGED <<hView, hRunning, hTween, hCalls, hLoad, hMount, hShip, hList>>
      BY <2>1 DEF GiveGlobe
    <2> QED BY <2>2, <2>3, <2>4 DEF HomeTypeOK, Globes
  <1>14. CASE UNCHANGED homeVars
    BY <1>14 DEF homeVars, HomeTypeOK
  <1> QED BY <1>1, <1>2, <1>3, <1>4, <1>5, <1>6, <1>8, <1>9, <1>10, <1>11, <1>12, <1>13, <1>14
      DEF HomeStep

-----------------------------------------------------------------------------
(* Pointers on the globe.                                                   *)

\* While a single pointer is down, and has been alone since it was pressed, it
\* holds the globe, so that the code has noticed its drag.
AloneInv ==
  /\ gDown \subseteq Pointer
  /\ \A p, q \in gDown : p # q => gPinched
  /\ \A p \in gDown : ~gPinched => gHeld = p /\ (gDragged => gMoved)
  /\ gClicked => gDown = {} /\ ~gDragged

LEMMA AloneInit == MotionInit => AloneInv
  BY DEF MotionInit, AloneInv

LEMMA AloneStep == AloneInv /\ [MotionStep]_motionStateVars => AloneInv'
  <1> SUFFICES ASSUME AloneInv, [MotionStep]_motionStateVars PROVE AloneInv'
    OBVIOUS
  <1> USE DEF AloneInv
  <1>1. ASSUME NEW p \in Pointer, GlobePointerDown(p) PROVE AloneInv'
    BY <1>1 DEF GlobePointerDown
  <1>2. ASSUME NEW p \in Pointer, NEW b \in BOOLEAN, GlobePointerMove(p, b)
        PROVE  AloneInv'
    BY <1>2 DEF GlobePointerMove
  <1>3. ASSUME NEW p \in Pointer, NEW b \in BOOLEAN, GlobePointerUp(p, b)
        PROVE  AloneInv'
    BY <1>3 DEF GlobePointerUp, SuppressClick
  <1>4. ASSUME NEW p \in Pointer, GlobePointerCancel(p) PROVE AloneInv'
    BY <1>4 DEF GlobePointerCancel
  <1>5. CASE Wheel \/ Resume \/ SuppressionEnds \/ GlobeFrame \/ GlobeTabHides
               \/ GlobeDestroyed \/ UNCHANGED motionStateVars
    <2>1. UNCHANGED <<gDown, gPinched, gHeld, gMoved, gDragged, gClicked>>
      BY <1>5
      DEF Wheel, Resume, SuppressionEnds, GlobeFrame, GlobeTabHides,
          GlobeDestroyed, motionStateVars, pressVars
    <2> QED BY <2>1
  <1> QED BY <1>1, <1>2, <1>3, <1>4, <1>5 DEF MotionStep

\* A drag selects no node, however many fingers come, go and get lost.
THEOREM DragNeverSelects == MotionSpec => []NoSelectOnDrag
  <1>1. AloneInv => NoSelectOnDrag
    BY DEF AloneInv, NoSelectOnDrag
  <1> QED BY <1>1, AloneInit, AloneStep, PTL DEF MotionSpec

HIDE HomeAssumption

\* What is on or off on the globe, and what its pointers and its momentum are.
SwitchTypes ==
  /\ gLive \in BOOLEAN /\ gHidden \in BOOLEAN /\ gFar \in BOOLEAN /\ gPinched \in BOOLEAN
  /\ gMoved \in BOOLEAN /\ gMomentum \in BOOLEAN /\ gInteracting \in BOOLEAN
  /\ gTimer \in BOOLEAN /\ gSuppressed \in BOOLEAN /\ gDragged \in BOOLEAN
  /\ gClicked \in BOOLEAN
SpinTypes ==
  /\ gDown \subseteq Pointer /\ gHeld \in Pointer \union {NoPointer}
  /\ gSpeed \in 0..Fast
  /\ gMomentum => gSpeed > 0 /\ gHeld = NoPointer

LEMMA MotionTypesSplit ==
  /\ MotionTypeOK <=> SwitchTypes /\ SpinTypes
  /\ MotionTypeOK' <=> SwitchTypes' /\ SpinTypes'
  BY DEF MotionTypeOK, SwitchTypes, SpinTypes

LEMMA MotionTypesInit == MotionInit => MotionTypeOK
  <1> SUFFICES ASSUME MotionInit PROVE SwitchTypes /\ SpinTypes
    BY MotionTypesSplit
  <1>1. 0 \in 0..Fast
    BY MotionAssumption
  <1> QED BY <1>1 DEF MotionInit, SwitchTypes, SpinTypes

LEMMA SwitchesStep ==
  ASSUME SwitchTypes, [MotionStep]_motionStateVars PROVE SwitchTypes'
  <1> USE DEF SwitchTypes
  <1>1. ASSUME NEW p \in Pointer, GlobePointerDown(p) PROVE SwitchTypes'
    BY <1>1, Zenon DEF GlobePointerDown, Pause, Still, seenVars
  <1>2. ASSUME NEW p \in Pointer, NEW b \in BOOLEAN, GlobePointerMove(p, b) PROVE SwitchTypes'
    <2>1. gFar' \in BOOLEAN /\ gDragged' \in BOOLEAN /\ gMoved' \in BOOLEAN
      BY <1>2, Zenon DEF GlobePointerMove
    <2>2. UNCHANGED <<gLive, gHidden, gPinched, gMomentum, gInteracting, gTimer, gSuppressed,
                      gClicked>>
      BY <1>2 DEF GlobePointerMove, resumeVars
    <2> QED BY <2>1, <2>2
  <1>3. ASSUME NEW p \in Pointer, NEW b \in BOOLEAN, GlobePointerUp(p, b) PROVE SwitchTypes'
    <2>1. /\ gPinched' = (gPinched /\ gDown # {p})
          /\ gSuppressed' = (gSuppressed \/ SuppressClick(p))
          /\ gTimer' = TRUE /\ gClicked' = (b /\ ~gSuppressed')
          /\ UNCHANGED <<gLive, gHidden, gFar, gMoved, gInteracting, gDragged>>
      BY <1>3 DEF GlobePointerUp, ScheduleResume, seenVars
    <2>2. gMomentum' \in BOOLEAN
      <3>1. CASE gHeld = p
        BY <1>3, <3>1 DEF GlobePointerUp, StartMomentum, Still
      <3>2. CASE gHeld # p
        BY <1>3, <3>2 DEF GlobePointerUp, spinVars
      <3> QED BY <3>1, <3>2
    <2>3. gPinched' \in BOOLEAN /\ gSuppressed' \in BOOLEAN /\ gClicked' \in BOOLEAN
      BY <2>1, Zenon
    <2> QED BY <2>1, <2>2, <2>3
  <1>4. ASSUME NEW p \in Pointer, GlobePointerCancel(p) PROVE SwitchTypes'
    <2>1. gPinched' \in BOOLEAN
      BY <1>4, Zenon DEF GlobePointerCancel
    <2> QED BY <1>4, <2>1 DEF GlobePointerCancel, seenVars, spinVars, resumeVars
  <1>5. CASE Wheel \/ Resume \/ SuppressionEnds \/ GlobeDestroyed \/ UNCHANGED motionStateVars
    BY <1>5, ZenonT(30) DEF Wheel, Resume, SuppressionEnds, GlobeDestroyed, ScheduleResume, Still,
                seenVars, pressVars, spinVars, resumeVars, motionStateVars
  <1>6. CASE GlobeFrame
    <2>1. gMomentum' \in BOOLEAN
      BY <1>6 DEF GlobeFrame
    <2> QED BY <1>6, <2>1 DEF GlobeFrame, seenVars, pressVars, resumeVars
  <1>7. CASE GlobeTabHides
    <2>1. gHidden' \in BOOLEAN
      BY <1>7, Zenon DEF GlobeTabHides
    <2> QED BY <1>7, <2>1 DEF GlobeTabHides, pressVars, spinVars, resumeVars
  <1> QED BY <1>1, <1>2, <1>3, <1>4, <1>5, <1>6, <1>7 DEF MotionStep

\* A pointer that presses takes the momentum away; only a release gives it.
LEMMA SpinStep ==
  ASSUME SpinTypes, [MotionStep]_motionStateVars PROVE SpinTypes'
  <1>0. Fast \in Nat /\ NoPointer \notin Pointer /\ 0 \in 0..Fast
    BY MotionAssumption
  <1> USE DEF SpinTypes
  <1>1. ASSUME NEW p \in Pointer, GlobePointerDown(p) PROVE SpinTypes'
    BY <1>0, <1>1 DEF GlobePointerDown, Still
  <1>2. ASSUME NEW p \in Pointer, NEW b \in BOOLEAN, GlobePointerMove(p, b) PROVE SpinTypes'
    <2>1. UNCHANGED <<gDown, gHeld, gMomentum>>
      BY <1>2 DEF GlobePointerMove
    <2>2. CASE gHeld = p
      BY <1>0, <1>2, <2>1, <2>2 DEF GlobePointerMove
    <2>3. CASE gHeld # p
      BY <1>2, <2>1, <2>3 DEF GlobePointerMove
    <2> QED BY <2>2, <2>3
  <1>3. ASSUME NEW p \in Pointer, NEW b \in BOOLEAN, GlobePointerUp(p, b) PROVE SpinTypes'
    <2>1. CASE gHeld = p
      BY <1>0, <1>3, <2>1 DEF GlobePointerUp, StartMomentum, Still
    <2>2. CASE gHeld # p
      BY <1>3, <2>2 DEF GlobePointerUp, spinVars
    <2> QED BY <2>1, <2>2
  <1>4. ASSUME NEW p \in Pointer, GlobePointerCancel(p) PROVE SpinTypes'
    BY <1>4 DEF GlobePointerCancel, spinVars
  <1>5. CASE Wheel \/ Resume \/ SuppressionEnds \/ GlobeTabHides \/ GlobeDestroyed
               \/ UNCHANGED motionStateVars
    BY <1>0, <1>5 DEF Wheel, Resume, SuppressionEnds, GlobeTabHides, GlobeDestroyed, Still,
                      pressVars, spinVars, motionStateVars
  <1>6. CASE GlobeFrame
    <2>1. gMomentum /\ gSpeed' = gSpeed - 1 /\ gMomentum' = (gSpeed' > 0)
          /\ UNCHANGED <<gDown, gHeld>>
      BY <1>6 DEF GlobeFrame, pressVars
    <2>2. gSpeed > 0 /\ gHeld = NoPointer
      BY <2>1
    <2>3. gSpeed' \in 0..Fast
      BY <1>0, <2>1, <2>2
    <2>4. gMomentum' => gSpeed' > 0
      BY <2>1
    <2> QED BY <2>1, <2>2, <2>3, <2>4
  <1> QED BY <1>1, <1>2, <1>3, <1>4, <1>5, <1>6 DEF MotionStep

LEMMA MotionTypesStep == MotionTypeOK /\ [MotionStep]_motionStateVars => MotionTypeOK'
  BY MotionTypesSplit, SwitchesStep, SpinStep

-----------------------------------------------------------------------------
(* The dust tail.  BuffersConserved says of the requests that are out only that*)
(* there is at most one and whose it is.  It is inductive with the types alone:*)
(* a job is sent only from the states in which no request is out, because each*)
(* of the places that send one has uJob = NoJob.                            *)

USE DustAssumption

\* No request is out, and the pools are full.
Home == uRequests = {} /\ uIn = Input /\ uOut = Output /\ uJob = NoJob

\* The request r is out, with its two buffers.
Out(r) ==
  /\ r \in Request
  /\ uIn = Input \ {r.in} /\ uOut = Output \ {r.out}
  /\ uRequests = {r}
  /\ uJob # NoJob /\ uJob.epoch = r.epoch /\ uJob.generation = r.generation

\* BuffersConserved, with the request named.
LEMMA WhereBuffersAre ==
  ASSUME DustTypeOK
  PROVE  BuffersConserved <=> GivenUp \/ Home \/ \E r \in Request : Out(r)
  <1>1. ASSUME NEW i \in Input, NEW o \in Output, uJob # NoJob
        PROVE  [epoch |-> uJob.epoch, generation |-> uJob.generation,
                in |-> i, out |-> o] \in Request
    BY <1>1 DEF DustTypeOK, Job, Request
  <1>2. ASSUME NEW r \in Request, Out(r)
        PROVE  /\ r.in \in Input /\ r.out \in Output
               /\ r = [epoch |-> uJob.epoch, generation |-> uJob.generation,
                       in |-> r.in, out |-> r.out]
    BY <1>2 DEF Request, Out
  <1>3. ASSUME \E r \in Request : Out(r) PROVE BuffersConserved
    <2>1. PICK r \in Request : Out(r)
      BY <1>3
    <2> QED BY <2>1, <1>2 DEF Out, BuffersConserved
  <1>4. ASSUME BuffersConserved, ~GivenUp, ~Home
        PROVE  \E r \in Request : Out(r)
    <2>1. PICK i \in Input, o \in Output :
            /\ uIn = Input \ {i} /\ uOut = Output \ {o}
            /\ uJob # NoJob
            /\ uRequests = {[epoch |-> uJob.epoch, generation |-> uJob.generation,
                             in |-> i, out |-> o]}
      BY <1>4 DEF BuffersConserved, Home
    <2> DEFINE r == [epoch |-> uJob.epoch, generation |-> uJob.generation,
                     in |-> i, out |-> o]
    <2>2. r \in Request
      BY <2>1, <1>1
    <2>3. Out(r)
      BY <2>1, <2>2 DEF Out
    <2> QED BY <2>2, <2>3
  <1> QED BY <1>3, <1>4 DEF BuffersConserved, Home

\* The types of what a dispatch changes.
SentTypeOK ==
  /\ uStatus \in {"idle", "computing", "ready", "paused", "error", "disposed"}
  /\ uLatched \in BOOLEAN
  /\ uPending \in Wish \union {Nothing}
  /\ uJob \in Job \union {NoJob}
  /\ uRequests \subseteq Request
  /\ uIn \subseteq Input /\ uOut \subseteq Output
  /\ uDrawn \in Picture \union {Blank}

\* What a picture must be.
Current(picture) == picture # Blank => picture.generation = uGeneration

\* A dispatch with full pools sends one request, keeps the pools full, or gives
\* the worker up; nothing is drawn by it.
LEMMA DispatchFromHome ==
  ASSUME DustTypeOK, ~uLatched, uGeneration' = uGeneration,
         NEW e \in Epoch, NEW pending \in Wish \union {Nothing},
         NEW drawn \in Picture \union {Blank}, Current(drawn),
         DispatchJob(e, pending, drawn, {}, Input, Output)
  PROVE  SentTypeOK' /\ BuffersConserved' /\ OnlyCurrentDrawn'
  <1>1. CASE /\ uRequests' = {} /\ uIn' = Input /\ uOut' = Output
             /\ uJob' = NoJob /\ uPending' = pending /\ uDrawn' = drawn
             /\ UNCHANGED <<uStatus, uLatched>>
    BY <1>1
    DEF SentTypeOK, BuffersConserved, OnlyCurrentDrawn, Current, DustTypeOK
  <1>2. ASSUME NEW i \in Input, NEW o \in Output,
               uRequests' = {} \union
                 {[epoch |-> e, generation |-> uGeneration, in |-> i, out |-> o]},
               uIn' = Input \ {i}, uOut' = Output \ {o},
               uJob' = [epoch |-> e, generation |-> uGeneration, stale |-> FALSE],
               uStatus' = "computing", uPending' = pending, uDrawn' = drawn,
               UNCHANGED uLatched
        PROVE  SentTypeOK' /\ BuffersConserved' /\ OnlyCurrentDrawn'
    <2>1. uJob' \in Job /\ uJob' # NoJob
      BY <1>2 DEF Job, NoJob, DustTypeOK, Epoch, None
    <2>2. uRequests' \subseteq Request
      BY <1>2 DEF Request, DustTypeOK
    <2>3. BuffersConserved'
      BY <1>2, <2>1 DEF BuffersConserved
    <2> QED
      BY <1>2, <2>1, <2>2, <2>3
      DEF SentTypeOK, OnlyCurrentDrawn, Current, DustTypeOK
  <1>3. CASE /\ Latch
             /\ uRequests' = {} /\ uIn' = Input /\ uOut' = Output
             /\ uJob' = NoJob
    BY <1>3 DEF Latch, SentTypeOK, BuffersConserved, OnlyCurrentDrawn
  <1>4. CASE Fatal
    BY <1>4
    DEF Fatal, Latch, SentTypeOK, BuffersConserved, GivenUp, OnlyCurrentDrawn
  <1> QED BY <1>1, <1>2, <1>3, <1>4 DEF DispatchJob

DustInv == DustTypeOK /\ BuffersConserved /\ OnlyCurrentDrawn

LEMMA DustInvInit == DustInit => DustInv
  <1> SUFFICES ASSUME DustInit PROVE DustInv
    OBVIOUS
  <1>1. 0 \in Epoch /\ 1 \in Generation
    BY DEF Epoch, Generation
  <1>2. uLatched \in BOOLEAN /\ uPaused \in BOOLEAN
    BY Zenon DEF DustInit
  <1>3. DustTypeOK
    BY <1>1, <1>2 DEF DustInit, DustTypeOK
  <1>4. BuffersConserved /\ OnlyCurrentDrawn
    BY DEF DustInit, BuffersConserved, OnlyCurrentDrawn
  <1> QED BY <1>3, <1>4 DEF DustInv

\* A tick: only a tick of an idle manager sends a job, and then all the buffers
\* are in their pools.
LEMMA TickKeeps == DustInv /\ Tick => DustInv'
  <1> SUFFICES ASSUME DustInv, Tick PROVE DustInv'
    OBVIOUS
  <1>1. PICK epoch \in {uEpoch, uEpoch + 1} \intersect Epoch :
          /\ uEpoch' = epoch
          /\ \/ /\ epoch = uDisplay /\ uPending = Nothing
                /\ uStatus' = IF uStatus = "computing" THEN uStatus ELSE "ready"
                /\ UNCHANGED <<uLatched, uPending, uJob, uRequests, uIn, uOut,
                               uDrawn>>
             \/ /\ epoch # uDisplay \/ uPending # Nothing
                /\ uJob # NoJob
                /\ uPending' = [epoch |-> epoch, generation |-> uGeneration]
                /\ UNCHANGED <<uStatus, uLatched, uJob, uRequests, uIn, uOut,
                               uDrawn>>
             \/ /\ epoch # uDisplay \/ uPending # Nothing
                /\ uJob = NoJob
                /\ DispatchJob(epoch, uPending, uDrawn, uRequests, uIn, uOut)
    BY DEF Tick
  <1>2. uStatus # "disposed" /\ ~uLatched /\ uPaused' = FALSE
        /\ uGeneration' = uGeneration /\ uDisplay' = uDisplay
    BY DEF Tick
  <1>3. CASE UNCHANGED <<uJob, uRequests, uIn, uOut, uDrawn, uLatched>>
    <2>1. BuffersConserved' /\ OnlyCurrentDrawn'
      BY <1>2, <1>3 DEF DustInv, BuffersConserved, OnlyCurrentDrawn, GivenUp
    <2>2. SentTypeOK'
      BY <1>1, <1>2, <1>3
      DEF SentTypeOK, DustInv, DustTypeOK, Wish, DispatchJob, Latch, Fatal
    <2> QED BY <1>1, <1>2, <2>1, <2>2 DEF DustInv, DustTypeOK, SentTypeOK
  <1>4. CASE uJob = NoJob
             /\ DispatchJob(epoch, uPending, uDrawn, uRequests, uIn, uOut)
    <2>1. Home
      BY <1>2, <1>4 DEF DustInv, BuffersConserved, GivenUp, Home
    <2>2. SentTypeOK' /\ BuffersConserved' /\ OnlyCurrentDrawn'
      BY <1>2, <1>4, <2>1, DispatchFromHome
      DEF Home, DustInv, OnlyCurrentDrawn, Current, DustTypeOK
    <2> QED BY <1>1, <1>2, <2>2 DEF DustInv, DustTypeOK, SentTypeOK
  <1> QED BY <1>1, <1>3, <1>4

\* A jump of the clock: the request stays out, its job is stale.
LEMMA JumpKeeps == ASSUME DustInv, NEW epoch \in Epoch, Jump(epoch) PROVE DustInv'
  <1>1. uGeneration' \in Generation
    BY DEF Jump, DustInv, DustTypeOK, Generation
  <1>2. [epoch |-> epoch, generation |-> uGeneration', full |-> FALSE] \in Picture
    BY <1>1 DEF Picture
  <1>3. uLatched' \in BOOLEAN /\ uPaused' \in BOOLEAN
    BY Zenon DEF Jump, Latch, DustInv, DustTypeOK
  <1>4. OnlyCurrentDrawn'
    BY DEF Jump, Latch, OnlyCurrentDrawn
  <1>5. /\ uEpoch' \in Epoch /\ uDisplay' \in Epoch \union {None}
        /\ uStatus' \in {"idle", "computing", "ready", "paused", "error", "disposed"}
        /\ uPending' \in Wish \union {Nothing}
        /\ uRequests' \subseteq Request
        /\ uIn' \subseteq Input /\ uOut' \subseteq Output
        /\ uDrawn' \in Picture \union {Blank}
    BY <1>2 DEF Jump, Latch, DustInv, DustTypeOK
  <1>6. CASE uJob = NoJob
    <2>1. BuffersConserved'
      BY <1>6 DEF Jump, DustInv, BuffersConserved, GivenUp
    <2>2. uJob' \in Job \union {NoJob}
      BY <1>6 DEF Jump
    <2> QED BY <1>1, <1>3, <1>4, <1>5, <2>1, <2>2 DEF DustInv, DustTypeOK
  <1>7. CASE uJob # NoJob
    <2>1. uJob \in Job /\ uJob' = [uJob EXCEPT !.stale = TRUE]
      BY <1>7 DEF Jump, DustInv, DustTypeOK
    <2>2. /\ uJob' \in Job
          /\ uJob'.epoch = uJob.epoch /\ uJob'.generation = uJob.generation
      BY <2>1 DEF Job
    <2>3. uJob' # NoJob
      BY <2>2 DEF Job, NoJob, Epoch, None
    <2>4. BuffersConserved'
      BY <1>7, <2>2, <2>3 DEF Jump, DustInv, BuffersConserved, GivenUp
    <2> QED BY <1>1, <1>3, <1>4, <1>5, <2>2, <2>4 DEF DustInv, DustTypeOK
  <1> QED BY <1>6, <1>7

\* The buffers of an answer complete the pools again; what is sent then is sent
\* from full pools.
LEMMA ReclaimKeeps ==
  ASSUME DustInv, NEW r \in uRequests,
         NEW drawn \in Picture \union {Blank}, Current(drawn),
         uLatched => drawn = Blank,
         NEW status \in {"idle", "computing", "ready", "paused", "error", "disposed"},
         Reclaim(r, drawn, status), uGeneration' = uGeneration
  PROVE  SentTypeOK' /\ BuffersConserved' /\ OnlyCurrentDrawn'
  <1>1. Out(r)
    <2>1. ~GivenUp /\ ~Home
      BY DEF GivenUp, Home
    <2>2. PICK q \in Request : Out(q)
      BY <2>1, WhereBuffersAre DEF DustInv
    <2> QED BY <2>2 DEF Out
  <1>2. /\ uRequests \ {r} = {}
        /\ uIn \union {r.in} = Input /\ uOut \union {r.out} = Output
    BY <1>1 DEF Out, Request
  <1>3. CASE ~uPaused /\ ~uLatched /\ uPending # Nothing
             /\ uPending.generation = uGeneration
    <2>1. uPending.epoch \in Epoch /\ Nothing \in Wish \union {Nothing}
      BY <1>3 DEF DustInv, DustTypeOK, Wish
    <2>2. DispatchJob(uPending.epoch, Nothing, drawn, {}, Input, Output)
      BY <1>2, <1>3 DEF Reclaim
    <2> QED BY <1>3, <2>1, <2>2, DispatchFromHome DEF DustInv
  <1>4. CASE ~(~uPaused /\ ~uLatched /\ uPending # Nothing
               /\ uPending.generation = uGeneration)
    <2>1. /\ uRequests' = {} /\ uIn' = Input /\ uOut' = Output
          /\ uJob' = NoJob /\ uStatus' = status /\ uDrawn' = drawn
          /\ UNCHANGED <<uPending, uLatched>>
      BY <1>2, <1>4 DEF Reclaim
    <2> QED
      BY <2>1
      DEF SentTypeOK, BuffersConserved, OnlyCurrentDrawn, Current, DustInv,
          DustTypeOK
  <1> QED BY <1>3, <1>4

LEMMA AnswerKeeps == ASSUME DustInv, NEW r \in uRequests, Answer(r) PROVE DustInv'
  <1> DEFINE drawn == [epoch |-> r.epoch, generation |-> r.generation, full |-> TRUE]
             status == IF uPaused THEN "paused" ELSE "ready"
  <1>1. UNCHANGED <<uEpoch, uGeneration, uPaused>>
    BY DEF Answer
  <1>2. r \in Request
    BY DEF DustInv, DustTypeOK
  <1>3. CASE Accepted(r)
    <2>1. drawn \in Picture /\ r.epoch \in Epoch
      BY <1>2 DEF Picture, Request
    <2>2. Current(drawn) /\ ~uLatched
      BY <1>3 DEF Current, Accepted
    <2>3. Reclaim(r, drawn, status) /\ uDisplay' = r.epoch
      BY <1>3 DEF Answer
    <2>4. status \in {"idle", "computing", "ready", "paused", "error", "disposed"}
      OBVIOUS
    <2> HIDE DEF drawn, status
    <2>5. SentTypeOK' /\ BuffersConserved' /\ OnlyCurrentDrawn'
      BY <1>1, <2>1, <2>2, <2>3, <2>4, ReclaimKeeps
    <2> QED BY <1>1, <2>1, <2>3, <2>5 DEF DustInv, DustTypeOK, SentTypeOK
  <1>4. CASE ~Accepted(r)
    <2>1. Reclaim(r, uDrawn, uStatus) /\ uDisplay' = uDisplay
      BY <1>4 DEF Answer
    <2>2. /\ uDrawn \in Picture \union {Blank} /\ Current(uDrawn)
          /\ uLatched => uDrawn = Blank
      BY DEF DustInv, DustTypeOK, OnlyCurrentDrawn, Current
    <2>3. uStatus \in {"idle", "computing", "ready", "paused", "error", "disposed"}
      BY DEF DustInv, DustTypeOK
    <2>4. SentTypeOK' /\ BuffersConserved' /\ OnlyCurrentDrawn'
      BY <1>1, <2>1, <2>2, <2>3, ReclaimKeeps
    <2> QED BY <1>1, <2>1, <2>4 DEF DustInv, DustTypeOK, SentTypeOK
  <1> QED BY <1>3, <1>4

LEMMA AnswerErrorKeeps ==
  ASSUME DustInv, NEW r \in uRequests, AnswerError(r) PROVE DustInv'
  <1>1. Out(r)
    <2>1. ~GivenUp /\ ~Home
      BY DEF GivenUp, Home
    <2>2. PICK q \in Request : Out(q)
      BY <2>1, WhereBuffersAre DEF DustInv
    <2> QED BY <2>2 DEF Out
  <1>2. uRequests' = {} /\ uIn' = Input /\ uOut' = Output /\ uJob' = NoJob
    BY <1>1 DEF AnswerError, Out, Request
  <1> QED
    BY <1>2
    DEF AnswerError, Latch, DustInv, DustTypeOK, BuffersConserved, OnlyCurrentDrawn

\* Every step keeps the invariant.
LEMMA DustInvStep == DustInv /\ [DustStep]_dustVars => DustInv'
  <1> SUFFICES ASSUME DustInv, [DustStep]_dustVars PROVE DustInv'
    OBVIOUS
  <1>1. CASE TickPaused
    BY <1>1
    DEF TickPaused, DustInv, DustTypeOK, BuffersConserved, GivenUp, OnlyCurrentDrawn
  <1>2. CASE TickBodyInvalid
    <2>1. BuffersConserved'
      BY <1>2 DEF TickBodyInvalid, DustInv, BuffersConserved, GivenUp
    <2> QED
      BY <1>2, <2>1
      DEF TickBodyInvalid, Latch, DustInv, DustTypeOK, OnlyCurrentDrawn
  <1>3. CASE Tick
    BY <1>3, TickKeeps
  <1>4. CASE \E epoch \in Epoch : Jump(epoch)
    BY <1>4, JumpKeeps
  <1>5. CASE \E r \in uRequests : Answer(r) \/ AnswerError(r)
    BY <1>5, AnswerKeeps, AnswerErrorKeeps
  <1>6. CASE WorkerCrashes
    BY <1>6
    DEF WorkerCrashes, Fatal, Latch, DustInv, DustTypeOK, BuffersConserved,
        GivenUp, OnlyCurrentDrawn
  <1>7. CASE Dispose
    BY <1>7
    DEF Dispose, DustInv, DustTypeOK, BuffersConserved, GivenUp, OnlyCurrentDrawn
  <1>8. CASE UNCHANGED dustVars
    BY <1>8
    DEF dustVars, DustInv, DustTypeOK, BuffersConserved, GivenUp, OnlyCurrentDrawn
  <1> QED
    BY <1>1, <1>2, <1>3, <1>4, <1>5, <1>6, <1>7, <1>8 DEF DustStep

\* The variables of the dust tail keep their types.
THEOREM DustTypeCorrect == DustSpec => []DustTypeOK
  <1>1. DustInv => DustTypeOK
    BY DEF DustInv
  <1> QED BY <1>1, DustInvInit, DustInvStep, PTL DEF DustSpec

\* At most one request is out, and no buffer is lost or doubled.
THEOREM BuffersCorrect == DustSpec => []BuffersConserved
  <1>1. DustInv => BuffersConserved
    BY DEF DustInv
  <1> QED BY <1>1, DustInvInit, DustInvStep, PTL DEF DustSpec

\* Nothing computed before the last jump of the clock is drawn, and nothing
\* after an error.
THEOREM CurrentCorrect == DustSpec => []OnlyCurrentDrawn
  <1>1. DustInv => OnlyCurrentDrawn
    BY DEF DustInv
  <1> QED BY <1>1, DustInvInit, DustInvStep, PTL DEF DustSpec

HIDE DustAssumption

-----------------------------------------------------------------------------
(* The layers of the globe.                                                 *)

\* A second and a third element.
LEMMA AppendSecond == ASSUME NEW S, NEW a \in S, NEW b \in S PROVE Append(<<a>>, b) = <<a, b>>
  <1> DEFINE s == Append(<<a>>, b)
             t == <<a, b>>
  <1>1. /\ s \in Seq(S) /\ Len(s) = 2 /\ s[1] = a /\ s[2] = b
        /\ t \in Seq(S) /\ Len(t) = 2 /\ t[1] = a /\ t[2] = b
    OBVIOUS
  <1> HIDE DEF s, t
  <1>2. \A i \in 1..Len(s) : s[i] = t[i]
    BY <1>1
  <1>3. s = t
    BY <1>1, <1>2, SeqEqual
  <1> QED BY <1>3 DEF s, t

LEMMA AppendThird ==
  ASSUME NEW S, NEW a \in S, NEW b \in S, NEW c \in S
  PROVE  Append(<<a, b>>, c) = <<a, b, c>>
  <1> DEFINE s == Append(<<a, b>>, c)
             t == <<a, b, c>>
  <1>1. /\ s \in Seq(S) /\ Len(s) = 3 /\ s[1] = a /\ s[2] = b /\ s[3] = c
        /\ t \in Seq(S) /\ Len(t) = 3 /\ t[1] = a /\ t[2] = b /\ t[3] = c
    OBVIOUS
  <1> HIDE DEF s, t
  <1>2. \A i \in 1..Len(s) : s[i] = t[i]
    BY <1>1
  <1>3. s = t
    BY <1>1, <1>2, SeqEqual
  <1> QED BY <1>3 DEF s, t

B == <<"base">>
BS == <<"base", "satellite">>
BC == <<"base", "clouds">>
BSC == <<"base", "satellite", "clouds">>
Layerings == {<<>>, B, BS, BC, BSC}

LEMMA LayeringsGrow ==
  Append(B, "satellite") = BS /\ Append(B, "clouds") = BC /\ Append(BS, "clouds") = BSC
  <1> DEFINE S == {"base", "satellite", "clouds"}
  <1>1. Append(<<"base">>, "satellite") = <<"base", "satellite">>
    BY AppendSecond, "base" \in S, "satellite" \in S
  <1>2. Append(<<"base">>, "clouds") = <<"base", "clouds">>
    BY AppendSecond, "base" \in S, "clouds" \in S
  <1>3. Append(<<"base", "satellite">>, "clouds") = <<"base", "satellite", "clouds">>
    BY AppendThird, "base" \in S, "satellite" \in S, "clouds" \in S
  <1> QED BY <1>1, <1>2, <1>3 DEF B, BS, BC, BSC

\* Which layers there can be, by what is waited for.
LayersCome ==
  lLive =>
    /\ lAsked = "base" => lLayers = <<>>
    /\ lAsked = "satellite" => lLayers = B
    /\ lAsked = "clouds" => lLayers \in {B, BS}

LayerTypes ==
  /\ lLive \in BOOLEAN /\ lBeacon \in BOOLEAN /\ lHeight \in Heights
  /\ lAsked \in {"base", "satellite", "clouds", "done"}
  /\ lClouds \in {"none", "shown", "hidden"}
  /\ lVisitor \in {"asked", "known", "none"}

LayersInv == LayerTypes /\ lLayers \in Layerings /\ GlobeDressed /\ LayersCome

LEMMA LevelsNamed == ASSUME NEW h \in Heights, h < 9000 PROVE PlaceLevels(h) # {}
  <1>1. h \in Int
    BY LayersAssumption
  <1>2. CASE h < 2800
    <2>1. "city" \in PlaceLevels(h)
      BY <1>1, <1>2 DEF PlaceLevels
    <2> QED BY <2>1
  <1>3. CASE h >= 2800
    <2>1. "region" \in PlaceLevels(h)
      BY <1>1, <1>3 DEF PlaceLevels
    <2> QED BY <2>1
  <1> QED BY <1>1, <1>2, <1>3

LEMMA LayersInvInit == LayersInit => LayersInv
  <1> SUFFICES ASSUME LayersInit PROVE LayersInv
    OBVIOUS
  <1>1. Max(Heights) \in Heights
    BY LayersAssumption DEF Max
  <1>2. lHeight \in Heights
    BY <1>1 DEF LayersInit
  <1>3. LayerTypes /\ lLayers \in Layerings /\ LayersCome
    BY <1>2 DEF LayersInit, LayerTypes, Layerings, LayersCome
  <1>4. GlobeDressed
    BY <1>2, LevelsNamed DEF LayersInit, GlobeDressed
  <1> QED BY <1>3, <1>4 DEF LayersInv

LEMMA LayersInvStep == LayersInv /\ [LayersStep]_layerVars => LayersInv'
  <1> SUFFICES ASSUME LayersInv, [LayersStep]_layerVars PROVE LayersInv'
    OBVIOUS
  <1> USE DEF LayersInv, LayerTypes, GlobeDressed, LayersCome
  <1>0. <<>> \in Layerings /\ {B, BS, BC, BSC} \subseteq Layerings
    BY DEF Layerings
  <1>1. ASSUME NEW h \in Heights, CameraMoves(h) PROVE LayersInv'
    BY <1>1, LevelsNamed DEF CameraMoves, Faded
  <1>2. CASE BaseSettles
    BY <1>0, <1>2 DEF BaseSettles, B
  <1>3. CASE SatelliteSettles
    BY <1>0, <1>3, LayeringsGrow, SMTT(30) DEF SatelliteSettles
  <1>4. CASE CloudsSettle
    <2>1. /\ lAsked = "clouds" /\ lAsked' = "done" /\ UNCHANGED <<lLive, lHeight, lVisitor, lBeacon>>
          /\ \/ lLive /\ lLayers' = Append(lLayers, "clouds") /\ lClouds' = Faded(lHeight)
             \/ UNCHANGED <<lLayers, lClouds>>
      <3> HIDE DEF LayersInv
      <3> QED BY <1>4 DEF CloudsSettle, CloudsAdded
    <2>2. CASE lLive /\ lLayers' = Append(lLayers, "clouds") /\ lClouds' = Faded(lHeight)
      <3>1. lLayers \in {B, BS}
        BY <2>1, <2>2
      <3>2. lLayers' \in {BC, BSC}
        BY <2>2, <3>1, LayeringsGrow
      <3>3. lClouds' \in {"none", "shown", "hidden"} /\ (lClouds' = "shown" => CloudsShow(lHeight))
        BY <2>2 DEF Faded
      <3>4. lLayers' \in Layerings /\ LayerTypes'
        BY <1>0, <2>1, <3>2, <3>3
      <3>5. GlobeDressed' /\ LayersCome'
        BY <2>1, <2>2, <3>3
      <3> QED BY <3>4, <3>5
    <2>3. CASE UNCHANGED <<lLayers, lClouds>>
      BY <2>1, <2>3
    <2> QED BY <2>1, <2>2, <2>3
  <1>5. CASE VisitorSettles
    BY <1>5 DEF VisitorSettles, VisitorBeaconAdded
  <1>6. CASE ListRefreshed
    BY <1>6 DEF ListRefreshed, VisitorBeaconAdded, Faded
  <1>7. CASE ViewerDestroyed
    <2>1. /\ lLive' = FALSE /\ lLayers' = <<>> /\ lClouds' = "none" /\ lBeacon' = FALSE
          /\ UNCHANGED <<lAsked, lHeight, lVisitor>>
      BY <1>7 DEF ViewerDestroyed
    <2>2. LayerTypes'
      <3>1. LayerTypes
        OBVIOUS
      <3> HIDE DEF LayersInv
      <3> QED BY <2>1, <3>1
    <2>3. LayersCome'
      <3> HIDE DEF LayersInv
      <3> QED BY <2>1
    <2>4. GlobeDressed'
      <3>1. (lHeight < 9000 => PlaceLevels(lHeight) # {}) /\ lHeight' = lHeight
        BY <2>1
      <3> HIDE DEF LayersInv
      <3> QED BY <2>1, <3>1
    <2> QED BY <1>0, <2>1, <2>2, <2>3, <2>4
  <1>8. CASE UNCHANGED layerVars
    BY <1>8 DEF layerVars
  <1> QED BY <1>1, <1>2, <1>3, <1>4, <1>5, <1>6, <1>7, <1>8 DEF LayersStep

LEMMA LayersInvImplies == LayersInv => LayersTypeOK /\ GlobeDressed
  BY DEF LayersInv, LayerTypes, LayersTypeOK, Layerings, B, BS, BC, BSC

-----------------------------------------------------------------------------
(* The solar system.                                                        *)

\* Until the scene is destroyed, what is allocated is what the bodies use, and
\* all of it is tracked; each body uses one of its own two textures.
SolarTypes ==
  /\ sSlot \in [Bodies -> Texture] /\ sLoads \subseteq Bodies
  /\ sAllocated \subseteq Texture /\ sTracked \subseteq Texture
  /\ sDust \in BOOLEAN /\ sDisposed \in BOOLEAN

TexturesInv ==
  /\ SolarTypes /\ TexturesReleased
  /\ sTracked = sAllocated
  /\ \A b \in Bodies : sSlot[b] \in {Procedural(b), Photo(b)}
  /\ \A b \in sLoads : sSlot[b] = Procedural(b)
  /\ sManifest # "done" => sLoads = {} /\ \A b \in Bodies : sSlot[b] = Procedural(b)

Dressing == <<sManifest, sLoads, sSlot, sAllocated, sTracked, sDust, sDisposed>>

LEMMA TexturesApart ==
  ASSUME NEW b \in Bodies, NEW c \in Bodies
  PROVE  /\ Procedural(b) \in Texture /\ Photo(b) \in Texture
         /\ Procedural(b) # Photo(c)
         /\ b # c => Procedural(b) # Procedural(c) /\ Photo(b) # Photo(c)
  BY DEF Procedural, Photo, Texture

LEMMA TexturesInit == SolarInit => TexturesInv
  BY TexturesApart DEF SolarInit, TexturesInv, SolarTypes, TexturesReleased

LEMMA TextureKept ==
  ASSUME TexturesInv, NEW b \in Bodies, TextureArrives(b) PROVE TexturesInv'
  <1> USE DEF TexturesInv, SolarTypes, TexturesReleased
  <1>1. b \in sLoads /\ sLoads' = sLoads \ {b} /\ sManifest = "done"
        /\ UNCHANGED <<sManifest, sDust, sDisposed>>
    BY DEF TextureArrives
  <1>2. CASE sDisposed
    BY <1>1, <1>2 DEF TextureArrives
  <1>3. CASE ~sDisposed
    <2>1. /\ sSlot' = [sSlot EXCEPT ![b] = Photo(b)]
          /\ sAllocated' = (sAllocated \ {sSlot[b]}) \union {Photo(b)}
          /\ sTracked' = sAllocated'
      BY <1>3 DEF TextureArrives
    <2>2. sSlot[b] = Procedural(b) /\ sAllocated = {sSlot[c] : c \in Bodies}
      BY <1>1, <1>3
    <2>3. \A c \in Bodies : sSlot'[c] = IF c = b THEN Photo(b) ELSE sSlot[c]
      BY <2>1
    <2>4. \A c \in Bodies : c # b => sSlot[c] # Procedural(b)
      BY TexturesApart
    <2>5. sAllocated' = {sSlot'[c] : c \in Bodies}
      BY <2>1, <2>2, <2>3, <2>4
    <2>6. SolarTypes'
      BY <1>1, <2>1, TexturesApart
    <2> QED BY <1>1, <1>3, <2>1, <2>3, <2>5, <2>6
  <1> QED BY <1>2, <1>3

LEMMA TexturesStep == TexturesInv /\ [SolarStep]_solarVars => TexturesInv'
  <1> SUFFICES ASSUME TexturesInv, [SolarStep]_solarVars PROVE TexturesInv'
    OBVIOUS
  <1>0. UNCHANGED Dressing => TexturesInv'
    BY DEF Dressing, TexturesInv, SolarTypes, TexturesReleased
  \* The pointers, the moon's button, the frames and the tab leave the textures.
  <1>1. CASE PointerDown \/ PointerMove \/ PointerUp \/ PointerLeave \/ ResumeTimer
               \/ UNCHANGED solarVars
    <2>1. UNCHANGED Dressing
      BY <1>1 DEF PointerDown, PointerMove, PointerUp, PointerLeave, ResumeTimer,
                  sceneVars, solarVars, Dressing
    <2> QED BY <1>0, <2>1
  <1>2. CASE MoonMoves \/ Frame \/ PauseScene \/ ResumeScene \/ HideTab \/ ShowTab
    <2>1. UNCHANGED Dressing
      BY <1>2 DEF MoonMoves, Frame, PauseScene, ResumeScene, HideTab, ShowTab, sceneVars,
                  Dressing
    <2> QED BY <1>0, <2>1
  <1>3. CASE ManifestArrives
    BY <1>3 DEF ManifestArrives, TexturesInv, SolarTypes, TexturesReleased
  <1>4. ASSUME NEW b \in Bodies, TextureArrives(b) PROVE TexturesInv'
    BY <1>4, TextureKept
  <1>5. ASSUME NEW b \in Bodies, TextureFails(b) PROVE TexturesInv'
    BY <1>5 DEF TextureFails, TexturesInv, SolarTypes, TexturesReleased
  <1>6. CASE EphemerisSettles
    <2>1. /\ sDust' = (sDust \/ ~sDisposed) \/ sDust' = sDust
          /\ UNCHANGED <<sManifest, sLoads, sSlot, sAllocated, sTracked, sDisposed>>
      BY <1>6 DEF EphemerisSettles
    <2>2. SolarTypes'
      BY <2>1 DEF TexturesInv, SolarTypes
    <2>3. sDisposed => ~sDust'
      BY <2>1, Zenon DEF TexturesInv, TexturesReleased
    <2>4. TexturesReleased'
      BY <2>1, <2>3 DEF TexturesInv, TexturesReleased
    <2> QED BY <2>1, <2>2, <2>4 DEF TexturesInv
  <1>7. CASE DestroyScene
    <2>1. /\ sDisposed' = TRUE /\ sDust' = FALSE
          /\ sAllocated' = {} /\ sTracked' = {}
          /\ UNCHANGED <<sManifest, sLoads, sSlot>>
      BY <1>7 DEF DestroyScene, TexturesInv
    <2>2. TexturesReleased'
      BY <2>1 DEF TexturesReleased
    <2>3. SolarTypes'
      BY <2>1 DEF TexturesInv, SolarTypes
    <2> QED BY <2>1, <2>2, <2>3 DEF TexturesInv
  <1> QED BY <1>1, <1>2, <1>3, <1>4, <1>5, <1>6, <1>7 DEF SolarStep

\* The rest of the scene: what is switched on, the moon's button, what is loaded.
SceneTypes ==
  /\ sRunning \in BOOLEAN /\ sHidden \in BOOLEAN /\ sDragging \in BOOLEAN
  /\ sMoved \in BOOLEAN /\ sTimer \in BOOLEAN /\ sPlaceable \in BOOLEAN
  /\ sMotion \in {"running", "dragging", "paused"}
  /\ sMoon \in [attached : BOOLEAN, unsolvable : BOOLEAN]
  /\ sManifest \in {"loading", "done", "failed"}
  /\ sEphemeris \in {"loading", "ready", "error"}

LEMMA MoonTyped ==
  /\ \A a, b \in BOOLEAN : [attached |-> a, unsolvable |-> b] \in [attached : BOOLEAN, unsolvable : BOOLEAN]
  /\ \A moon \in [attached : BOOLEAN, unsolvable : BOOLEAN] : \A a \in BOOLEAN :
       [moon EXCEPT !.attached = a] \in [attached : BOOLEAN, unsolvable : BOOLEAN]
  OBVIOUS

LEMMA SceneTypesInit == SolarInit => SceneTypes
  <1> SUFFICES ASSUME SolarInit PROVE SceneTypes
    OBVIOUS
  <1>1. sPlaceable \in BOOLEAN /\ (~sPlaceable) \in BOOLEAN
    BY Zenon DEF SolarInit
  <1>2. sMoon \in [attached : BOOLEAN, unsolvable : BOOLEAN]
    BY <1>1, MoonTyped DEF SolarInit
  <1> QED BY <1>1, <1>2 DEF SolarInit, SceneTypes

LEMMA SceneTypesStep ==
  ASSUME SceneTypes, [SolarStep]_solarVars PROVE SceneTypes'
  <1> USE DEF SceneTypes
  <1>1. CASE PointerDown \/ PointerMove \/ PointerUp \/ PointerLeave \/ ResumeTimer
    <2>1. CASE PointerDown \/ PointerMove
      BY <2>1 DEF PointerDown, PointerMove, sceneVars
    <2>2. CASE PointerUp
      BY <2>2 DEF PointerUp, sceneVars
    <2>3. CASE PointerLeave \/ ResumeTimer
      BY <2>3 DEF PointerLeave, ResumeTimer, sceneVars
    <2> QED BY <1>1, <2>1, <2>2, <2>3
  <1>2. SyncMoon => sMoon' \in [attached : BOOLEAN, unsolvable : BOOLEAN]
    <2>1. (~sPlaceable) \in BOOLEAN
      BY Zenon
    <2> QED BY <2>1, MoonTyped DEF SyncMoon
  <1>3. CASE MoonMoves
    <2>1. sPlaceable' \in BOOLEAN
      BY <1>3, Zenon DEF MoonMoves
    <2> QED BY <1>3, <2>1 DEF MoonMoves, motionVars, sceneVars
  <1>4. CASE Frame \/ PauseScene \/ ResumeScene \/ HideTab
    <2>1. CASE Frame
      BY <1>2, <2>1 DEF Frame, motionVars, sceneVars
    <2>2. CASE ResumeScene
      BY <1>2, <2>2 DEF ResumeScene, motionVars, sceneVars
    <2>3. CASE PauseScene
      BY <2>3 DEF PauseScene, motionVars, sceneVars
    <2>4. CASE HideTab
      BY <2>4 DEF HideTab, motionVars, sceneVars
    <2> QED BY <1>4, <2>1, <2>2, <2>3, <2>4
  <1>5. CASE ShowTab
    <2>1. sMoon' \in [attached : BOOLEAN, unsolvable : BOOLEAN]
      <3>1. [sMoon EXCEPT !.attached = TRUE] \in [attached : BOOLEAN, unsolvable : BOOLEAN]
        BY MoonTyped
      <3>2. sMoon' = sMoon \/ sMoon' = [sMoon EXCEPT !.attached = TRUE]
        BY <1>5 DEF ShowTab, EnsureMoonAttached
      <3> QED BY <3>1, <3>2
    <2> QED BY <1>5, <2>1 DEF ShowTab, motionVars, sceneVars
  <1>6. CASE ManifestArrives \/ EphemerisSettles
    BY <1>6 DEF ManifestArrives, EphemerisSettles, motionVars
  <1>7. ASSUME NEW b \in Bodies, TextureArrives(b) \/ TextureFails(b) PROVE SceneTypes'
    BY <1>7 DEF TextureArrives, TextureFails, motionVars
  <1>8. CASE DestroyScene
    <2>1. sMoon' \in [attached : BOOLEAN, unsolvable : BOOLEAN]
      BY <1>8, MoonTyped DEF DestroyScene
    <2> QED BY <1>8, <2>1 DEF DestroyScene, motionVars
  <1>9. CASE UNCHANGED solarVars
    BY <1>9 DEF solarVars
  <1> QED BY <1>1, <1>3, <1>4, <1>5, <1>6, <1>7, <1>8, <1>9 DEF SolarStep

-----------------------------------------------------------------------------
(* The beacons.  The servers whose beacons overlap are joined into clusters, *)
(* one server after another: after each, the groups split the servers done   *)
(* (Splits), and at the end the clusters cover the list (Covers).  A beacon  *)
(* stands for a cluster, and the list of the servers has each of them once.  *)

USE BeaconAssumption

\* Groups that split what is done: none is empty, and each server stands at one
\* place of one group.
Splits(groups, done) ==
  /\ groups \in Seq(Seq(Server))
  /\ \A i \in DOMAIN groups : groups[i] # <<>>
  /\ \A i \in DOMAIN groups : \A p \in DOMAIN groups[i] : groups[i][p] \in done
  /\ \A s \in done : \E i \in DOMAIN groups : \E p \in DOMAIN groups[i] : groups[i][p] = s
  /\ \A i, j \in DOMAIN groups : \A p \in DOMAIN groups[i], q \in DOMAIN groups[j] :
       groups[i][p] = groups[j][q] => i = j /\ p = q

\* A server that is new joins a group.
LEMMA JoinsGroup ==
  ASSUME NEW groups, NEW done, Splits(groups, done), NEW s \in Server, s \notin done,
         NEW first \in DOMAIN groups
  PROVE  Splits([groups EXCEPT ![first] = Append(@, s)], done \union {s})
  <1> DEFINE n == Len(groups)
             g == [groups EXCEPT ![first] = Append(@, s)]
             len(i) == Len(groups[i])
             end(i) == IF i = first THEN len(i) + 1 ELSE len(i)
  <1>1. /\ n \in Nat /\ DOMAIN groups = 1..n
        /\ \A i \in 1..n : groups[i] \in Seq(Server) /\ len(i) \in Nat /\ DOMAIN groups[i] = 1..len(i)
    <2>1. groups \in Seq(Seq(Server))
      BY DEF Splits
    <2>2. n \in Nat /\ DOMAIN groups = 1..n /\ \A i \in 1..n : groups[i] \in Seq(Server)
      BY <2>1
    <2> HIDE DEF n
    <2> QED BY <2>2
  <1> HIDE DEF n
  <1>2. Append(groups[first], s) \in Seq(Server)
    BY <1>1
  <1>3. /\ g[first] = Append(groups[first], s)
        /\ \A i \in 1..n : i # first => g[i] = groups[i]
    BY <1>1
  <1>4. g \in Seq(Seq(Server)) /\ DOMAIN g = 1..n
    <2>1. groups \in [1..n -> Seq(Server)]
      BY <1>1 DEF Splits
    <2>2. g \in [1..n -> Seq(Server)]
      BY <1>2, <2>1
    <2> HIDE DEF g
    <2> QED BY <1>1, <2>2
  <1> HIDE DEF g
  <1>5. ASSUME NEW i \in 1..n
        PROVE  DOMAIN g[i] = 1..end(i) /\ \A p \in 1..len(i) : g[i][p] = groups[i][p]
    <2>1. CASE i = first
      <3>1. g[i] = Append(groups[i], s) /\ groups[i] \in Seq(Server)
        BY <1>1, <1>3, <2>1
      <3>2. Len(g[i]) = len(i) + 1 /\ g[i] \in Seq(Server)
        BY <3>1
      <3>3. DOMAIN g[i] = 1..(len(i) + 1) /\ \A p \in 1..len(i) : g[i][p] = groups[i][p]
        BY <3>1, <3>2
      <3> QED BY <2>1, <3>3
    <2>2. CASE i # first
      BY <1>1, <1>3, <2>2
    <2> QED BY <2>1, <2>2
  <1>6. g[first][end(first)] = s
    <2>1. groups[first] \in Seq(Server)
      BY <1>1
    <2> QED BY <1>3, <2>1
  <1>7. \A i \in 1..n : \A p \in 1..end(i) : p \in 1..len(i) \/ (i = first /\ p = end(first))
    BY <1>1
  <1> DEFINE Old(i, p) == i \in 1..n /\ p \in 1..len(i)
  <1>8. \A i, p : Old(i, p) => g[i][p] = groups[i][p] /\ g[i][p] \in done /\ p \in 1..end(i)
    <2> TAKE i, p
    <2> HAVE Old(i, p)
    <2>1. groups[i][p] \in done
      BY <1>1, ZenonT(30) DEF Splits
    <2>2. p \in 1..end(i)
      BY <1>1
    <2> QED BY <1>5, <2>1, <2>2
  <1>9. \A i \in 1..n : end(i) \in Nat /\ 1 <= end(i)
    <2> TAKE i \in 1..n
    <2>1. groups[i] # <<>> /\ groups[i] \in Seq(Server)
      BY <1>1 DEF Splits
    <2>2. len(i) # 0
      BY <2>1, EmptySeq
    <2> QED BY <1>1, <2>2
  <1> HIDE DEF end, len
  <1>10. \A i \in 1..n : g[i] # <<>>
    BY <1>5, <1>9
  <1>11. \A i \in 1..n : \A p \in 1..end(i) : g[i][p] \in done \union {s}
    BY <1>6, <1>7, <1>8
  <1>12. \A t \in done \union {s} : \E i \in 1..n : \E p \in 1..end(i) : g[i][p] = t
    <2> TAKE t \in done \union {s}
    <2>1. CASE t = s
      <3>1. end(first) \in 1..end(first)
        BY <1>1, <1>9
      <3> QED BY <1>1, <1>6, <2>1, <3>1
    <2>2. CASE t \in done
      <3>1. PICK i \in 1..n : \E p \in 1..len(i) : groups[i][p] = t
        <4>1. PICK i \in DOMAIN groups : \E p \in DOMAIN groups[i] : groups[i][p] = t
          BY <2>2 DEF Splits
        <4> QED BY <1>1, <4>1 DEF len
      <3>2. PICK p \in 1..len(i) : groups[i][p] = t
        BY <3>1
      <3>3. p \in 1..end(i) /\ g[i][p] = t
        BY <1>8, <3>2
      <3> QED BY <3>3
    <2> QED BY <2>1, <2>2
  <1>13. \A i, j \in 1..n : \A p \in 1..end(i), q \in 1..end(j) :
           g[i][p] = g[j][q] => i = j /\ p = q
    <2> TAKE i, j \in 1..n
    <2> TAKE p \in 1..end(i), q \in 1..end(j)
    <2> HAVE g[i][p] = g[j][q]
    <2>1. CASE Old(i, p) /\ Old(j, q)
      <3>1. groups[i][p] = groups[j][q] /\ p \in DOMAIN groups[i] /\ q \in DOMAIN groups[j]
        BY <1>1, <1>8, <2>1 DEF len
      <3>2. i \in DOMAIN groups /\ j \in DOMAIN groups
        BY <1>1
      <3> HIDE DEF Old
      <3> QED BY <3>1, <3>2 DEF Splits
    <2>2. CASE Old(i, p) /\ ~Old(j, q)
      BY <1>6, <1>7, <1>8, <2>2
    <2>3. CASE ~Old(i, p) /\ Old(j, q)
      BY <1>6, <1>7, <1>8, <2>3
    <2>4. CASE ~Old(i, p) /\ ~Old(j, q)
      BY <1>7, <2>4
    <2> QED BY <2>1, <2>2, <2>3, <2>4
  <1>14. Splits(g, done \union {s})
    <2>1. DOMAIN g = 1..n /\ \A i \in 1..n : DOMAIN g[i] = 1..end(i)
      BY <1>4, <1>5
    <2> HIDE DEF Old
    <2>2. \A i \in DOMAIN g : g[i] # <<>>
      BY <1>10, <2>1
    <2>3. \A i \in DOMAIN g : \A p \in DOMAIN g[i] : g[i][p] \in done \union {s}
      BY <1>11, <2>1
    <2>4. \A t \in done \union {s} : \E i \in DOMAIN g : \E p \in DOMAIN g[i] : g[i][p] = t
      <3> TAKE t \in done \union {s}
      <3>1. PICK i \in 1..n : \E p \in 1..end(i) : g[i][p] = t
        BY <1>12
      <3> QED BY <2>1, <3>1
    <2>5. \A i, j \in DOMAIN g : \A p \in DOMAIN g[i], q \in DOMAIN g[j] :
            g[i][p] = g[j][q] => i = j /\ p = q
      <3> TAKE i, j \in DOMAIN g
      <3> TAKE p \in DOMAIN g[i], q \in DOMAIN g[j]
      <3>1. i \in 1..n /\ j \in 1..n /\ p \in 1..end(i) /\ q \in 1..end(j)
        BY <2>1
      <3> QED BY <1>13, <3>1
    <2> QED BY <1>4, <2>2, <2>3, <2>4, <2>5 DEF Splits
  <1> QED BY <1>14 DEF g

\* Or begins one of its own.
LEMMA BeginsGroup ==
  ASSUME NEW groups, NEW done, Splits(groups, done), NEW s \in Server, s \notin done
  PROVE  Splits(Append(groups, <<s>>), done \union {s})
  <1> DEFINE n == Len(groups)
             g == Append(groups, <<s>>)
  <1>1. groups \in Seq(Seq(Server)) /\ n \in Nat /\ DOMAIN groups = 1..n /\ <<s>> \in Seq(Server)
    BY DEF Splits
  <1>2. /\ g \in Seq(Seq(Server)) /\ DOMAIN g = 1..(n + 1) /\ g[n + 1] = <<s>>
        /\ \A i \in 1..n : g[i] = groups[i]
    BY <1>1
  <1> HIDE DEF g, n
  <1>3. \A i \in 1..(n + 1) : i \in 1..n \/ i = n + 1
    BY <1>1
  <1>4. \A i \in 1..n : i # n + 1 /\ i \in 1..(n + 1)
    BY <1>1
  <1>5. n + 1 \in 1..(n + 1) /\ DOMAIN g[n + 1] = {1} /\ g[n + 1][1] = s
    <2>1. DOMAIN <<s>> = {1} /\ <<s>>[1] = s
      OBVIOUS
    <2> QED BY <1>1, <1>2, <2>1
  <1>6. \A i \in 1..(n + 1) : g[i] # <<>>
    <2>1. \A i \in 1..n : g[i] # <<>>
      BY <1>1, <1>2 DEF Splits
    <2>2. g[n + 1] # <<>>
      BY <1>2
    <2> QED BY <1>3, <2>1, <2>2
  <1>7. \A i \in 1..n : \A p \in DOMAIN g[i] : g[i][p] \in done
    BY <1>1, <1>2 DEF Splits
  <1>8. \A i \in 1..(n + 1) : \A p \in DOMAIN g[i] : g[i][p] \in done \union {s}
    BY <1>3, <1>5, <1>7
  <1>9. \A t \in done \union {s} : \E i \in 1..(n + 1) : \E p \in DOMAIN g[i] : g[i][p] = t
    <2> TAKE t \in done \union {s}
    <2>1. CASE t = s
      BY <1>5, <2>1
    <2>2. CASE t \in done
      <3>1. PICK i \in 1..n : \E p \in DOMAIN groups[i] : groups[i][p] = t
        BY <1>1, <2>2 DEF Splits
      <3> QED BY <1>2, <1>4, <3>1
    <2> QED BY <2>1, <2>2
  <1>10. \A i, j \in 1..(n + 1) : \A p \in DOMAIN g[i], q \in DOMAIN g[j] :
           g[i][p] = g[j][q] => i = j /\ p = q
    <2> TAKE i, j \in 1..(n + 1)
    <2> TAKE p \in DOMAIN g[i], q \in DOMAIN g[j]
    <2> HAVE g[i][p] = g[j][q]
    <2>1. CASE i \in 1..n /\ j \in 1..n
      <3>1. /\ i \in DOMAIN groups /\ j \in DOMAIN groups /\ p \in DOMAIN groups[i]
            /\ q \in DOMAIN groups[j] /\ groups[i][p] = groups[j][q]
        BY <1>1, <1>2, <2>1
      <3> QED BY <3>1 DEF Splits
    <2>2. CASE i = n + 1 /\ j = n + 1
      BY <1>5, <2>2
    <2>3. CASE i \in 1..n /\ j = n + 1
      BY <1>5, <1>7, <2>3
    <2>4. CASE i = n + 1 /\ j \in 1..n
      BY <1>5, <1>7, <2>4
    <2> QED BY <1>3, <2>1, <2>2, <2>3, <2>4
  <1>11. Splits(g, done \union {s})
    BY <1>2, <1>6, <1>8, <1>9, <1>10 DEF Splits
  <1> QED BY <1>11 DEF g

LEMMA JoinSplits ==
  ASSUME NEW list, NEW groups, NEW done, Splits(groups, done), NEW s \in Server, s \notin done
  PROVE  Splits(Join(list, groups, s), done \union {s})
  <1> DEFINE near == {i \in DOMAIN groups : Near(list, s, groups[i])}
  <1>1. CASE near = {}
    <2>1. Join(list, groups, s) = Append(groups, <<s>>)
      BY <1>1 DEF Join
    <2> QED BY <2>1, BeginsGroup
  <1>2. CASE near # {}
    <2> DEFINE first == CHOOSE i \in DOMAIN groups :
                      /\ Near(list, s, groups[i])
                      /\ \A j \in DOMAIN groups : Near(list, s, groups[j]) => i <= j
    <2>1. near \in SUBSET Nat
      BY DEF Splits
    <2>2. \E i \in near : \A j \in near : i <= j
      BY <1>2, <2>1, LeastElement
    <2>3. first \in DOMAIN groups
      BY <2>2
    <2>4. Join(list, groups, s) = [groups EXCEPT ![first] = Append(@, s)]
      BY <1>2 DEF Join
    <2> HIDE DEF first
    <2>5. Splits([groups EXCEPT ![first] = Append(@, s)], done \union {s})
      BY <2>3, JoinsGroup
    <2> QED BY <2>4, <2>5
  <1> QED BY <1>1, <1>2

\* The groups that clusterServersByCoordinate ends with.
LEMMA GroupsFound ==
  ASSUME NEW list, DOMAIN list \subseteq Server
  PROVE  \E groups \in Seq(Seq(Server)) :
           /\ Splits(groups, Usable(list))
           /\ Clusters(list) =
                {[key |-> <<"cluster", (60 * Together(list, groups[i])) \div Len(groups[i])>>,
                  members |-> groups[i]] : i \in DOMAIN groups}
                  \union {[key |-> <<"invalid", s>>, members |-> <<s>>] :
                            s \in DOMAIN list \ Usable(list)}
  <1> DEFINE order == ById(Usable(list))
             n == Len(order)
             IsFound(u) == u = [i \in 0..n |-> IF i = 0 THEN <<>> ELSE Join(list, u[i - 1], order[i])]
             found == CHOOSE u : IsFound(u)
             V == Seq(Seq(Server))
             done(k) == {order[i] : i \in 1..k}
  <1>1. /\ n \in Nat /\ \A i \in 1..n : order[i] \in Server
        /\ \A i, j \in 1..n : i < j => order[i] # order[j]
        /\ {order[i] : i \in 1..n} = Usable(list)
    <2>1. Usable(list) \subseteq Server
      BY DEF Usable
    <2>2. Usable(list) \in SUBSET Int /\ IsFiniteSet(Usable(list))
      <3>1. Usable(list) \in SUBSET Server /\ Server \subseteq Int
        BY <2>1
      <3> QED BY <3>1, FS_Subset
    <2> DEFINE card == Cardinality(Usable(list))
    <2>3. /\ card \in Nat /\ n = card
          /\ \A i \in 1..card : order[i] \in Usable(list)
          /\ \A i, j \in 1..card : i < j => order[i] < order[j]
          /\ \A s \in Usable(list) : \E i \in 1..card : order[i] = s
      BY <2>2, AscendingOf DEF ById
    <2> HIDE DEF card, order
    <2>4. \A i, j \in 1..n : i < j => order[i] # order[j]
      <3> TAKE i, j \in 1..n
      <3>1. i < j => order[i] < order[j] /\ order[i] \in Int
        BY <2>2, <2>3
      <3> QED BY <3>1
    <2> QED BY <2>1, <2>3, <2>4
  <1> HIDE DEF order, n
  <1> DEFINE step == [k \in Nat |-> [g \in V |-> IF k \in 1..n THEN Join(list, g, order[k]) ELSE <<>>]]
  <1>2. ASSUME NEW g \in V, NEW k \in 1..n PROVE Join(list, g, order[k]) \in V
    <2>1. order[k] \in Server
      BY <1>1
    <2> DEFINE first == CHOOSE i \in DOMAIN g :
                      /\ Near(list, order[k], g[i])
                      /\ \A j \in DOMAIN g : Near(list, order[k], g[j]) => i <= j
    <2>2. \A i \in DOMAIN g : [g EXCEPT ![i] = Append(@, order[k])] \in V
      <3> TAKE i \in DOMAIN g
      <3>1. Append(g[i], order[k]) \in Seq(Server)
        BY <2>1
      <3>2. Len(g) \in Nat /\ g \in [1..Len(g) -> Seq(Server)]
        OBVIOUS
      <3>3. [g EXCEPT ![i] = Append(@, order[k])] \in [1..Len(g) -> Seq(Server)]
        BY <3>1, <3>2
      <3> QED BY <3>2, <3>3
    <2>3. Append(g, <<order[k]>>) \in V
      BY <2>1
    <2> DEFINE near == {i \in DOMAIN g : Near(list, order[k], g[i])}
    <2>4. CASE near = {}
      <3>1. Join(list, g, order[k]) = Append(g, <<order[k]>>)
        BY <2>4 DEF Join
      <3> QED BY <2>3, <3>1
    <2>5. CASE near # {}
      <3>1. near \in SUBSET Nat
        OBVIOUS
      <3>2. \E i \in near : \A j \in near : i <= j
        BY <2>5, <3>1, LeastElement
      <3>3. first \in DOMAIN g
        BY <3>2
      <3>4. Join(list, g, order[k]) = [g EXCEPT ![first] = Append(@, order[k])]
        BY <2>5 DEF Join
      <3> HIDE DEF first, V
      <3> QED BY <2>2, <3>3, <3>4
    <2> QED BY <2>4, <2>5
  <1>3. step \in [Nat -> [V -> V]] /\ <<>> \in V
    <2>1. <<>> \in V
      OBVIOUS
    <2> HIDE DEF V
    <2> QED BY <1>2, <2>1
  <1>4. PICK u \in [0..n -> V] : u[0] = <<>> /\ \A k \in 1..n : u[k] = step[k][u[k - 1]]
    <2> HIDE DEF step, V
    <2>1. n \in Nat
      BY <1>1
    <2>2. \E g \in [0..n -> V] : Recurs(g, n, <<>>, step)
      BY <1>3, <2>1, Recursion
    <2> QED BY <2>2 DEF Recurs
  <1> HIDE DEF V
  <1>5. \A k \in 1..n : u[k] = Join(list, u[k - 1], order[k])
    <2> TAKE k \in 1..n
    <2>1. k - 1 \in 0..n /\ u[k - 1] \in V /\ k \in Nat
      BY <1>1
    <2> QED BY <1>4, <2>1
  <1>6. IsFound(u)
    <2>1. \A i \in 0..n : u[i] = IF i = 0 THEN <<>> ELSE Join(list, u[i - 1], order[i])
      BY <1>1, <1>4, <1>5
    <2>2. u = [i \in 0..n |-> u[i]]
      OBVIOUS
    <2> QED BY <2>1, <2>2
  <1>7. IsFound(found)
    <2> HIDE DEF IsFound
    <2> QED BY <1>6
  <1>8. \A i \in 0..n : found[i] = IF i = 0 THEN <<>> ELSE Join(list, found[i - 1], order[i])
    BY <1>7
  <1> HIDE DEF found
  <1> DEFINE Good == {k \in Nat : k <= n => Splits(found[k], done(k))}
  <1>9. 0 \in Good
    <2>1. found[0] = <<>> /\ done(0) = {}
      BY <1>1, <1>8
    <2>2. Splits(<<>>, {})
      <3>1. <<>> \in Seq(Seq(Server)) /\ DOMAIN <<>> = {}
        OBVIOUS
      <3> QED BY <3>1 DEF Splits
    <2> HIDE DEF done
    <2> QED BY <2>1, <2>2
  <1>10. ASSUME NEW k \in Nat, k \in Good PROVE k + 1 \in Good
    <2> SUFFICES ASSUME k + 1 <= n PROVE Splits(found[k + 1], done(k + 1))
      OBVIOUS
    <2>1. k + 1 \in 1..n /\ k + 1 \in 0..n /\ k + 1 # 0 /\ (k + 1) - 1 = k /\ Splits(found[k], done(k))
      BY <1>1, <1>10
    <2>2. found[k + 1] = Join(list, found[k], order[k + 1])
      BY <1>8, <2>1
    <2>3. order[k + 1] \in Server /\ order[k + 1] \notin done(k)
      BY <1>1, <2>1
    <2>4. done(k + 1) = done(k) \union {order[k + 1]}
      <3>1. \A i : i \in 1..(k + 1) <=> i \in 1..k \/ i = k + 1
        OBVIOUS
      <3> QED BY <3>1
    <2> HIDE DEF done
    <2>5. Splits(Join(list, found[k], order[k + 1]), done(k) \union {order[k + 1]})
      BY <2>1, <2>3, JoinSplits
    <2> QED BY <2>2, <2>4, <2>5
  <1>11. Good = Nat
    <2>1. Good \in SUBSET Nat
      OBVIOUS
    <2> HIDE DEF Good
    <2> QED BY <1>9, <1>10, <2>1, NoFirstFailure
  <1>12. Splits(found[n], Usable(list))
    <2>1. n \in Good
      <3> HIDE DEF Good
      <3> QED BY <1>1, <1>11
    <2>2. n <= n /\ done(n) = Usable(list)
      BY <1>1
    <2> HIDE DEF done
    <2> QED BY <2>1, <2>2
  <1>13. Clusters(list) =
           {[key |-> <<"cluster", (60 * Together(list, found[n][i])) \div Len(found[n][i])>>,
             members |-> found[n][i]] : i \in DOMAIN found[n]}
             \union {[key |-> <<"invalid", s>>, members |-> <<s>>] :
                       s \in DOMAIN list \ Usable(list)}
    BY DEF Clusters, found, n, order
  <1>14. found[n] \in Seq(Seq(Server))
    BY <1>12 DEF Splits
  <1> DEFINE groups == found[n]
  <1>15. /\ groups \in Seq(Seq(Server)) /\ Splits(groups, Usable(list))
         /\ Clusters(list) =
                {[key |-> <<"cluster", (60 * Together(list, groups[i])) \div Len(groups[i])>>,
                  members |-> groups[i]] : i \in DOMAIN groups}
                  \union {[key |-> <<"invalid", s>>, members |-> <<s>>] :
                            s \in DOMAIN list \ Usable(list)}
    BY <1>12, <1>13, <1>14
  <1> HIDE DEF groups
  <1> QED BY <1>15, Zenon

\* Sequences without a repetition, of which each server of S stands in one.
Covers(clusters, S) ==
  /\ \A c \in clusters : /\ c.members \in Seq(Server) /\ c.members # <<>> /\ c.key # <<>>
                         /\ ToSet(c.members) \subseteq S
                         /\ \A p, q \in DOMAIN c.members : c.members[p] = c.members[q] => p = q
  /\ \A s \in S : \E c \in clusters : s \in ToSet(c.members)
  /\ \A c, d \in clusters : \A s \in S :
       s \in ToSet(c.members) /\ s \in ToSet(d.members) => c = d

\* However the centroids drift: every server is a member of one cluster, once.
LEMMA ClustersCover ==
  ASSUME NEW list, DOMAIN list \subseteq Server
  PROVE  Covers(Clusters(list), DOMAIN list)
  <1> DEFINE S == DOMAIN list
             C == Clusters(list)
  <1>1. PICK groups \in Seq(Seq(Server)) :
           /\ Splits(groups, Usable(list))
           /\ C = {[key |-> <<"cluster", (60 * Together(list, groups[i])) \div Len(groups[i])>>,
                    members |-> groups[i]] : i \in DOMAIN groups}
                  \union {[key |-> <<"invalid", s>>, members |-> <<s>>] : s \in S \ Usable(list)}
    BY GroupsFound
  <1> DEFINE near(i) == [key |-> <<"cluster", (60 * Together(list, groups[i])) \div Len(groups[i])>>,
                         members |-> groups[i]]
             alone(s) == [key |-> <<"invalid", s>>, members |-> <<s>>]
  <1>2. Usable(list) \subseteq S
    BY DEF Usable
  <1>3. \A i \in DOMAIN groups :
          /\ near(i) \in C /\ near(i).members = groups[i] /\ near(i).key # <<>>
          /\ groups[i] \in Seq(Server) /\ groups[i] # <<>>
          /\ ToSet(groups[i]) \subseteq Usable(list)
          /\ \A p, q \in DOMAIN groups[i] : groups[i][p] = groups[i][q] => p = q
    <2> TAKE i \in DOMAIN groups
    <2>1. near(i) \in C
      BY <1>1
    <2>2. near(i).members = groups[i] /\ near(i).key # <<>>
      OBVIOUS
    <2>3. groups[i] \in Seq(Server)
      OBVIOUS
    <2> HIDE DEF near, C
    <2>4. groups[i] # <<>> /\ ToSet(groups[i]) \subseteq Usable(list)
      BY <1>1 DEF Splits, ToSet
    <2>5. \A p, q \in DOMAIN groups[i] : groups[i][p] = groups[i][q] => p = q
      BY <1>1 DEF Splits
    <2> QED BY <2>1, <2>2, <2>3, <2>4, <2>5
  <1>4. \A s \in S \ Usable(list) :
          /\ alone(s) \in C /\ alone(s).key # <<>>
          /\ alone(s).members \in Seq(Server) /\ alone(s).members # <<>>
          /\ ToSet(alone(s).members) = {s}
          /\ \A p, q \in DOMAIN alone(s).members : alone(s).members[p] = alone(s).members[q] => p = q
    <2> TAKE s \in S \ Usable(list)
    <2>1. alone(s) \in C
      BY <1>1
    <2>2. alone(s).members = <<s>> /\ alone(s).key # <<>>
      OBVIOUS
    <2>3. <<s>> \in Seq(Server) /\ <<s>> # <<>> /\ DOMAIN <<s>> = {1} /\ <<s>>[1] = s
      OBVIOUS
    <2> HIDE DEF alone, C
    <2>4. ToSet(<<s>>) = {s}
      BY <2>3 DEF ToSet
    <2>5. \A p, q \in DOMAIN <<s>> : <<s>>[p] = <<s>>[q] => p = q
      BY <2>3
    <2> DEFINE c == alone(s)
    <2>6. c \in C /\ c.key # <<>> /\ c.members = <<s>>
      BY <2>1, <2>2
    <2> HIDE DEF c
    <2>7. /\ c.members \in Seq(Server) /\ c.members # <<>> /\ ToSet(c.members) = {s}
          /\ \A p, q \in DOMAIN c.members : c.members[p] = c.members[q] => p = q
      BY <2>3, <2>4, <2>5, <2>6
    <2> QED BY <2>6, <2>7 DEF c
  <1> DEFINE Lone == S \ Usable(list)
  <1>4a. \A s \in Lone : alone(s) \in C /\ ToSet(alone(s).members) = {s}
    BY <1>4
  <1>4b. \A s \in Lone : /\ alone(s).key # <<>> /\ alone(s).members \in Seq(Server)
                         /\ alone(s).members # <<>>
    BY <1>4
  <1>4c. \A s \in Lone : \A p, q \in DOMAIN alone(s).members :
                            alone(s).members[p] = alone(s).members[q] => p = q
    BY <1>4
  <1>5. \A c \in C : (\E i \in DOMAIN groups : c = near(i))
                       \/ (\E s \in S \ Usable(list) : c = alone(s))
    BY <1>1
  <1> HIDE DEF near, alone, C
  <1>6. \A c \in C : /\ c.members \in Seq(Server) /\ c.members # <<>> /\ c.key # <<>>
                     /\ ToSet(c.members) \subseteq S
                     /\ \A p, q \in DOMAIN c.members : c.members[p] = c.members[q] => p = q
    <2> TAKE c \in C
    <2>1. CASE \E i \in DOMAIN groups : c = near(i)
      <3>1. PICK i \in DOMAIN groups : c = near(i)
        BY <2>1
      <3> QED BY <1>2, <1>3, <3>1
    <2>2. CASE \E s \in S \ Usable(list) : c = alone(s)
      <3>1. PICK s \in S \ Usable(list) : c = alone(s)
        BY <2>2
      <3> QED BY <1>4a, <1>4b, <1>4c, <3>1
    <2> QED BY <1>5, <2>1, <2>2
  <1>7. \A s \in S : \E c \in C : s \in ToSet(c.members)
    <2> TAKE s \in S
    <2>1. CASE s \in Usable(list)
      <3>1. PICK i \in DOMAIN groups : \E p \in DOMAIN groups[i] : groups[i][p] = s
        BY <1>1, <2>1 DEF Splits
      <3>2. s \in ToSet(groups[i])
        BY <3>1 DEF ToSet
      <3> QED BY <1>3, <3>2
    <2>2. CASE s \notin Usable(list)
      BY <1>4a, <2>2
    <2> QED BY <2>1, <2>2
  <1>8. \A c, d \in C : \A s \in S : s \in ToSet(c.members) /\ s \in ToSet(d.members) => c = d
    <2> TAKE c, d \in C
    <2> TAKE s \in S
    <2> HAVE s \in ToSet(c.members) /\ s \in ToSet(d.members)
    <2>1. CASE s \in Usable(list)
      <3>1. ASSUME NEW e \in C, s \in ToSet(e.members)
            PROVE  \E i \in DOMAIN groups : e = near(i) /\ \E p \in DOMAIN groups[i] : groups[i][p] = s
        <4>1. ~\E t \in S \ Usable(list) : e = alone(t)
          BY <1>4a, <2>1, <3>1
        <4>2. PICK i \in DOMAIN groups : e = near(i)
          BY <1>5, <4>1
        <4>3. s \in ToSet(groups[i])
          BY <1>3, <3>1, <4>2
        <4> QED BY <4>2, <4>3 DEF ToSet
      <3>2. PICK i \in DOMAIN groups : c = near(i) /\ \E p \in DOMAIN groups[i] : groups[i][p] = s
        BY <3>1
      <3>3. PICK j \in DOMAIN groups : d = near(j) /\ \E p \in DOMAIN groups[j] : groups[j][p] = s
        BY <3>1
      <3>4. i = j
        BY <1>1, <3>2, <3>3 DEF Splits
      <3> QED BY <3>2, <3>3, <3>4
    <2>2. CASE s \notin Usable(list)
      <3>1. ASSUME NEW e \in C, s \in ToSet(e.members) PROVE e = alone(s)
        <4>1. ~\E i \in DOMAIN groups : e = near(i)
          BY <1>3, <2>2, <3>1
        <4>2. PICK t \in S \ Usable(list) : e = alone(t)
          BY <1>5, <4>1
        <4> QED BY <1>4a, <3>1, <4>2
      <3> QED BY <3>1
    <2> QED BY <2>1, <2>2
  <1> QED BY <1>6, <1>7, <1>8 DEF Covers, C

\* Each of these sequences holds what it holds once.
NoneTwice(seq) == \A p, q \in DOMAIN seq : seq[p] = seq[q] => p = q

LEMMA OnceOf ==
  ASSUME NEW parts, NEW s, NEW part \in parts, s \in ToSet(part),
         \A p \in parts : s \in ToSet(p) => p = part,
         \A p \in parts : NoneTwice(p)
  PROVE  ExactlyOnce(s, parts)
  <1>1. Cardinality({p \in parts : s \in ToSet(p)}) = 1
    <2>1. {p \in parts : s \in ToSet(p)} = {part}
      OBVIOUS
    <2>2. Cardinality({part}) = 1
      BY FS_Singleton
    <2> QED BY <2>1, <2>2
  <1>2. ASSUME NEW p \in parts PROVE Cardinality({i \in DOMAIN p : p[i] = s}) <= 1
    <2> DEFINE I == {i \in DOMAIN p : p[i] = s}
    <2>1. CASE I = {}
      <3>1. Cardinality(I) = 0
        <4> HIDE DEF I
        <4> QED BY <2>1, FS_EmptySet
      <3> QED BY <3>1
    <2>2. CASE I # {}
      <3>1. PICK i \in I : TRUE
        BY <2>2
      <3>2. I = {i}
        BY <3>1 DEF NoneTwice
      <3> HIDE DEF I
      <3>3. Cardinality(I) = 1
        BY <3>2, FS_Singleton
      <3> QED BY <3>3 DEF I
    <2> QED BY <2>1, <2>2
  <1> QED BY <1>1, <1>2 DEF ExactlyOnce

\* What is parted by a key stands in one part, once.
LEMMA PartedOnce ==
  ASSUME NEW members \in Seq(Server), NoneTwice(members), NEW key
  PROVE  /\ \A part \in Parted(members, key) : part \in Seq(Server) /\ NoneTwice(part)
         /\ \A s \in ToSet(members) : ExactlyOnce(s, Parted(members, key))
  <1> DEFINE n == Len(members)
             keys == {key[s] : s \in ToSet(members)}
             own(k) == {i \in DOMAIN members : key[members[i]] = k}
             part(k) == Picked(members, own(k))
  <1>1. Parted(members, key) = {part(k) : k \in keys}
    BY DEF Parted
  <1>2. n \in Nat /\ DOMAIN members = 1..n
    OBVIOUS
  <1>3. ASSUME NEW k
        PROVE  /\ part(k) \in Seq(Server) /\ NoneTwice(part(k))
               /\ \A s \in ToSet(members) : key[s] = k => s \in ToSet(part(k))
               /\ \A s \in ToSet(part(k)) : s \in ToSet(members) /\ key[s] = k
    <2> DEFINE I == own(k)
               card == Cardinality(I)
               p == part(k)
    <2>1. I \in SUBSET (1..Len(members))
      BY <1>2
    <2>2. \A i \in I : i \in DOMAIN members /\ key[members[i]] = k
      OBVIOUS
    <2>3. \A i \in DOMAIN members : key[members[i]] = k => i \in I
      OBVIOUS
    <2> HIDE DEF own, I
    <2>4. /\ p = Picked(members, I)
          /\ Picked(members, I) \in Seq(Server) /\ Len(Picked(members, I)) = card /\ card \in Nat
      <3>1. p = Picked(members, I)
        BY DEF I
      <3> QED BY <2>1, <3>1, PickedOf
    <2>5. PICK at : PicksAt(at, Picked(members, I), members, I)
      BY <2>1, PickedOf
    <2>6. /\ at \in [1..card -> I]
          /\ \A j \in 1..card : Picked(members, I)[j] = members[at[j]]
          /\ \A j, l \in 1..card : j < l => at[j] < at[l]
          /\ \A i \in I : \E j \in 1..card : at[j] = i
      BY <2>5 DEF PicksAt
    <2> HIDE DEF p, card
    <2>7. p \in Seq(Server) /\ Len(p) = card /\ \A j \in 1..card : p[j] = members[at[j]]
      BY <2>4, <2>6
    <2>8. DOMAIN p = 1..card
      BY <2>4, <2>7
    <2>9. NoneTwice(p)
      <3> SUFFICES ASSUME NEW j \in 1..card, NEW l \in 1..card, p[j] = p[l] PROVE j = l
        BY <2>8 DEF NoneTwice
      <3>1. at[j] \in I /\ at[l] \in I /\ members[at[j]] = members[at[l]]
        BY <2>6, <2>7
      <3>2. at[j] = at[l] /\ at[j] \in Int
        BY <1>2, <2>2, <3>1 DEF NoneTwice
      <3>3. j \in Int /\ l \in Int /\ (j < l => at[j] < at[l]) /\ (l < j => at[l] < at[j])
        BY <2>4, <2>6
      <3> QED BY <3>2, <3>3
    <2>10. \A s \in ToSet(members) : key[s] = k => s \in ToSet(p)
      <3> TAKE s \in ToSet(members)
      <3> HAVE key[s] = k
      <3>1. PICK i \in DOMAIN members : members[i] = s
        BY DEF ToSet
      <3>2. PICK j \in 1..card : at[j] = i
        BY <2>3, <2>6, <3>1
      <3>3. p[j] = s
        BY <2>7, <3>1, <3>2
      <3> QED BY <2>8, <3>3 DEF ToSet
    <2>11. \A s \in ToSet(p) : s \in ToSet(members) /\ key[s] = k
      <3> TAKE s \in ToSet(p)
      <3>1. PICK j \in 1..card : p[j] = s
        BY <2>8 DEF ToSet
      <3>2. at[j] \in DOMAIN members /\ key[members[at[j]]] = k /\ members[at[j]] = s
        BY <2>2, <2>6, <2>7, <3>1
      <3> QED BY <3>2 DEF ToSet
    <2> QED BY <2>7, <2>9, <2>10, <2>11 DEF p
  <1> HIDE DEF part
  <1>4. \A q \in Parted(members, key) : q \in Seq(Server) /\ NoneTwice(q)
    BY <1>1, <1>3
  <1>5. ASSUME NEW s \in ToSet(members) PROVE ExactlyOnce(s, Parted(members, key))
    <2> DEFINE mine == part(key[s])
    <2>1. mine \in Parted(members, key) /\ s \in ToSet(mine)
      BY <1>1, <1>3
    <2>2. \A q \in Parted(members, key) : s \in ToSet(q) => q = mine
      BY <1>1, <1>3
    <2>3. \A q \in Parted(members, key) : NoneTwice(q)
      BY <1>4
    <2> HIDE DEF mine
    <2> QED BY <2>1, <2>2, <2>3, OnceOf
  <1> QED BY <1>4, <1>5

-----------------------------------------------------------------------------

\* The list's places and states are some there are; the beacons are those of the
\* list; and the fan that is open, if there is one, is of a cluster of the list,
\* whose beacon is what is hidden.
BeaconInv ==
  /\ BeaconTypeOK
  /\ kBeacons = Beacons(kServers)
  /\ \/ kFan = NoFan /\ kHidden = {}
     \/ \E c \in Clusters(kServers) :
          kFan = [key |-> c.key, buttons |-> Buttons(c.members)] /\ kHidden = {c.key}

\* The beacon of a cluster.
BeaconOf(list, c) ==
  [key |-> c.key, members |-> c.members, status |-> Aggregate(list, c.members),
   sectors |-> IF Len(c.members) > 1 THEN Sectors(c.members) ELSE {}]

LEMMA BeaconsAre ==
  ASSUME NEW list
  PROVE  /\ Beacons(list) = {BeaconOf(list, c) : c \in Clusters(list)}
         /\ \A c : /\ BeaconOf(list, c).key = c.key /\ BeaconOf(list, c).members = c.members
                   /\ BeaconOf(list, c).status = Aggregate(list, c.members)
                   /\ Len(c.members) > 1 => BeaconOf(list, c).sectors = Sectors(c.members)
  BY DEF Beacons, BeaconOf

\* The colour of a beacon.
LEMMA AggregateOf ==
  ASSUME NEW list, NEW members, NEW s \in ToSet(members),
         \A t \in ToSet(members) : list[t].status \in Statuses
  PROVE  /\ Aggregate(list, members) = "online"
              <=> \A t \in ToSet(members) : list[t].status = "online"
         /\ Aggregate(list, members) = "offline"
              <=> \A t \in ToSet(members) : list[t].status = "offline"
  <1> DEFINE seen == {list[t].status : t \in ToSet(members)}
  <1>1. seen \subseteq {"online", "warn", "offline"} /\ seen # {}
    <2>1. \A t \in ToSet(members) : list[t].status \in {"online", "warn", "offline"}
      BY BeaconAssumption
    <2>2. list[s].status \in seen
      OBVIOUS
    <2> QED BY <2>1, <2>2
  <1>2. /\ (\A t \in ToSet(members) : list[t].status = "online") <=> seen = {"online"}
        /\ (\A t \in ToSet(members) : list[t].status = "offline") <=> seen = {"offline"}
    <2>1. list[s].status \in seen /\ \A t \in ToSet(members) : list[t].status \in seen
      OBVIOUS
    <2>2. \A x \in seen : \E t \in ToSet(members) : list[t].status = x
      OBVIOUS
    <2> HIDE DEF seen
    <2>3. ASSUME NEW x
          PROVE  (\A t \in ToSet(members) : list[t].status = x) <=> seen = {x}
      <3>1. ASSUME \A t \in ToSet(members) : list[t].status = x PROVE seen = {x}
        BY <2>1, <2>2, <3>1
      <3>2. ASSUME seen = {x}, NEW t \in ToSet(members) PROVE list[t].status = x
        BY <2>1, <3>2
      <3> QED BY <3>1, <3>2
    <2> QED BY <2>3
  <1>3. Aggregate(list, members)
          = IF seen = {"offline"} THEN "offline"
            ELSE IF seen \intersect {"warn", "offline"} # {} THEN "warn" ELSE "online"
    BY DEF Aggregate
  <1> HIDE DEF seen
  <1>4. seen = {"online"} => seen \intersect {"warn", "offline"} = {}
    OBVIOUS
  <1>5. seen \intersect {"warn", "offline"} = {} => seen = {"online"}
    BY <1>1
  <1>6. seen = {"online"} => seen # {"offline"}
    OBVIOUS
  <1> QED BY <1>2, <1>3, <1>4, <1>5, <1>6

LEMMA BeaconInvImplies == BeaconInv => OneBeaconEach
  <1> SUFFICES ASSUME BeaconInv PROVE OneBeaconEach
    OBVIOUS
  <1> DEFINE C == Clusters(kServers)
             S == DOMAIN kServers
             beacon(c) == BeaconOf(kServers, c)
  <1>1. S \subseteq Server /\ \A s \in S : kServers[s].status \in Statuses
    BY DEF BeaconInv, BeaconTypeOK
  <1>2. Covers(C, S)
    BY <1>1, ClustersCover
  <1>3. /\ kBeacons = {beacon(c) : c \in C}
        /\ \A c : /\ beacon(c).key = c.key /\ beacon(c).members = c.members
                  /\ beacon(c).status = Aggregate(kServers, c.members)
                  /\ Len(c.members) > 1 => beacon(c).sectors = Sectors(c.members)
    BY BeaconsAre DEF BeaconInv
  <1>4. \/ kFan = NoFan /\ kHidden = {}
        \/ \E c \in C : kFan = [key |-> c.key, buttons |-> Buttons(c.members)] /\ kHidden = {c.key}
    BY DEF BeaconInv
  <1> HIDE DEF beacon, C
  <1>5. ASSUME NEW s \in S PROVE ExactlyOnce(s, {b.members : b \in kBeacons})
    <2> DEFINE parts == {b.members : b \in kBeacons}
    <2>1. parts = {c.members : c \in C}
      BY <1>3
    <2>2. PICK c \in C : s \in ToSet(c.members)
      BY <1>2 DEF Covers
    <2>3. c.members \in parts
      BY <2>1
    <2>4. \A p \in parts : s \in ToSet(p) => p = c.members
      BY <1>2, <2>1, <2>2 DEF Covers
    <2>5. \A p \in parts : NoneTwice(p)
      BY <1>2, <2>1 DEF Covers, NoneTwice
    <2> HIDE DEF parts
    <2>6. ExactlyOnce(s, parts)
      BY <2>2, <2>3, <2>4, <2>5, OnceOf
    <2> QED BY <2>6 DEF parts
  <1>6. ASSUME NEW c \in C
        PROVE  /\ beacon(c).status = "online"
                    <=> \A s \in ToSet(beacon(c).members) : kServers[s].status = "online"
               /\ beacon(c).status = "offline"
                    <=> \A s \in ToSet(beacon(c).members) : kServers[s].status = "offline"
    <2>1. c.members \in Seq(Server) /\ c.members # <<>> /\ ToSet(c.members) \subseteq S
      BY <1>2 DEF Covers
    <2>2. PICK s \in ToSet(c.members) : TRUE
      <3>1. 1 \in DOMAIN c.members
        BY <2>1, EmptySeq
      <3> QED BY <3>1 DEF ToSet
    <2>3. \A t \in ToSet(c.members) : kServers[t].status \in Statuses
      BY <1>1, <2>1
    <2>4. /\ Aggregate(kServers, c.members) = "online"
               <=> \A t \in ToSet(c.members) : kServers[t].status = "online"
          /\ Aggregate(kServers, c.members) = "offline"
               <=> \A t \in ToSet(c.members) : kServers[t].status = "offline"
      BY <2>2, <2>3, AggregateOf
    <2> QED BY <1>3, <2>4
  <1>7. ASSUME NEW c \in C, Len(beacon(c).members) > 1, NEW s \in ToSet(beacon(c).members)
        PROVE  /\ ExactlyOnce(s, beacon(c).sectors)
               /\ ExactlyOnce(s, Buttons(beacon(c).members))
               /\ \A button \in Buttons(beacon(c).members) :
                    s \in ToSet(button) => ExactlyOnce(s, Headings(button))
    <2>1. c.members \in Seq(Server) /\ NoneTwice(c.members) /\ beacon(c).members = c.members
      BY <1>2, <1>3 DEF Covers, NoneTwice
    <2>2. ExactlyOnce(s, Sectors(c.members))
      BY <1>7, <2>1, PartedOnce DEF Sectors
    <2>3. /\ ExactlyOnce(s, Buttons(c.members))
          /\ \A button \in Buttons(c.members) : button \in Seq(Server) /\ NoneTwice(button)
      BY <1>7, <2>1, PartedOnce DEF Buttons
    <2>4. \A button \in Buttons(c.members) : s \in ToSet(button) => ExactlyOnce(s, Headings(button))
      <3> TAKE button \in Buttons(c.members)
      <3>1. button \in Seq(Server) /\ NoneTwice(button)
        BY <2>3
      <3> QED BY <3>1, PartedOnce DEF Headings
    <2> QED BY <1>3, <1>7, <2>1, <2>2, <2>3, <2>4
  <1>8. kHidden = {} <=> kFan = NoFan
    <2>1. ASSUME NEW c \in C, kFan = [key |-> c.key, buttons |-> Buttons(c.members)] PROVE kFan # NoFan
      <3>1. kFan.key # <<>>
        BY <1>2, <2>1 DEF Covers
      <3>2. NoFan.key = <<>>
        BY DEF NoFan
      <3> QED BY <3>1, <3>2
    <2> QED BY <1>4, <2>1
  <1>9. kHidden # {} => \E b \in kBeacons : /\ kHidden = {b.key} /\ kFan.key = b.key
                                            /\ kFan.buttons = Buttons(b.members)
    <2> HAVE kHidden # {}
    <2>1. PICK c \in C : kFan = [key |-> c.key, buttons |-> Buttons(c.members)] /\ kHidden = {c.key}
      BY <1>4
    <2>2. beacon(c) \in kBeacons /\ beacon(c).key = c.key /\ beacon(c).members = c.members
      BY <1>3
    <2>3. kFan.key = c.key /\ kFan.buttons = Buttons(c.members)
      BY <2>1
    <2> QED BY <2>1, <2>2, <2>3
  <1>10. \A b \in kBeacons :
       /\ b.status = "online" <=> \A s \in ToSet(b.members) : kServers[s].status = "online"
       /\ b.status = "offline" <=> \A s \in ToSet(b.members) : kServers[s].status = "offline"
       /\ Len(b.members) > 1 => \A s \in ToSet(b.members) :
            /\ ExactlyOnce(s, b.sectors)
            /\ ExactlyOnce(s, Buttons(b.members))
            /\ \A button \in Buttons(b.members) :
                 s \in ToSet(button) => ExactlyOnce(s, Headings(button))
    <2> TAKE b \in kBeacons
    <2>1. PICK c \in C : b = beacon(c)
      BY <1>3
    <2> QED BY <1>6, <1>7, <2>1
  <1> QED BY <1>5, <1>8, <1>9, <1>10 DEF OneBeaconEach

LEMMA BeaconInvInit == BeaconInit => BeaconInv
  <1> SUFFICES ASSUME BeaconInit PROVE BeaconInv
    OBVIOUS
  <1>1. kServers = <<>> /\ kBeacons = {} /\ kFan = NoFan /\ kHidden = {} /\ kOpened = 0
    BY DEF BeaconInit
  <1>2. DOMAIN kServers = {}
    BY <1>1
  <1>3. Clusters(kServers) = {}
    <2>1. Covers(Clusters(kServers), {})
      <3>1. DOMAIN kServers \subseteq Server
        BY <1>2
      <3> QED BY <1>2, <3>1, ClustersCover
    <2>2. ASSUME NEW c \in Clusters(kServers) PROVE FALSE
      <3>1. c.members \in Seq(Server) /\ c.members # <<>> /\ ToSet(c.members) \subseteq {}
        BY <2>1, <2>2 DEF Covers
      <3>2. 1 \in DOMAIN c.members
        BY <3>1, EmptySeq
      <3> QED BY <3>1, <3>2 DEF ToSet
    <2> QED BY <2>2
  <1>4. Beacons(kServers) = {}
    BY <1>3 DEF Beacons
  <1>5. BeaconTypeOK
    BY <1>1, <1>2 DEF BeaconTypeOK
  <1> QED BY <1>1, <1>4, <1>5 DEF BeaconInv

\* A list of servers with their places.
BeaconListed(list) ==
  /\ DOMAIN list \subseteq Server
  /\ \A s \in DOMAIN list : list[s].place \in Places \union {Nowhere} /\ list[s].status \in Statuses

LEMMA BeaconInvStep == BeaconInv /\ [BeaconStep]_beaconVars => BeaconInv'
  <1> SUFFICES ASSUME BeaconInv, [BeaconStep]_beaconVars PROVE BeaconInv'
    OBVIOUS
  <1>1. BeaconListed(kServers) /\ kOpened \in Server \union {0}
    BY DEF BeaconInv, BeaconTypeOK, BeaconListed
  <1>2. BeaconListed(kServers') /\ kOpened' \in Server \union {0} => BeaconTypeOK'
    BY DEF BeaconTypeOK, BeaconListed
  <1>3. ASSUME NEW list, BeaconListed(list), ListUpdated(list) PROVE BeaconInv'
    <2>1. /\ kServers' = list /\ kBeacons' = Beacons(list) /\ kFan' = NoFan /\ kHidden' = {}
          /\ kOpened' = kOpened
      BY <1>3 DEF ListUpdated
    <2> QED BY <1>1, <1>2, <1>3, <2>1 DEF BeaconInv
  <1>4. ASSUME NEW s \in Server, NEW entry \in [place : Places \union {Nowhere}, status : Statuses],
               ServerListed(s, entry)
        PROVE  BeaconInv'
    <2> DEFINE list == [t \in DOMAIN kServers \union {s} |-> IF t = s THEN entry ELSE kServers[t]]
    <2>1. ListUpdated(list)
      BY <1>4 DEF ServerListed
    <2>2. BeaconListed(list)
      BY <1>1 DEF BeaconListed
    <2> HIDE DEF list
    <2> QED BY <1>3, <2>1, <2>2
  <1>5. ASSUME NEW s \in Server, ServerGone(s) PROVE BeaconInv'
    <2> DEFINE list == [t \in DOMAIN kServers \ {s} |-> kServers[t]]
    <2>1. ListUpdated(list)
      BY <1>5 DEF ServerGone
    <2>2. BeaconListed(list)
      BY <1>1 DEF BeaconListed
    <2> HIDE DEF list
    <2> QED BY <1>3, <2>1, <2>2
  <1>6. ASSUME UNCHANGED <<kServers, kBeacons>>, kOpened' \in Server \union {0},
               \/ UNCHANGED <<kFan, kHidden>>
               \/ kFan' = NoFan /\ kHidden' = {}
               \/ \E c \in Clusters(kServers) :
                    kFan' = [key |-> c.key, buttons |-> Buttons(c.members)] /\ kHidden' = {c.key}
        PROVE  BeaconInv'
    <2>1. BeaconTypeOK'
      BY <1>1, <1>2, <1>6
    <2>2. kBeacons' = Beacons(kServers')
      BY <1>6 DEF BeaconInv
    <2>3. Clusters(kServers') = Clusters(kServers)
      BY <1>6
    <2>4. \/ kFan' = NoFan /\ kHidden' = {}
          \/ \E c \in Clusters(kServers') :
               kFan' = [key |-> c.key, buttons |-> Buttons(c.members)] /\ kHidden' = {c.key}
      BY <1>6, <2>3 DEF BeaconInv
    <2> QED BY <2>1, <2>2, <2>4 DEF BeaconInv
  <1>7. ASSUME NEW s \in Server, SelectBeacon(s) PROVE BeaconInv'
    <2>1. PICK c \in Clusters(kServers) :
            /\ s \in ToSet(c.members)
            /\ IF Len(c.members) = 1
               THEN /\ kOpened' = s /\ kFan' = NoFan /\ kHidden' = {} /\ kPicker' = {}
               ELSE /\ kFan' = [key |-> c.key, buttons |-> Buttons(c.members)]
                    /\ kHidden' = {b.key : b \in {d \in kBeacons : d.key = c.key}}
                    /\ UNCHANGED <<kOpened, kPicker>>
      BY <1>7 DEF SelectBeacon
    <2>2. UNCHANGED <<kServers, kBeacons>>
      BY <1>7 DEF SelectBeacon
    <2>3. CASE Len(c.members) = 1
      BY <1>6, <2>1, <2>2, <2>3
    <2>4. CASE Len(c.members) # 1
      <3>1. {b.key : b \in {d \in kBeacons : d.key = c.key}} = {c.key}
        <4>1. BeaconOf(kServers, c) \in kBeacons /\ BeaconOf(kServers, c).key = c.key
          BY BeaconsAre DEF BeaconInv
        <4> QED BY <4>1
      <3>2. kFan' = [key |-> c.key, buttons |-> Buttons(c.members)] /\ kHidden' = {c.key}
              /\ kOpened' = kOpened
        BY <2>1, <2>4, <3>1
      <3> QED BY <1>1, <1>6, <2>2, <3>2
    <2> QED BY <2>3, <2>4
  <1>8. ASSUME NEW s \in Server, OpenMember(s) PROVE BeaconInv'
    <2>1. UNCHANGED <<kServers, kBeacons, kFan, kHidden>> /\ kOpened' = s
      BY <1>8 DEF OpenMember
    <2> QED BY <1>6, <2>1
  <1>9. CASE CloseInteraction \/ (\E members \in kFan.buttons : PressButton(members))
               \/ UNCHANGED beaconVars
    <2>1. /\ UNCHANGED <<kServers, kBeacons, kOpened>>
          /\ UNCHANGED <<kFan, kHidden>> \/ (kFan' = NoFan /\ kHidden' = {})
      BY <1>9 DEF CloseInteraction, PressButton, beaconVars
    <2> QED BY <1>1, <1>6, <2>1
  <1> QED BY <1>4, <1>5, <1>7, <1>8, <1>9 DEF BeaconStep

-----------------------------------------------------------------------------
(* The star map.  The markers of a drawing are apart, since its clusters are. *)

USE StarmapAssumption

\* Markers, each of its own servers.
Apart(markers) ==
  /\ \A m \in markers : m.servers \subseteq Server
  /\ \A m, n \in markers : m.servers = n.servers => m = n

LEMMA MarkersApart ==
  ASSUME NEW list \in MapLists
  PROVE  /\ Apart(Markers(list))
         /\ \A s \in DOMAIN list : Cardinality({m \in Markers(list) : s \in m.servers}) = 1
  <1> DEFINE C == Clusters(list)
             M == Markers(list)
             mark(c) == [servers |-> ToSet(c.members), status |-> MapStatus(list, c.members),
                         by |-> PlacedBy(c)]
  <1>1. M = {mark(c) : c \in C} /\ \A c : mark(c).servers = ToSet(c.members)
    BY DEF Markers
  <1>2. DOMAIN list \subseteq Server /\ Covers(C, DOMAIN list)
    BY ClustersCover
  <1> HIDE DEF M, mark, C
  <1>3. \A c \in C : ToSet(c.members) \subseteq DOMAIN list /\ \E s \in DOMAIN list : s \in ToSet(c.members)
    <2> TAKE c \in C
    <2>1. c.members \in Seq(Server) /\ c.members # <<>> /\ ToSet(c.members) \subseteq DOMAIN list
      BY <1>2 DEF Covers
    <2>2. 1 \in DOMAIN c.members
      BY <2>1, EmptySeq
    <2>3. c.members[1] \in ToSet(c.members)
      BY <2>2 DEF ToSet
    <2> QED BY <2>1, <2>3
  <1>4. Apart(M)
    <2>1. \A m \in M : m.servers \subseteq Server
      BY <1>1, <1>2, <1>3
    <2>2. ASSUME NEW m \in M, NEW n \in M, m.servers = n.servers PROVE m = n
      <3>1. PICK c \in C : m = mark(c)
        BY <1>1
      <3>2. PICK d \in C : n = mark(d)
        BY <1>1
      <3>3. ToSet(c.members) = ToSet(d.members)
        BY <1>1, <2>2, <3>1, <3>2
      <3>4. PICK s \in DOMAIN list : s \in ToSet(c.members)
        BY <1>3
      <3>5. c = d
        BY <1>2, <3>3, <3>4 DEF Covers
      <3> QED BY <3>1, <3>2, <3>5
    <2> QED BY <2>1, <2>2 DEF Apart
  <1>5. ASSUME NEW s \in DOMAIN list PROVE Cardinality({m \in M : s \in m.servers}) = 1
    <2>1. PICK c \in C : s \in ToSet(c.members)
      BY <1>2 DEF Covers
    <2>2. \A d \in C : s \in ToSet(d.members) => d = c
      BY <1>2, <2>1 DEF Covers
    <2>3. {m \in M : s \in m.servers} = {mark(c)}
      BY <1>1, <2>1, <2>2
    <2> QED BY <2>3, FS_Singleton
  <1> QED BY <1>4, <1>5 DEF M

-----------------------------------------------------------------------------

\* Lines of the map are between two of its markers that have a place: from the
\* first, or the page's own, to one that is not offline.
AllJoined(arcs) ==
  \A arc \in arcs : \E a \in Origin, b \in Placed :
    a # b /\ b.status # "offline" /\ arc.from = a.servers /\ arc.to = b.servers

StarmapInv ==
  /\ StarmapTypeOK
  /\ mFrames = (IF mMounted THEN 1 ELSE 0) /\ mListeners = mFrames
  /\ Apart(mMarkers)
  /\ mMounted => Cardinality({m \in mMarkers : mOrigin \in m.servers}) = 1
  /\ AllJoined(mArcs)
  /\ mDragging => mMouse \/ mTouches > 0 \/ mLost

LEMMA StarmapInvImplies == StarmapInv => StarmapTypeOK /\ StarmapWhole
  <1> SUFFICES ASSUME StarmapInv PROVE StarmapWhole
    BY DEF StarmapInv
  <1>1. ASSUME NEW arc \in mArcs
        PROVE  /\ arc.from # arc.to
               /\ (\E m \in Placed : m.servers = {mOrigin}) => arc.from = {mOrigin}
               /\ \A m \in mMarkers : m.servers = arc.to => m.status # "offline"
    <2>1. PICK a \in Origin, b \in Placed :
            a # b /\ b.status # "offline" /\ arc.from = a.servers /\ arc.to = b.servers
      BY DEF StarmapInv, AllJoined
    <2>2. /\ a \in mMarkers /\ b \in mMarkers
          /\ (\E m \in Placed : m.servers = {mOrigin}) => a.servers = {mOrigin}
      BY DEF Origin, Placed
    <2>3. \A m, n \in mMarkers : m.servers = n.servers => m = n
      BY DEF StarmapInv, Apart
    <2> QED BY <2>1, <2>2, <2>3
  <1>2. /\ mFrames = (IF mMounted THEN 1 ELSE 0) /\ mListeners = mFrames
        /\ mMounted => Cardinality({m \in mMarkers : mOrigin \in m.servers}) = 1
        /\ mDragging => mMouse \/ mTouches > 0 \/ mLost
    BY DEF StarmapInv
  <1> HIDE DEF Placed
  <1> QED BY <1>1, <1>2, Zenon DEF StarmapWhole

LEMMA StarmapInvInit == StarmapInit => StarmapInv
  <1> SUFFICES ASSUME StarmapInit PROVE StarmapInv
    OBVIOUS
  <1>1. /\ mMounted = FALSE /\ mMarkers = {} /\ mArcs = {} /\ mFrames = 0 /\ mListeners = 0
        /\ mAtlas = "none" /\ mZoom = 0 /\ mTools = Tools /\ mMouse = FALSE /\ mTouches = 0
        /\ mDragging = FALSE /\ mPinch = FALSE /\ mHovered = {} /\ mLost = FALSE
    BY DEF StarmapInit
  <1>2. StarmapTypeOK
    <2>1. /\ mZoom \in 0..Zooms /\ mTouches \in 0..3 /\ mTools \subseteq Tools
          /\ mHovered \subseteq Server /\ mAtlas \in {"none", "asked", "ready", "failed"}
      BY <1>1
    <2>2. {mMounted, mMouse, mDragging, mPinch, mLost} \subseteq BOOLEAN
      BY <1>1, Zenon
    <2> QED BY <2>1, <2>2 DEF StarmapTypeOK
  <1>3. Apart(mMarkers) /\ AllJoined(mArcs)
    BY <1>1 DEF Apart, AllJoined
  <1> QED BY <1>1, <1>2, <1>3 DEF StarmapInv

\* What is true of the markers as long as the map stays.
LEMMA StarmapInvStep == StarmapInv /\ [StarmapStep]_starmapVars => StarmapInv'
  <1> SUFFICES ASSUME StarmapInv, [StarmapStep]_starmapVars PROVE StarmapInv'
    OBVIOUS
  <1>1. /\ mMounted \in BOOLEAN /\ mMouse \in BOOLEAN /\ mDragging \in BOOLEAN
        /\ mPinch \in BOOLEAN /\ mLost \in BOOLEAN
        /\ mAtlas \in {"none", "asked", "ready", "failed"} /\ mZoom \in 0..Zooms
        /\ mTouches \in 0..3 /\ mTools \subseteq Tools /\ mHovered \subseteq Server
    BY DEF StarmapInv, StarmapTypeOK
  <1>2. /\ mFrames = (IF mMounted THEN 1 ELSE 0) /\ mListeners = mFrames
        /\ Apart(mMarkers) /\ AllJoined(mArcs)
        /\ mMounted => Cardinality({m \in mMarkers : mOrigin \in m.servers}) = 1
        /\ mDragging => mMouse \/ mTouches > 0 \/ mLost
    BY DEF StarmapInv
  <1>3. ASSUME mMounted' \in BOOLEAN, mMouse' \in BOOLEAN, mDragging' \in BOOLEAN,
               mPinch' \in BOOLEAN, mLost' \in BOOLEAN,
               mAtlas' \in {"none", "asked", "ready", "failed"}, mZoom' \in 0..Zooms,
               mTouches' \in 0..3, mTools' \subseteq Tools, mHovered' \subseteq Server,
               mFrames' = (IF mMounted' THEN 1 ELSE 0), mListeners' = mFrames',
               Apart(mMarkers)', AllJoined(mArcs)',
               mMounted' => Cardinality({m \in mMarkers' : mOrigin' \in m.servers}) = 1,
               mDragging' => mMouse' \/ mTouches' > 0 \/ mLost'
        PROVE  StarmapInv'
    BY <1>3, Zenon DEF StarmapInv, StarmapTypeOK
  \* The markers stay, and what is drawn.
  <1> DEFINE MapStays == UNCHANGED <<mMounted, mOrigin, mMarkers, mArcs, mFrames, mListeners>>
             MapInv == /\ mFrames' = (IF mMounted' THEN 1 ELSE 0) /\ mListeners' = mFrames'
                       /\ Apart(mMarkers)' /\ AllJoined(mArcs)' /\ mMounted' \in BOOLEAN
                       /\ mMounted' => Cardinality({m \in mMarkers' : mOrigin' \in m.servers}) = 1
  <1>4. ASSUME MapStays PROVE MapInv
    <2>1. Placed' = Placed /\ Origin' = Origin
      BY <1>4 DEF Placed, Origin
    <2>2. AllJoined(mArcs)'
      BY <1>2, <1>4, <2>1 DEF AllJoined
    <2>3. Apart(mMarkers)'
      BY <1>2, <1>4 DEF Apart
    <2> QED BY <1>1, <1>2, <1>4, <2>2, <2>3
  <1>5. ASSUME NEW list \in MapLists, NEW s \in DOMAIN list, MountStarmap(list, s)
        PROVE  StarmapInv'
    <2>1. /\ mMounted = FALSE /\ mMounted' = TRUE /\ mOrigin' = s /\ mMarkers' = Markers(list)
          /\ mFrames' = mFrames + 1 /\ mListeners' = mListeners + 1 /\ mAtlas' = "asked"
          /\ mArcs' = {} /\ mZoom' = 0 /\ mTools' = Tools /\ mMouse' = FALSE /\ mTouches' = 0
          /\ mDragging' = FALSE /\ mPinch' = FALSE /\ mHovered' = {} /\ mLost' = FALSE
      BY <1>1, <1>5 DEF MountStarmap
    <2>2. Apart(mMarkers)' /\ Cardinality({m \in mMarkers' : mOrigin' \in m.servers}) = 1
      <3>1. Apart(Markers(list)) /\ Cardinality({m \in Markers(list) : s \in m.servers}) = 1
        BY MarkersApart
      <3> QED BY <2>1, <3>1 DEF Apart
    <2>3. AllJoined(mArcs)'
      BY <2>1 DEF AllJoined
    <2>4. mFrames' = (IF mMounted' THEN 1 ELSE 0) /\ mListeners' = mFrames'
      BY <1>2, <2>1
    <2>5. mZoom' \in 0..Zooms /\ mTouches' \in 0..3
      BY <2>1
    <2> QED BY <1>3, <2>1, <2>2, <2>3, <2>4, <2>5
  <1>6. CASE UnmountStarmap
    <2>1. /\ mMounted = TRUE /\ mMounted' = FALSE /\ mFrames' = mFrames - 1
          /\ mListeners' = mListeners - 1 /\ mMarkers' = {} /\ mArcs' = {} /\ mHovered' = {}
          /\ UNCHANGED <<mAtlas, mZoom, mTools, mMouse, mTouches, mDragging, mPinch, mLost>>
      BY <1>1, <1>6 DEF UnmountStarmap, dragVars
    <2>2. Apart(mMarkers)' /\ AllJoined(mArcs)'
      BY <2>1 DEF Apart, AllJoined
    <2>3. mFrames' = (IF mMounted' THEN 1 ELSE 0) /\ mListeners' = mFrames'
      BY <1>2, <2>1
    <2> QED BY <1>1, <1>2, <1>3, <2>1, <2>2, <2>3
  <1>7. ASSUME AtlasSettles PROVE StarmapInv'
    <2>1. /\ MapStays /\ UNCHANGED <<mZoom, mTools, mMouse, mTouches, mDragging, mPinch, mLost, mHovered>>
          /\ mAtlas' \in {"ready", "failed"}
      BY <1>7 DEF AtlasSettles, dragVars, loopVars
    <2>2. MapInv
      BY <1>4, <2>1
    <2> HIDE DEF MapStays
    <2> QED BY <1>1, <1>2, <1>3, <2>1, <2>2
  <1>8. ASSUME SwitchTheme PROVE StarmapInv'
    <2>1. /\ MapStays
          /\ UNCHANGED <<mAtlas, mZoom, mTools, mMouse, mTouches, mDragging, mLost, mHovered>>
          /\ mPinch' = FALSE
      BY <1>8 DEF SwitchTheme, mapVars, loopVars
    <2>2. MapInv
      BY <1>4, <2>1
    <2> HIDE DEF MapStays
    <2> QED BY <1>1, <1>2, <1>3, <2>1, <2>2
  <1>9. ASSUME NEW front \in SUBSET Placed, DrawFrame(front) PROVE StarmapInv'
    <2>1. /\ UNCHANGED <<mMounted, mOrigin, mMarkers, mFrames, mListeners>>
          /\ UNCHANGED <<mAtlas, mZoom, mTools, mMouse, mTouches, mDragging, mPinch, mLost, mHovered>>
          /\ mArcs' = {} \/ mArcs' = ArcsBetween(front)
      BY <1>9 DEF DrawFrame, mapVars, loopVars, dragVars
    <2>2. Placed' = Placed /\ Origin' = Origin
      BY <2>1 DEF Placed, Origin
    <2>3. AllJoined(ArcsBetween(front))
      <3> SUFFICES ASSUME NEW arc \in ArcsBetween(front)
                   PROVE  \E a \in Origin, b \in Placed :
                            /\ a # b /\ b.status # "offline"
                            /\ arc.from = a.servers /\ arc.to = b.servers
        BY DEF AllJoined
      <3>1. PICK p \in Origin \X Placed :
              /\ p[1] # p[2] /\ p[2].status # "offline"
              /\ arc = [from |-> p[1].servers, to |-> p[2].servers]
        BY DEF ArcsBetween
      <3>2. p[1] \in Origin /\ p[2] \in Placed
        BY <3>1
      <3>3. arc.from = p[1].servers /\ arc.to = p[2].servers
        BY <3>1
      <3> QED BY <3>1, <3>2, <3>3
    <2>4. AllJoined(mArcs)'
      BY <2>1, <2>2, <2>3 DEF AllJoined
    <2>5. Apart(mMarkers)'
      BY <1>2, <2>1 DEF Apart
    <2> QED BY <1>1, <1>2, <1>3, <2>1, <2>4, <2>5
  <1>10. ASSUME NEW b \in BOOLEAN, StarmapMouse(b) PROVE StarmapInv'
    <2>1. /\ MapStays /\ UNCHANGED <<mAtlas, mZoom, mTools, mTouches, mPinch, mHovered>>
          /\ mMouse' = b /\ mDragging' = b /\ mLost' = FALSE
      BY <1>10 DEF StarmapMouse, mapVars, loopVars
    <2>2. MapInv
      BY <1>4, <2>1
    <2> HIDE DEF MapStays
    <2> QED BY <1>1, <1>2, <1>3, <2>1, <2>2
  <1>11. ASSUME NEW b \in BOOLEAN, Wheeled(b) PROVE StarmapInv'
    <2>1. /\ MapStays
          /\ UNCHANGED <<mAtlas, mTools, mMouse, mTouches, mDragging, mPinch, mLost, mHovered>>
          /\ mZoom' \in 0..Zooms
      BY <1>1, <1>11 DEF Wheeled, mapVars, loopVars, dragVars
    <2>2. MapInv
      BY <1>4, <2>1
    <2> HIDE DEF MapStays
    <2> QED BY <1>1, <1>2, <1>3, <2>1, <2>2
  <1>12. ASSUME NEW marker \in {m.servers : m \in Placed} \union {{}}, MouseMoves(marker)
         PROVE  StarmapInv'
    <2>1. /\ MapStays
          /\ UNCHANGED <<mAtlas, mZoom, mTools, mMouse, mTouches, mDragging, mPinch, mLost>>
          /\ mHovered' = marker
      BY <1>12 DEF MouseMoves, mapVars, loopVars, dragVars
    <2>2. marker \subseteq Server
      BY <1>2 DEF Apart, Placed
    <2>3. MapInv
      BY <1>4, <2>1
    <2> HIDE DEF MapStays
    <2> QED BY <1>1, <1>2, <1>3, <2>1, <2>2, <2>3
  <1>13. ASSUME StarmapTouchStart PROVE StarmapInv'
    <2>1. /\ MapStays /\ UNCHANGED <<mAtlas, mZoom, mTools, mMouse, mLost, mHovered>>
          /\ mTouches < 3 /\ mTouches' = mTouches + 1
      BY <1>13 DEF StarmapTouchStart, mapVars, loopVars
    <2>2. mDragging' \in BOOLEAN /\ mPinch' \in BOOLEAN
      BY <1>13, Zenon DEF StarmapTouchStart
    <2>3. mTouches' \in 0..3 /\ mTouches' > 0
      BY <1>1, <2>1
    <2>4. MapInv
      BY <1>4, <2>1
    <2> HIDE DEF MapStays
    <2> QED BY <1>1, <1>2, <1>3, <2>1, <2>2, <2>3, <2>4
  <1>14. ASSUME StarmapTouchEnd PROVE StarmapInv'
    <2>1. /\ MapStays /\ UNCHANGED <<mAtlas, mZoom, mTools, mMouse, mHovered>>
          /\ mTouches > 0 /\ mTouches' = mTouches - 1
          /\ mDragging' = FALSE /\ mPinch' = FALSE /\ mLost' = FALSE
      BY <1>14 DEF StarmapTouchEnd, mapVars, loopVars
    <2>2. mTouches' \in 0..3
      BY <1>1, <2>1
    <2>3. MapInv
      BY <1>4, <2>1
    <2> HIDE DEF MapStays
    <2> QED BY <1>1, <1>2, <1>3, <2>1, <2>2, <2>3
  <1>15. ASSUME StarmapTouchLost PROVE StarmapInv'
    <2>1. /\ MapStays /\ UNCHANGED <<mAtlas, mZoom, mTools, mMouse, mDragging, mPinch, mHovered>>
          /\ mTouches' = 0 /\ mLost' = TRUE
      BY <1>15 DEF StarmapTouchLost, mapVars, loopVars
    <2>2. mTouches' \in 0..3
      BY <2>1
    <2>3. MapInv
      BY <1>4, <2>1
    <2> HIDE DEF MapStays
    <2> QED BY <1>1, <1>2, <1>3, <2>1, <2>2, <2>3
  <1>16. ASSUME NEW zoom \in 0..Zooms, StarmapTouchMove(zoom) PROVE StarmapInv'
    <2>1. /\ MapStays
          /\ UNCHANGED <<mAtlas, mTools, mMouse, mTouches, mDragging, mPinch, mLost, mHovered>>
          /\ mZoom' = zoom
      BY <1>16 DEF StarmapTouchMove, mapVars, loopVars, dragVars
    <2>2. MapInv
      BY <1>4, <2>1
    <2> HIDE DEF MapStays
    <2> QED BY <1>1, <1>2, <1>3, <2>1, <2>2
  <1>17. ASSUME NEW tool \in Tools, ToggleTool(tool) PROVE StarmapInv'
    <2>1. /\ MapStays
          /\ UNCHANGED <<mAtlas, mZoom, mMouse, mTouches, mDragging, mPinch, mLost, mHovered>>
          /\ mTools' \subseteq Tools
      BY <1>1, <1>17 DEF ToggleTool, mapVars, loopVars, dragVars
    <2>2. MapInv
      BY <1>4, <2>1
    <2> HIDE DEF MapStays
    <2> QED BY <1>1, <1>2, <1>3, <2>1, <2>2
  <1>18. CASE UNCHANGED starmapVars
    <2>1. /\ MapStays
          /\ UNCHANGED <<mAtlas, mZoom, mTools, mMouse, mTouches, mDragging, mPinch, mLost, mHovered>>
      BY <1>18 DEF starmapVars
    <2>2. MapInv
      BY <1>4, <2>1
    <2> HIDE DEF MapStays
    <2> QED BY <1>1, <1>2, <1>3, <2>1, <2>2
  <1> HIDE DEF MapStays, MapInv
  <1> QED BY <1>5, <1>6, <1>7, <1>8, <1>9, <1>10, <1>11, <1>12, <1>13, <1>14, <1>15, <1>16,
             <1>17, <1>18 DEF StarmapStep

-----------------------------------------------------------------------------
(* The overview page: the nodes of one group, sorted; a tab for each group; *)
(* the nodes that are not well.                                              *)

USE OverviewAssumption

\* The fields of a node.
LEMMA NodeFields ==
  ASSUME NEW a \in ListedNode
  PROVE  /\ a.id \in Nat /\ a.group \in Nat /\ a.used \in Nat /\ a.limit \in Int /\ a.days \in Int
         /\ a.price \in Int /\ a.months \in Nat /\ a.months > 0 /\ a.master \in BOOLEAN
         /\ a.status \in STRING /\ a.name \in STRING /\ a.region \in STRING
  BY DEF ListedNode

LEMMA RankOf ==
  ASSUME NEW a
  PROVE  /\ Rank(a) \in 0..2
         /\ Rank(a) = 0 <=> Class(a) = "offline"
         /\ a.status = "offline" => Rank(a) = 0
         /\ a.status = "online" => Rank(a) = 2
  BY DEF Rank, Class

LEMMA PctOf ==
  ASSUME NEW a \in ListedNode
  PROVE  TrafficPct(a) \in Int
  <1>1. a.limit \in Int /\ a.used \in Nat
    BY NodeFields
  <1>2. CASE a.limit <= 0
    BY <1>2 DEF TrafficPct
  <1>3. CASE a.limit > 0
    <2>1. 100 * a.used \in Int /\ a.limit \in Nat /\ a.limit >= 1
      BY <1>1, <1>3
    <2>2. (100 * a.used) \div a.limit \in Int
      BY <2>1, Quotient
    <2>3. TrafficPct(a) \in {100, (100 * a.used) \div a.limit}
      BY <1>1, <1>3 DEF TrafficPct
    <2> QED BY <2>2, <2>3
  <1> QED BY <1>1, <1>2, <1>3

\* compareOverviewNodes is an order, also of nodes with one number.
LEMMA BeforeIsOrder ==
  ASSUME NEW seq \in Seq(ListedNode)
  PROVE  IsWeakOrder({p \in (DOMAIN seq) \X (DOMAIN seq) : Before(seq[p[1]], seq[p[2]])},
                     1..Len(seq))
  <1> DEFINE D == 1..Len(seq)
             before == {p \in (DOMAIN seq) \X (DOMAIN seq) : Before(seq[p[1]], seq[p[2]])}
  <1>1. DOMAIN seq = D /\ \A i \in D : seq[i] \in ListedNode
    OBVIOUS
  <1>2. \A k, l \in D : <<k, l>> \in before <=> Before(seq[k], seq[l])
    BY <1>1
  <1>3. ASSUME NEW a \in ListedNode, NEW b \in ListedNode, Before(a, b) PROVE ~Before(b, a)
    <2>1. a.id \in Int /\ b.id \in Int /\ a.master \in BOOLEAN /\ b.master \in BOOLEAN
      BY NodeFields
    <2>2. Rank(a) \in Int /\ Rank(b) \in Int
      BY RankOf
    <2> QED BY <1>3, <2>1, <2>2 DEF Before
  <1>4. ASSUME NEW a \in ListedNode, NEW b \in ListedNode, NEW c \in ListedNode,
               ~Before(a, b), ~Before(b, c)
        PROVE  ~Before(a, c)
    <2>1. /\ a.id \in Int /\ b.id \in Int /\ c.id \in Int
          /\ a.master \in BOOLEAN /\ b.master \in BOOLEAN /\ c.master \in BOOLEAN
      BY NodeFields
    <2>2. Rank(a) \in Int /\ Rank(b) \in Int /\ Rank(c) \in Int
      BY RankOf
    <2> QED BY <1>4, <2>1, <2>2 DEF Before
  <1> HIDE DEF before, D
  <1>5. IsWeakOrder(before, D)
    BY <1>1, <1>2, <1>3, <1>4 DEF IsWeakOrder
  <1> QED BY <1>5 DEF before, D

\* And so is the order of the abnormal ones.
LEMMA WorseIsOrder ==
  ASSUME NEW seq \in Seq(ListedNode)
  PROVE  IsWeakOrder({p \in (DOMAIN seq) \X (DOMAIN seq) : Worse(seq[p[1]], seq[p[2]])},
                     1..Len(seq))
  <1> DEFINE D == 1..Len(seq)
             before == {p \in (DOMAIN seq) \X (DOMAIN seq) : Worse(seq[p[1]], seq[p[2]])}
  <1>1. DOMAIN seq = D /\ \A i \in D : seq[i] \in ListedNode
    OBVIOUS
  <1>2. \A k, l \in D : <<k, l>> \in before <=> Worse(seq[k], seq[l])
    BY <1>1
  <1>3. ASSUME NEW a \in ListedNode, NEW b \in ListedNode, Worse(a, b) PROVE ~Worse(b, a)
    <2>1. TrafficPct(a) \in Int /\ TrafficPct(b) \in Int
      BY PctOf
    <2> QED BY <1>3, <2>1 DEF Worse
  <1>4. ASSUME NEW a \in ListedNode, NEW b \in ListedNode, NEW c \in ListedNode,
               ~Worse(a, b), ~Worse(b, c)
        PROVE  ~Worse(a, c)
    <2>1. TrafficPct(a) \in Int /\ TrafficPct(b) \in Int /\ TrafficPct(c) \in Int
      BY PctOf
    <2> QED BY <1>4, <2>1 DEF Worse
  <1> HIDE DEF before, D
  <1>5. IsWeakOrder(before, D)
    BY <1>1, <1>2, <1>3, <1>4 DEF IsWeakOrder
  <1> QED BY <1>5 DEF before, D

-----------------------------------------------------------------------------

\* What seq has of the list: the nodes of the group, or all, each once.
Chosen(at, seq, list, active) ==
  /\ at \in [DOMAIN seq -> DOMAIN list]
  /\ \A k \in DOMAIN seq : seq[k] = list[at[k]]
  /\ \A k, l \in DOMAIN seq : k # l => at[k] # at[l]
  /\ \A i \in DOMAIN list :
       (\E k \in DOMAIN seq : at[k] = i) <=> active \in {<<"all">>, GroupKey(list[i])}

NodesOf(list, active) ==
  IF active = <<"all">> THEN list
  ELSE Picked(list, {i \in DOMAIN list : GroupKey(list[i]) = active})

LEMMA NodesChosen ==
  ASSUME NEW list \in Seq(ListedNode), NEW active
  PROVE  /\ NodesOf(list, active) \in Seq(ListedNode)
         /\ \E at : Chosen(at, NodesOf(list, active), list, active)
  <1> DEFINE D == DOMAIN list
             I == {i \in D : GroupKey(list[i]) = active}
             picked == Picked(list, I)
             nodes == NodesOf(list, active)
  <1>1. CASE active = <<"all">>
    <2> DEFINE at == [i \in D |-> i]
    <2>1. Chosen(at, list, list, active)
      BY <1>1 DEF Chosen
    <2>2. nodes = list
      BY <1>1 DEF NodesOf
    <2> HIDE DEF at, nodes
    <2>3. nodes \in Seq(ListedNode) /\ \E m : Chosen(m, nodes, list, active)
      BY <2>1, <2>2
    <2> QED BY <2>3 DEF nodes
  <1>2. CASE active # <<"all">>
    <2>1. I \in SUBSET (1..Len(list)) /\ D = 1..Len(list) /\ I \subseteq Int
      OBVIOUS
    <2>2. \A i \in D : i \in I <=> active \in {<<"all">>, GroupKey(list[i])}
      BY <1>2
    <2> DEFINE card == Cardinality(I)
    <2>3. nodes = picked
      BY <1>2 DEF NodesOf
    <2> HIDE DEF nodes, I
    <2>4. picked \in Seq(ListedNode) /\ Len(picked) = card /\ card \in Nat
      BY <2>1, PickedOf
    <2>5. PICK at : PicksAt(at, picked, list, I)
      BY <2>1, PickedOf
    <2> HIDE DEF picked
    <2>6. /\ at \in [1..card -> I] /\ \A k \in 1..card : picked[k] = list[at[k]]
          /\ \A k, l \in 1..card : k < l => at[k] < at[l]
          /\ \A i \in I : \E k \in 1..card : at[k] = i
      BY <2>5 DEF PicksAt
    <2> HIDE DEF card
    <2>7. DOMAIN picked = 1..card
      BY <2>4
    <2>8. \A k, l \in 1..card : k # l => at[k] # at[l]
      <3> TAKE k, l \in 1..card
      <3>1. k \in Int /\ l \in Int
        BY <2>4
      <3>2. at[k] \in Int /\ at[l] \in Int
        <4>1. at[k] \in I /\ at[l] \in I
          BY <2>6
        <4> QED BY <2>1, <4>1
      <3>3. (k < l => at[k] < at[l]) /\ (l < k => at[l] < at[k])
        BY <2>6
      <3> QED BY <3>1, <3>2, <3>3
    <2>9. at \in [1..card -> D]
      <3>1. \A k \in 1..card : at[k] \in D
        BY <2>1, <2>6
      <3> QED BY <2>6, <3>1
    <2>10. \A i \in D : (\E k \in 1..card : at[k] = i) <=> active \in {<<"all">>, GroupKey(list[i])}
      <3> TAKE i \in D
      <3>1. (\E k \in 1..card : at[k] = i) <=> i \in I
        BY <2>6
      <3> QED BY <2>2, <3>1
    <2>11. Chosen(at, picked, list, active)
      BY <2>6, <2>7, <2>8, <2>9, <2>10 DEF Chosen
    <2>12. nodes \in Seq(ListedNode) /\ \E m : Chosen(m, nodes, list, active)
      BY <2>3, <2>4, <2>11
    <2> QED BY <2>12 DEF nodes
  <1> QED BY <1>1, <1>2

\* The cards are these nodes, and none stands before one that comes before it.
LEMMA CardsChosen ==
  ASSUME NEW list \in Seq(ListedNode), NEW active
  PROVE  /\ FilteredNodes(list, active) \in Seq(ListedNode)
         /\ \E at : Chosen(at, FilteredNodes(list, active), list, active)
         /\ \A k, l \in DOMAIN FilteredNodes(list, active) :
              k < l => ~Before(FilteredNodes(list, active)[l], FilteredNodes(list, active)[k])
  <1> DEFINE D == DOMAIN list
             nodes == NodesOf(list, active)
             cards == FilteredNodes(list, active)
             before == {p \in (DOMAIN nodes) \X (DOMAIN nodes) : Before(nodes[p[1]], nodes[p[2]])}
             n == Len(nodes)
  <1>1. cards = StableSort(nodes, before)
    BY DEF FilteredNodes, NodesOf
  <1>2. nodes \in Seq(ListedNode)
    BY NodesChosen
  <1>3. PICK to : Chosen(to, nodes, list, active)
    BY NodesChosen
  <1>4. \A k, l \in DOMAIN nodes : <<k, l>> \in before <=> Before(nodes[k], nodes[l])
    OBVIOUS
  <1> HIDE DEF nodes, cards
  <1>5. IsWeakOrder(before, 1..n)
    BY <1>2, BeforeIsOrder
  <1> HIDE DEF before
  <1>6. StableSort(nodes, before) \in Seq(ListedNode) /\ Len(StableSort(nodes, before)) = Len(nodes)
    BY <1>2, <1>5, SortedOf
  <1>7. PICK at : SortsAt(at, StableSort(nodes, before), nodes, before)
    BY <1>2, <1>5, SortedOf
  <1>8. /\ cards \in Seq(ListedNode) /\ Len(cards) = n /\ n \in Nat
        /\ SortsAt(at, cards, nodes, before) /\ DOMAIN nodes = 1..n
    BY <1>1, <1>2, <1>6, <1>7
  <1> HIDE DEF n
  <1>9. /\ DOMAIN cards = 1..n /\ at \in [1..n -> 1..n] /\ \A k \in 1..n : cards[k] = nodes[at[k]]
        /\ \A k, l \in 1..n : k < l => at[k] # at[l] /\ <<at[l], at[k]>> \notin before
        /\ \A i \in 1..n : \E k \in 1..n : at[k] = i
    BY <1>8 DEF SortsAt, n
  <1>10. /\ to \in [1..n -> D] /\ \A k \in 1..n : nodes[k] = list[to[k]]
         /\ \A k, l \in 1..n : k # l => to[k] # to[l]
         /\ \A i \in D : (\E k \in 1..n : to[k] = i) <=> active \in {<<"all">>, GroupKey(list[i])}
    BY <1>3, <1>8 DEF Chosen
  <1> HIDE DEF D
  <1> DEFINE from == [k \in 1..n |-> to[at[k]]]
  <1>11. from \in [1..n -> D] /\ \A k \in 1..n : from[k] = to[at[k]] /\ cards[k] = list[from[k]]
    BY <1>9, <1>10
  <1> HIDE DEF from
  <1>12. \A k, l \in 1..n : k # l => from[k] # from[l]
    <2> TAKE k, l \in 1..n
    <2>1. k # l => at[k] # at[l]
      <3>1. k \in Int /\ l \in Int
        BY <1>8
      <3>2. (k < l => at[k] # at[l]) /\ (l < k => at[l] # at[k])
        BY <1>9
      <3> QED BY <3>1, <3>2
    <2>2. at[k] \in 1..n /\ at[l] \in 1..n
      BY <1>9
    <2> QED BY <1>10, <1>11, <2>1, <2>2
  <1>13. \A i \in D : (\E k \in 1..n : from[k] = i) <=> active \in {<<"all">>, GroupKey(list[i])}
    <2> TAKE i \in D
    <2>1. (\E k \in 1..n : from[k] = i) <=> \E k \in 1..n : to[k] = i
      <3>1. ASSUME NEW k \in 1..n, from[k] = i PROVE \E m \in 1..n : to[m] = i
        BY <1>9, <1>11, <3>1
      <3>2. ASSUME NEW m \in 1..n, to[m] = i PROVE \E k \in 1..n : from[k] = i
        <4>1. PICK k \in 1..n : at[k] = m
          BY <1>9
        <4> QED BY <1>11, <3>2, <4>1
      <3> QED BY <3>1, <3>2
    <2> QED BY <1>10, <2>1
  <1>14. Chosen(from, cards, list, active)
    BY <1>9, <1>11, <1>12, <1>13 DEF Chosen, D
  <1>15. \A k, l \in DOMAIN cards : k < l => ~Before(cards[l], cards[k])
    <2> TAKE k, l \in DOMAIN cards
    <2> HAVE k < l
    <2>1. k \in 1..n /\ l \in 1..n /\ at[k] \in DOMAIN nodes /\ at[l] \in DOMAIN nodes
      BY <1>8, <1>9
    <2>2. <<at[l], at[k]>> \notin before
      BY <1>9, <2>1
    <2>3. cards[k] = nodes[at[k]] /\ cards[l] = nodes[at[l]]
      BY <1>9, <2>1
    <2> QED BY <1>4, <2>1, <2>2, <2>3
  <1> QED BY <1>8, <1>14, <1>15 DEF cards

\* Each node is counted under one status.
LEMMA StatusesCounted ==
  ASSUME NEW list \in Seq(ListedNode)
  PROVE  /\ CountOf(list, "online") \in Nat /\ CountOf(list, "warn") \in Nat
         /\ CountOf(list, "offline") \in Nat
         /\ CountOf(list, "online") + CountOf(list, "warn") + CountOf(list, "offline") = Len(list)
  <1> DEFINE D == DOMAIN list
             Of(class) == {i \in D : Class(list[i]) = class}
  <1>1. IsFiniteSet(D) /\ Cardinality(D) = Len(list)
    <2>1. D = 1..Len(list) /\ Len(list) \in Nat
      OBVIOUS
    <2>2. IsFiniteSet(1..Len(list))
            /\ Cardinality(1..Len(list)) = IF 1 > Len(list) THEN 0 ELSE Len(list) - 1 + 1
      BY <2>1, FS_Interval
    <2> HIDE DEF D
    <2> QED BY <2>1, <2>2
  <1>2. /\ CountOf(list, "online") = Cardinality(Of("online"))
        /\ CountOf(list, "warn") = Cardinality(Of("warn"))
        /\ CountOf(list, "offline") = Cardinality(Of("offline"))
    BY DEF CountOf
  <1>3. ASSUME NEW class
        PROVE  IsFiniteSet(Of(class)) /\ Cardinality(Of(class)) \in Nat
    <2>1. Of(class) \in SUBSET D
      OBVIOUS
    <2> HIDE DEF Of, D
    <2>2. IsFiniteSet(Of(class))
      BY <1>1, <2>1, FS_Subset
    <2> QED BY <2>2, FS_CardinalityType
  <1>4. D = (Of("online") \union Of("warn")) \union Of("offline")
    BY DEF Class
  <1>5. Of("online") \intersect Of("warn") = {}
    OBVIOUS
  <1>6. (Of("online") \union Of("warn")) \intersect Of("offline") = {}
    OBVIOUS
  <1> HIDE DEF Of, D
  <1>7. Cardinality({}) = 0
    BY FS_EmptySet
  <1>8. /\ IsFiniteSet(Of("online") \union Of("warn"))
        /\ Cardinality(Of("online") \union Of("warn"))
             = Cardinality(Of("online")) + Cardinality(Of("warn"))
    <2>1. /\ IsFiniteSet(Of("online") \union Of("warn"))
          /\ Cardinality(Of("online") \union Of("warn"))
               = Cardinality(Of("online")) + Cardinality(Of("warn"))
                   - Cardinality(Of("online") \intersect Of("warn"))
      BY <1>3, FS_Union
    <2>2. Cardinality(Of("online") \intersect Of("warn")) = 0
      BY <1>5, <1>7
    <2> QED BY <1>3, <2>1, <2>2
  <1>9. Cardinality((Of("online") \union Of("warn")) \union Of("offline"))
          = Cardinality(Of("online") \union Of("warn")) + Cardinality(Of("offline"))
    <2> DEFINE both == Of("online") \union Of("warn")
    <2>1. IsFiniteSet(both) /\ Cardinality(both) \in Nat /\ both \intersect Of("offline") = {}
      BY <1>6, <1>8, FS_CardinalityType
    <2> HIDE DEF both
    <2>2. Cardinality(both \union Of("offline"))
            = Cardinality(both) + Cardinality(Of("offline")) - Cardinality(both \intersect Of("offline"))
      BY <1>3, <2>1, FS_Union
    <2>3. Cardinality(both \intersect Of("offline")) = 0
      BY <1>7, <2>1
    <2>4. Cardinality(both \union Of("offline")) = Cardinality(both) + Cardinality(Of("offline"))
      BY <1>3, <2>1, <2>2, <2>3
    <2> QED BY <2>4 DEF both
  <1>10. Len(list)
           = Cardinality(Of("online")) + Cardinality(Of("warn")) + Cardinality(Of("offline"))
    BY <1>1, <1>3, <1>4, <1>8, <1>9
  <1> QED BY <1>2, <1>3, <1>10

\* SetToSeq has each element of a finite set once.
LEMMA SetToSeqOf ==
  ASSUME NEW S, IsFiniteSet(S)
  PROVE  /\ Cardinality(S) \in Nat /\ SetToSeq(S) \in [1..Cardinality(S) -> S]
         /\ \A i, j \in 1..Cardinality(S) : SetToSeq(S)[i] = SetToSeq(S)[j] => i = j
         /\ \A x \in S : \E i \in 1..Cardinality(S) : SetToSeq(S)[i] = x
  <1> DEFINE n == Cardinality(S)
             f == SetToSeq(S)
  <1>1. n \in Nat
    BY FS_CardinalityType
  <1>2. PICK g : g \in Bijection(1..n, S)
    BY FS_CardinalityType DEF ExistsBijection
  <1>3. g \in [1..n -> S] /\ IsInjective(g)
    BY <1>2 DEF Bijection, Injection, Surjection, IsInjective
  <1>4. f \in [1..n -> S] /\ IsInjective(f)
    BY <1>3 DEF SetToSeq
  <1> HIDE DEF f
  <1>5. \A i, j \in 1..n : f[i] = f[j] => i = j
    BY <1>4 DEF IsInjective
  <1>6. f \in Injection(1..n, S)
    BY <1>4, <1>5 DEF Injection, IsInjective
  <1>7. Cardinality(1..n) = n
    <2>1. Cardinality(1..n) = IF 1 > n THEN 0 ELSE n - 1 + 1
      BY <1>1, FS_Interval
    <2> HIDE DEF n
    <2> QED BY <1>1, <2>1
  <1>8. f \in Surjection(1..n, S)
    BY <1>6, <1>7, FS_Injection
  <1>9. \A x \in S : \E i \in 1..n : f[i] = x
    BY <1>8 DEF Surjection
  <1> QED BY <1>1, <1>4, <1>5, <1>9 DEF f

\* The tabs: each group with the number of its nodes.
TabsOf(list) == {[key |-> g.key, count |-> Len(g.servers)] : g \in BackendGroups(list)}

LEMMA TabsAre ==
  ASSUME NEW list \in Seq(ListedNode)
  PROVE  /\ IsFiniteSet(TabsOf(list))
         /\ \A i \in DOMAIN list : \E tab \in TabsOf(list) : tab.key = GroupKey(list[i])
         /\ \A tab \in TabsOf(list) :
              tab.count = Cardinality({i \in DOMAIN list : GroupKey(list[i]) = tab.key})
         /\ \A a, b \in TabsOf(list) : a.key = b.key => a = b
  <1> DEFINE D == DOMAIN list
             own(k) == {i \in D : GroupKey(list[i]) = k}
             tab(k) == [key |-> k, count |-> Cardinality(own(k))]
             keys == {GroupKey(list[i]) : i \in D}
  <1>1. ASSUME NEW k PROVE Len(Picked(list, own(k))) = Cardinality(own(k))
    <2>1. own(k) \in SUBSET (1..Len(list))
      OBVIOUS
    <2> HIDE DEF own
    <2> QED BY <2>1, PickedOf
  <1>2. TabsOf(list) = {tab(k) : k \in keys}
    <2> DEFINE group(k) == [key |-> k, servers |-> Picked(list, own(k))]
    <2>1. BackendGroups(list) = {group(k) : k \in keys}
      BY DEF BackendGroups
    <2>2. \A k : group(k).key = k /\ group(k).servers = Picked(list, own(k))
      OBVIOUS
    <2> HIDE DEF own, keys, group
    <2>3. \A k : [key |-> group(k).key, count |-> Len(group(k).servers)] = tab(k)
      BY <1>1, <2>2
    <2> HIDE DEF tab
    <2> QED BY <2>1, <2>3 DEF TabsOf
  <1>3. IsFiniteSet(TabsOf(list))
    <2>1. IsFiniteSet(D)
      <3>1. D = 1..Len(list) /\ Len(list) \in Int
        OBVIOUS
      <3> QED BY <3>1, FS_Interval
    <2> DEFINE f == [i \in D |-> tab(GroupKey(list[i]))]
    <2>2. TabsOf(list) = {f[i] : i \in D}
      <3> HIDE DEF tab
      <3>1. \A i \in D : f[i] = tab(GroupKey(list[i]))
        OBVIOUS
      <3> HIDE DEF f
      <3> QED BY <1>2, <3>1
    <2> HIDE DEF f, D
    <2> QED BY <2>1, <2>2, FiniteImage
  <1>4. \A k : tab(k).key = k /\ tab(k).count = Cardinality(own(k))
    OBVIOUS
  <1> HIDE DEF tab
  <1>5. \A i \in D : \E t \in TabsOf(list) : t.key = GroupKey(list[i])
    BY <1>2, <1>4
  <1>6. \A t \in TabsOf(list) : t.count = Cardinality(own(t.key))
    <2> HIDE DEF own
    <2> QED BY <1>2, <1>4
  <1>7. \A a, b \in TabsOf(list) : a.key = b.key => a = b
    BY <1>2, <1>4
  <1> QED BY <1>3, <1>5, <1>6, <1>7

\* Their numbers are the number of nodes.
LEMMA TabsCounted ==
  ASSUME NEW list \in Seq(ListedNode)
  PROVE  Total([k \in 1..Cardinality(TabsOf(list)) |-> SetToSeq(TabsOf(list))[k].count]) = Len(list)
  <1> DEFINE D == DOMAIN list
             tabs == TabsOf(list)
             n == Cardinality(tabs)
             S == 1..n
             seq == SetToSeq(tabs)
             counts == [k \in S |-> seq[k].count]
             part == [i \in D |-> CHOOSE k \in S : seq[k].key = GroupKey(list[i])]
  <1>1. /\ IsFiniteSet(tabs)
        /\ \A i \in D : \E tab \in tabs : tab.key = GroupKey(list[i])
        /\ \A tab \in tabs : tab.count = Cardinality({i \in D : GroupKey(list[i]) = tab.key})
        /\ \A a, b \in tabs : a.key = b.key => a = b
    BY TabsAre
  <1> HIDE DEF tabs
  <1>2. /\ n \in Nat /\ seq \in [S -> tabs]
        /\ \A k, l \in S : seq[k] = seq[l] => k = l
        /\ \A tab \in tabs : \E k \in S : seq[k] = tab
    BY <1>1, SetToSeqOf
  <1>3. IsFiniteSet(D) /\ Cardinality(D) = Len(list)
    <2>1. D = 1..Len(list) /\ Len(list) \in Nat
      OBVIOUS
    <2>2. IsFiniteSet(1..Len(list))
            /\ Cardinality(1..Len(list)) = IF 1 > Len(list) THEN 0 ELSE Len(list) - 1 + 1
      BY <2>1, FS_Interval
    <2> HIDE DEF D
    <2> QED BY <2>1, <2>2
  <1>4. IsFiniteSet(S) /\ S \in SUBSET Int
    <2> HIDE DEF n
    <2> QED BY <1>2, FS_Interval
  <1> HIDE DEF seq, n, S, D
  <1>5. \A i \in D : part[i] \in S /\ seq[part[i]].key = GroupKey(list[i])
    <2> TAKE i \in D
    <2>1. PICK tab \in tabs : tab.key = GroupKey(list[i])
      BY <1>1
    <2>2. PICK k \in S : seq[k] = tab
      BY <1>2
    <2>3. \E l \in S : seq[l].key = GroupKey(list[i])
      BY <2>1, <2>2
    <2> QED BY <2>3
  <1>6. part \in [D -> S]
    <2>1. part = [i \in D |-> part[i]] /\ DOMAIN part = D
      OBVIOUS
    <2> HIDE DEF part
    <2> QED BY <1>5, <2>1
  <1> HIDE DEF part
  <1>7. ASSUME NEW k \in S PROVE counts[k] = Cardinality({i \in D : part[i] = k})
    <2>1. seq[k] \in tabs
      BY <1>2
    <2>2. \A i \in D : part[i] = k <=> GroupKey(list[i]) = seq[k].key
      <3> TAKE i \in D
      <3>1. ASSUME GroupKey(list[i]) = seq[k].key PROVE part[i] = k
        <4>1. part[i] \in S /\ seq[part[i]].key = seq[k].key
          BY <1>5, <3>1
        <4>2. seq[part[i]] \in tabs
          BY <1>2, <4>1
        <4>3. seq[part[i]] = seq[k]
          BY <1>1, <2>1, <4>1, <4>2
        <4> QED BY <1>2, <4>1, <4>3
      <3> QED BY <1>5, <3>1
    <2>3. {i \in D : part[i] = k} = {i \in D : GroupKey(list[i]) = seq[k].key}
      BY <2>2
    <2>4. counts[k] = seq[k].count
      OBVIOUS
    <2>5. seq[k].count = Cardinality({i \in D : GroupKey(list[i]) = seq[k].key})
      BY <1>1, <2>1
    <2> HIDE DEF counts
    <2> QED BY <2>3, <2>4, <2>5
  <1>8. DOMAIN counts = S
    OBVIOUS
  <1>9. SumOver(counts, S) = Cardinality(D)
    <2> HIDE DEF counts
    <2> QED BY <1>3, <1>4, <1>6, <1>7, SumCounts
  <1>10. Total(counts) = Len(list)
    <2> HIDE DEF counts
    <2> QED BY <1>3, <1>8, <1>9 DEF Total
  <1> QED BY <1>10 DEF counts, S, n, seq, tabs

\* Unless six are shown, all of the abnormal ones are.
LEMMA AbnormalShown ==
  ASSUME NEW list \in Seq(ListedNode), Len(BadNodes(list)) < 6
  PROVE  \A s \in ToSet(list) :
           Class(s) # "online" \/ TrafficPct(s) >= 85 => s \in ToSet(BadNodes(list))
  <1> DEFINE I == {i \in DOMAIN list : Class(list[i]) # "online" \/ TrafficPct(list[i]) >= 85}
             abnormal == Abnormal(list)
             before == {p \in (DOMAIN abnormal) \X (DOMAIN abnormal) :
                          Worse(abnormal[p[1]], abnormal[p[2]])}
             sorted == StableSort(abnormal, before)
  <1>1. I \in SUBSET (1..Len(list)) /\ abnormal = Picked(list, I)
    BY DEF Abnormal
  <1>2. \A s \in ToSet(list) : Class(s) # "online" \/ TrafficPct(s) >= 85 => \E i \in I : list[i] = s
    BY DEF ToSet
  <1>3. BadNodes(list) = First(sorted, 6)
    BY DEF BadNodes
  <1> HIDE DEF I, abnormal
  <1>4. abnormal \in Seq(ListedNode) /\ Len(abnormal) = Cardinality(I)
    BY <1>1, PickedOf
  <1>5. PICK at : PicksAt(at, abnormal, list, I)
    BY <1>1, PickedOf
  <1>6. IsWeakOrder(before, 1..Len(abnormal))
    BY <1>4, WorseIsOrder
  <1> HIDE DEF before
  <1>7. sorted \in Seq(ListedNode) /\ Len(sorted) = Len(abnormal)
    BY <1>4, <1>6, SortedOf
  <1>8. PICK to : SortsAt(to, sorted, abnormal, before)
    BY <1>4, <1>6, SortedOf
  <1> HIDE DEF sorted
  <1>9. BadNodes(list) = sorted
    <2>1. Len(sorted) \in Nat
      BY <1>7
    <2>2. CASE Len(sorted) < 6
      <3>1. BadNodes(list) = SubSeq(sorted, 1, Len(sorted))
        BY <1>3, <2>2 DEF First
      <3> QED BY <1>7, <3>1, SubSeqFull
    <2>3. CASE ~(Len(sorted) < 6)
      <3>1. BadNodes(list) = SubSeq(sorted, 1, 6) /\ 6 <= Len(sorted)
        BY <1>3, <2>1, <2>3 DEF First
      <3>2. Len(SubSeq(sorted, 1, 6)) = 6
        BY <1>7, <3>1, SubSeqProperties
      <3> QED BY <3>1, <3>2
    <2> QED BY <2>2, <2>3
  <1>10. \A i \in I : list[i] \in ToSet(sorted)
    <2> TAKE i \in I
    <2>1. PICK k \in 1..Cardinality(I) : at[k] = i
      BY <1>5 DEF PicksAt
    <2>2. abnormal[k] = list[i]
      BY <1>5, <2>1 DEF PicksAt
    <2>3. k \in 1..Len(abnormal)
      BY <1>4, <2>1
    <2>4. PICK l \in 1..Len(abnormal) : to[l] = k
      BY <1>8, <2>3 DEF SortsAt
    <2>5. sorted[l] = abnormal[k]
      BY <1>8, <2>4 DEF SortsAt
    <2>6. l \in DOMAIN sorted
      BY <1>7, <2>4
    <2> QED BY <2>2, <2>5, <2>6 DEF ToSet
  <1> QED BY <1>2, <1>9, <1>10

\* A group that is gone is not chosen any more.
LEMMA ActiveOf ==
  ASSUME NEW list, NEW stored
  PROVE  ActiveGroup(list, stored) # <<"all">> =>
           \E i \in DOMAIN list : GroupKey(list[i]) = ActiveGroup(list, stored)
  <1> DEFINE group(k) == [key |-> k, servers |-> Picked(list, {i \in DOMAIN list : GroupKey(list[i]) = k})]
             keys == {GroupKey(list[i]) : i \in DOMAIN list}
  <1>1. BackendGroups(list) = {group(k) : k \in keys} /\ \A k : group(k).key = k
    BY DEF BackendGroups
  <1> HIDE DEF group
  <1>2. stored \in {g.key : g \in BackendGroups(list)} => stored \in keys
    BY <1>1
  <1> QED BY <1>2 DEF ActiveGroup

\* What OverviewComplete says of the cards.
CardsComplete(list, active, cards) ==
  /\ \A s \in ToSet(list) :
       s.id \in {cards[i].id : i \in DOMAIN cards} <=> active \in {<<"all">>, GroupKey(s)}
  /\ Len(cards) = Cardinality({cards[i].id : i \in DOMAIN cards})
  /\ \A i, j \in DOMAIN cards :
       /\ cards[i].master /\ ~cards[j].master => i < j
       /\ cards[i].status = "offline" /\ cards[j].status = "online" /\ i > j => cards[j].master
  /\ active # <<"all">> => cards # <<>>

LEMMA CardsAre ==
  ASSUME NEW list \in Fleet, NEW active, NEW cards, cards = FilteredNodes(list, active),
         active # <<"all">> => \E i \in DOMAIN list : GroupKey(list[i]) = active
  PROVE  CardsComplete(list, active, cards)
  <1> DEFINE D == DOMAIN list
             K == DOMAIN cards
             ids == [k \in K |-> cards[k].id]
             shown == {cards[i].id : i \in DOMAIN cards}
  <1>1. list \in Seq(ListedNode) /\ \A i, j \in D : list[i].id = list[j].id => i = j
    OBVIOUS
  <1>2. /\ cards \in Seq(ListedNode)
        /\ \A k, l \in K : k < l => ~Before(cards[l], cards[k])
    BY <1>1, CardsChosen
  <1>3. PICK at : Chosen(at, cards, list, active)
    BY <1>1, CardsChosen
  <1>4. /\ at \in [K -> D] /\ \A k \in K : cards[k] = list[at[k]]
        /\ \A k, l \in K : k # l => at[k] # at[l]
        /\ \A i \in D : (\E k \in K : at[k] = i) <=> active \in {<<"all">>, GroupKey(list[i])}
    BY <1>3 DEF Chosen
  <1>5. K = 1..Len(cards) /\ Len(cards) \in Nat /\ \A k \in K : cards[k] \in ListedNode
    BY <1>2
  <1> HIDE DEF D, K
  <1>6. \A s \in ToSet(list) :
          s.id \in shown <=> active \in {<<"all">>, GroupKey(s)}
    <2> TAKE s \in ToSet(list)
    <2>1. PICK i \in D : list[i] = s
      BY DEF ToSet, D
    <2>2. s.id \in shown <=> \E k \in K : at[k] = i
      <3>1. ASSUME s.id \in shown PROVE \E k \in K : at[k] = i
        <4>1. PICK k \in K : cards[k].id = s.id
          BY <3>1 DEF K
        <4>2. at[k] \in D /\ list[at[k]].id = list[i].id
          BY <1>4, <2>1, <4>1
        <4> QED BY <1>1, <4>2
      <3>2. ASSUME NEW k \in K, at[k] = i PROVE s.id \in shown
        <4>1. cards[k] = s
          BY <1>4, <2>1, <3>2
        <4> QED BY <4>1 DEF K
      <3> QED BY <3>1, <3>2
    <2> QED BY <1>4, <2>1, <2>2
  <1>7. Len(cards) = Cardinality(shown)
    <2>1. \A k, l \in K : ids[k] = ids[l] => k = l
      <3> TAKE k, l \in K
      <3> HAVE ids[k] = ids[l]
      <3>1. at[k] \in D /\ at[l] \in D /\ list[at[k]].id = list[at[l]].id
        BY <1>4
      <3>2. at[k] = at[l]
        BY <1>1, <3>1
      <3> QED BY <1>4, <3>2
    <2>2. shown = {ids[k] : k \in K}
      BY DEF K
    <2>3. ids \in [K -> shown]
      BY DEF K
    <2> HIDE DEF ids, shown
    <2>4. ids \in Bijection(K, shown)
      <3>1. ids \in Injection(K, shown)
        BY <2>1, <2>3 DEF Injection, IsInjective
      <3>2. ids \in Surjection(K, shown)
        BY <2>2, <2>3 DEF Surjection
      <3> QED BY <3>1, <3>2 DEF Bijection
    <2>5. IsFiniteSet(K) /\ Cardinality(K) = Len(cards)
      <3>1. IsFiniteSet(1..Len(cards))
              /\ Cardinality(1..Len(cards)) = IF 1 > Len(cards) THEN 0 ELSE Len(cards) - 1 + 1
        BY <1>5, FS_Interval, SMTT(30)
      <3> QED BY <1>5, <3>1
    <2>6. Cardinality(shown) = Cardinality(K)
      BY <2>4, <2>5, FS_Bijection DEF ExistsBijection
    <2> QED BY <2>5, <2>6
  <1>8. ASSUME NEW i \in K, NEW j \in K
        PROVE  /\ cards[i].master /\ ~cards[j].master => i < j
               /\ cards[i].status = "offline" /\ cards[j].status = "online" /\ i > j
                    => cards[j].master
    <2> DEFINE a == cards[i]
               b == cards[j]
    <2>1. i \in Int /\ j \in Int
      BY <1>5
    <2>2. j < i => ~Before(a, b)
      BY <1>2, <1>8
    <2>3. a \in ListedNode /\ b \in ListedNode
      BY <1>5
    <2>4. i = j => a = b
      OBVIOUS
    <2> HIDE DEF a, b
    <2>5. a.master \in BOOLEAN /\ b.master \in BOOLEAN
      BY <2>3, NodeFields
    <2>6. a.master /\ ~b.master => Before(a, b)
      BY <2>5 DEF Before
    <2>7. a.master /\ ~b.master => i < j
      BY <2>1, <2>2, <2>4, <2>6
    <2>8. a.status = "offline" /\ b.status = "online" /\ ~b.master => Before(a, b)
      <3> HAVE a.status = "offline" /\ b.status = "online" /\ ~b.master
      <3>1. Rank(a) = 0 /\ Rank(b) = 2
        BY RankOf
      <3> QED BY <2>5, <2>6, <3>1 DEF Before
    <2>9. a.status = "offline" /\ b.status = "online" /\ i > j => b.master
      BY <2>1, <2>2, <2>5, <2>8
    <2> QED BY <2>7, <2>9 DEF a, b
  <1>9. active # <<"all">> => cards # <<>>
    <2> HAVE active # <<"all">>
    <2>1. PICK i \in D : GroupKey(list[i]) = active
      BY DEF D
    <2>2. \E k \in K : at[k] = i
      BY <1>4, <2>1
    <2> QED BY <1>5, <2>2
  <1> QED BY <1>6, <1>7, <1>8, <1>9 DEF K, CardsComplete

-----------------------------------------------------------------------------

\* The page is what is made of the list, the currency, the rates and some group that
\* was stored, and what is stored is what it shows.
OverviewInv ==
  /\ wList \in Fleet /\ wRates \in Rates /\ wCurrency \in {"CNY", "USD", "EUR"}
  /\ wOpen \subseteq {"expiry", "abnormal"}
  /\ wPrice \in [node : Nat, base : Nat, ratio : Int, final : Nat]
  /\ \E stored : /\ wPage = Rendered(wList, stored, wCurrency, wRates)
                 /\ wStored = ActiveGroup(wList, stored)

\* What the page has.
LEMMA PageOf ==
  ASSUME NEW list, NEW stored, NEW currency, NEW rates, NEW made,
         made = Rendered(list, stored, currency, rates)
  PROVE  /\ made.active = ActiveGroup(list, stored)
         /\ made.tabs = TabsOf(list)
         /\ made.cards = FilteredNodes(list, made.active)
         /\ made.summary.online = CountOf(list, "online")
         /\ made.summary.warn = CountOf(list, "warn")
         /\ made.summary.offline = CountOf(list, "offline")
         /\ made.summary.bad = BadNodes(list)
  BY DEF Rendered, TabsOf, Summary

LEMMA OverviewInvImplies == OverviewInv => OverviewTypeOK /\ OverviewComplete
  <1> SUFFICES ASSUME OverviewInv PROVE OverviewTypeOK /\ OverviewComplete
    OBVIOUS
  <1>1. /\ wList \in Fleet /\ wRates \in Rates /\ wCurrency \in {"CNY", "USD", "EUR"}
        /\ wOpen \subseteq {"expiry", "abnormal"}
        /\ wPrice \in [node : Nat, base : Nat, ratio : Int, final : Nat]
    BY DEF OverviewInv
  <1>2. PICK stored : /\ wPage = Rendered(wList, stored, wCurrency, wRates)
                      /\ wStored = ActiveGroup(wList, stored)
    BY DEF OverviewInv
  <1>3. OverviewTypeOK
    BY <1>1 DEF OverviewTypeOK
  <1>4. wList \in Seq(ListedNode)
    BY <1>1
  <1>5. /\ wPage.active = ActiveGroup(wList, stored) /\ wPage.tabs = TabsOf(wList)
        /\ wPage.cards = FilteredNodes(wList, wPage.active)
        /\ wPage.summary.online = CountOf(wList, "online")
        /\ wPage.summary.warn = CountOf(wList, "warn")
        /\ wPage.summary.offline = CountOf(wList, "offline")
        /\ wPage.summary.bad = BadNodes(wList)
    BY <1>2, PageOf
  <1> DEFINE active == wPage.active
             cards == wPage.cards
             summary == wPage.summary
             shown == {cards[i].id : i \in DOMAIN cards}
  <1>6. summary.online + summary.warn + summary.offline = Len(wList)
    BY <1>4, <1>5, StatusesCounted
  <1>7. Total([k \in 1..Cardinality(wPage.tabs) |-> SetToSeq(wPage.tabs)[k].count]) = Len(wList)
    BY <1>4, <1>5, TabsCounted
  <1>8. /\ \A s \in ToSet(wList) : s.id \in shown <=> active \in {<<"all">>, GroupKey(s)}
        /\ Len(cards) = Cardinality(shown)
        /\ \A i, j \in DOMAIN cards :
             /\ cards[i].master /\ ~cards[j].master => i < j
             /\ cards[i].status = "offline" /\ cards[j].status = "online" /\ i > j
                  => cards[j].master
        /\ active # <<"all">> => cards # <<>>
    <2>1. active # <<"all">> => \E i \in DOMAIN wList : GroupKey(wList[i]) = active
      BY <1>5, ActiveOf
    <2>2. cards = FilteredNodes(wList, active)
      BY <1>5
    <2> HIDE DEF active, cards
    <2>3. CardsComplete(wList, active, cards)
      BY <1>1, <2>1, <2>2, CardsAre
    <2> QED BY <2>3 DEF CardsComplete
  <1>9. Len(summary.bad) < 6 =>
          {s \in ToSet(wList) : Class(s) # "online" \/ TrafficPct(s) >= 85} \subseteq ToSet(summary.bad)
    BY <1>4, <1>5, AbnormalShown
  <1>10. wStored = active
    BY <1>2, <1>5
  <1>11. OverviewComplete
    BY <1>6, <1>7, <1>8, <1>9, <1>10 DEF OverviewComplete
  <1> QED BY <1>3, <1>11

\* The value of a node is a whole number.
LEMMA ResidualOf ==
  ASSUME NEW node \in ListedNode, NEW rates \in Rates
  PROVE  Residual(node, rates) \in Int
  <1>1. node.price \in Int /\ node.days \in Int
    BY NodeFields
  <1>2. rates.cny \in Nat /\ rates.eur \in Nat /\ rates.eur >= 1
    OBVIOUS
  <1>3. InCny(node.price, node.symbol, rates) \in Int
    <2>1. node.price * rates.cny \in Int
      BY <1>1, <1>2
    <2>2. (node.price * rates.cny) \div rates.eur \in Int
      BY <1>2, <2>1, Quotient
    <2>3. InCny(node.price, node.symbol, rates)
            \in {node.price, node.price * rates.cny, (node.price * rates.cny) \div rates.eur}
      BY DEF InCny
    <2> QED BY <1>1, <2>1, <2>2, <2>3
  <1> DEFINE cny == InCny(node.price, node.symbol, rates)
             days == PeriodDays(node.months)
             left == IF node.days > days THEN days ELSE node.days
  <1>4. days \in Nat /\ days >= 1
    BY DEF PeriodDays
  <1>5. Residual(node, rates) \in {0, (cny * left) \div days}
    BY DEF Residual
  <1> HIDE DEF cny, days
  <1>6. left \in Int /\ cny \in Int
    BY <1>1, <1>3, <1>4 DEF cny
  <1> HIDE DEF left
  <1>7. cny * left \in Int
    BY <1>6
  <1>8. (cny * left) \div days \in Int
    BY <1>4, <1>7, Quotient
  <1> QED BY <1>5, <1>8

LEMMA OverviewInvInit == OverviewInit => OverviewInv
  <1> SUFFICES ASSUME OverviewInit PROVE OverviewInv
    OBVIOUS
  <1>1. PICK rates \in Rates, stored \in {<<"all">>, <<"id", 1>>}, list \in Fleet :
          /\ wList = list /\ wRates = rates /\ wCurrency = "CNY"
          /\ wStored = ActiveGroup(list, stored)
          /\ wPage = Rendered(list, stored, "CNY", rates)
          /\ wOpen = Unfolded(wPage.summary)
          /\ wPrice = Closed
    BY DEF OverviewInit
  <1>2. wOpen \subseteq {"expiry", "abnormal"}
    BY <1>1 DEF Unfolded
  <1>3. Closed \in [node : Nat, base : Nat, ratio : Int, final : Nat]
    BY DEF Closed
  <1>4. /\ wPage = Rendered(wList, stored, wCurrency, wRates)
        /\ wStored = ActiveGroup(wList, stored)
    BY <1>1
  <1> QED BY <1>1, <1>2, <1>3, <1>4 DEF OverviewInv

LEMMA OverviewInvStep == OverviewInv /\ [OverviewStep]_overviewVars => OverviewInv'
  <1> SUFFICES ASSUME OverviewInv, [OverviewStep]_overviewVars PROVE OverviewInv'
    OBVIOUS
  <1> DEFINE Prices == [node : Nat, base : Nat, ratio : Int, final : Nat]
  <1>1. /\ wList \in Fleet /\ wRates \in Rates /\ wCurrency \in {"CNY", "USD", "EUR"}
        /\ wOpen \subseteq {"expiry", "abnormal"} /\ wPrice \in Prices
    BY DEF OverviewInv
  <1>2. PICK stored : /\ wPage = Rendered(wList, stored, wCurrency, wRates)
                      /\ wStored = ActiveGroup(wList, stored)
    BY DEF OverviewInv
  <1>3. ASSUME NEW list \in Fleet, NEW key, NEW currency \in {"CNY", "USD", "EUR"},
               Render(list, key, currency, wRates), UNCHANGED wPrice
        PROVE  OverviewInv'
    <2>1. /\ wList' = list /\ wCurrency' = currency /\ wRates' = wRates
          /\ wPage' = Rendered(list, key, currency, wRates)
          /\ wStored' = ActiveGroup(list, key) /\ wOpen' = Unfolded(wPage'.summary)
      BY <1>3 DEF Render
    <2>2. wOpen' \subseteq {"expiry", "abnormal"}
      BY <2>1 DEF Unfolded
    <2>3. /\ wPage' = Rendered(wList', key, wCurrency', wRates')
          /\ wStored' = ActiveGroup(wList', key)
      BY <2>1
    <2> QED BY <1>1, <1>3, <2>1, <2>2, <2>3 DEF OverviewInv
  <1>4. ASSUME UNCHANGED <<wList, wRates, wCurrency, wStored, wPage>>,
               wOpen' \subseteq {"expiry", "abnormal"}, wPrice' \in Prices
        PROVE  OverviewInv'
    <2>1. /\ wPage' = Rendered(wList', stored, wCurrency', wRates')
          /\ wStored' = ActiveGroup(wList', stored)
      BY <1>2, <1>4
    <2> QED BY <1>1, <1>4, <2>1 DEF OverviewInv
  <1>5. ASSUME NEW list \in Fleet, OverviewRefreshes(list) PROVE OverviewInv'
    BY <1>1, <1>3, <1>5 DEF OverviewRefreshes
  <1>6. ASSUME NEW key, PickGroup(key) PROVE OverviewInv'
    BY <1>1, <1>3, <1>6 DEF PickGroup
  <1>7. ASSUME NEW currency \in {"CNY", "USD", "EUR"}, SwitchCurrency(currency) PROVE OverviewInv'
    BY <1>1, <1>3, <1>7 DEF SwitchCurrency
  <1>8. ASSUME NEW panel \in {"expiry", "abnormal"}, FoldPanel(panel) PROVE OverviewInv'
    <2>1. UNCHANGED <<wList, wRates, wCurrency, wStored, wPage, wPrice>>
            /\ wOpen' \subseteq {"expiry", "abnormal"}
      BY <1>1, <1>8 DEF FoldPanel
    <2> QED BY <1>1, <1>4, <2>1
  <1>9. ASSUME NEW i \in DOMAIN wPage.cards, OpenCalculator(i) PROVE OverviewInv'
    <2> DEFINE left == Residual(wPage.cards[i], wRates)
               value == IF left < 0 THEN 0 ELSE left
    <2>1. UNCHANGED <<wList, wRates, wCurrency, wStored, wPage, wOpen>>
            /\ wPrice' = [node |-> wPage.cards[i].id, base |-> value, ratio |-> 0, final |-> value]
      BY <1>9 DEF OpenCalculator
    <2>2. wPage.cards \in Seq(ListedNode)
      <3>1. wPage.cards = FilteredNodes(wList, wPage.active)
        BY <1>2, PageOf
      <3>2. wList \in Seq(ListedNode)
        BY <1>1
      <3> QED BY <3>1, <3>2, CardsChosen
    <2>3. wPage.cards[i] \in ListedNode
      BY <2>2
    <2>4. wPage.cards[i].id \in Nat
      BY <2>3, NodeFields
    <2>5. left \in Int
      BY <1>1, <2>3, ResidualOf
    <2> HIDE DEF left
    <2>6. value \in Nat
      BY <2>5
    <2> HIDE DEF value
    <2>7. wPrice' \in Prices
      BY <2>1, <2>4, <2>6
    <2> QED BY <1>1, <1>4, <2>1, <2>7
  <1>10. wPrice.node \in Nat /\ wPrice.base \in Nat /\ wPrice.ratio \in Int /\ wPrice.final \in Nat
    BY <1>1
  <1>11. ASSUME NEW ratio \in Premium, TypeRatio(ratio) PROVE OverviewInv'
    <2> DEFINE final == (wPrice.base * (100 + ratio)) \div 100
               least == IF final < 0 THEN 0 ELSE final
    <2>1. UNCHANGED <<wList, wRates, wCurrency, wStored, wPage, wOpen>>
            /\ wPrice' = [wPrice EXCEPT !.ratio = ratio, !.final = least]
      BY <1>11 DEF TypeRatio
    <2>2. final \in Int
      <3>1. wPrice.base * (100 + ratio) \in Int
        BY <1>10
      <3> QED BY <3>1, Quotient
    <2> HIDE DEF final
    <2>3. least \in Nat /\ ratio \in Int
      BY <2>2
    <2> HIDE DEF least
    <2>4. wPrice' \in Prices
      BY <1>1, <2>1, <2>3
    <2> QED BY <1>1, <1>4, <2>1, <2>4
  <1>12. ASSUME NEW ratio \in Premium, TypeFinal(ratio + 100) PROVE OverviewInv'
    <2> DEFINE final == IF ratio + 100 < 0 THEN 0 ELSE ratio + 100
               share == IF wPrice.base > 0 THEN (100 * final) \div wPrice.base - 100 ELSE 0
    <2>1. UNCHANGED <<wList, wRates, wCurrency, wStored, wPage, wOpen>>
            /\ wPrice' = [wPrice EXCEPT !.final = final, !.ratio = share]
      BY <1>12 DEF TypeFinal
    <2>2. final \in Nat
      OBVIOUS
    <2> HIDE DEF final
    <2>3. share \in Int
      <3>1. CASE wPrice.base > 0
        <4>1. wPrice.base >= 1 /\ 100 * final \in Int
          BY <1>10, <2>2, <3>1
        <4>2. (100 * final) \div wPrice.base \in Int
          BY <1>10, <4>1, Quotient
        <4> QED BY <3>1, <4>2
      <3>2. CASE ~(wPrice.base > 0)
        BY <3>2
      <3> QED BY <3>1, <3>2
    <2> HIDE DEF share
    <2>4. wPrice' \in Prices
      BY <1>1, <2>1, <2>2, <2>3
    <2> QED BY <1>1, <1>4, <2>1, <2>4
  <1>13. CASE CloseCalculator
    <2>1. UNCHANGED <<wList, wRates, wCurrency, wStored, wPage, wOpen>> /\ wPrice' = Closed
      BY <1>13 DEF CloseCalculator
    <2>2. Closed \in Prices
      BY DEF Closed
    <2> QED BY <1>1, <1>4, <2>1, <2>2
  <1>14. CASE UNCHANGED overviewVars
    BY <1>1, <1>4, <1>14 DEF overviewVars
  <1> HIDE DEF Prices
  <1> QED BY <1>5, <1>6, <1>7, <1>8, <1>9, <1>11, <1>12, <1>13, <1>14 DEF OverviewStep
=============================================================================
