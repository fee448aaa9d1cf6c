---------------------------- MODULE FrontendProofs ----------------------------
(***************************************************************************)
(* What is proved of the parts of the front end holds in a tab.            *)
(*                                                                         *)
(* A tab follows one part and leaves the others as they were, so that each *)
(* of its steps is a step of every part or leaves that part alone          *)
(* (StepOfAPart): the inductive invariant of a part is one of the tab.     *)
(***************************************************************************)
EXTENDS Frontend, HomeViewProofs, AdminConsoleProofs, DetailPageProofs

\* A tab starts as its parts do.
LEMMA StartOfParts ==
  FrontInit => /\ DetailInit /\ ChartInit /\ StarmapInit /\ HealthInit /\ RequestInit
               /\ HomeInit /\ DustInit /\ SolarInit /\ MotionInit /\ BeaconInit
               /\ LayersInit /\ OverviewInit
               /\ AdminInit /\ SettingsInit /\ AlertInit /\ PingInit
  BY DEF FrontInit

\* A step of the tab is a step of one of its parts, or of none.
LEMMA StepOfAPart ==
  [FrontNext]_pageVars =>
    /\ [DetailStep]_detailVars /\ [ChartStep]_chartVars /\ [StarmapStep]_starmapVars
    /\ [HealthStep]_healthVars /\ [RequestStep]_requestVars
    /\ [HomeStep]_homeVars /\ [DustStep]_dustVars /\ [SolarStep]_solarVars
    /\ [MotionStep]_motionStateVars /\ [BeaconStep]_beaconVars
    /\ [LayersStep]_layerVars /\ [OverviewStep]_overviewVars
    /\ [AdminStep]_adminVars /\ [SettingsStep]_settingsVars
    /\ [AlertStep]_alertVars /\ [PingStep]_pingVars
  <1> SUFFICES ASSUME [FrontNext]_pageVars
      PROVE  /\ [DetailStep]_detailVars /\ [ChartStep]_chartVars
             /\ [StarmapStep]_starmapVars /\ [HealthStep]_healthVars
             /\ [RequestStep]_requestVars /\ [HomeStep]_homeVars
             /\ [DustStep]_dustVars /\ [SolarStep]_solarVars
             /\ [MotionStep]_motionStateVars /\ [BeaconStep]_beaconVars
             /\ [LayersStep]_layerVars /\ [OverviewStep]_overviewVars
             /\ [AdminStep]_adminVars /\ [SettingsStep]_settingsVars
             /\ [AlertStep]_alertVars /\ [PingStep]_pingVars
    OBVIOUS
  <1> USE DEF detailParts, homeParts, adminParts
  <1>1. CASE FollowDetail \/ FollowChart \/ FollowStarmap \/ FollowHealth \/ FollowRequest
    BY <1>1 DEF FollowDetail, FollowChart, FollowStarmap, FollowHealth, FollowRequest
  <1>2. CASE FollowHome \/ FollowDust \/ FollowSolar \/ FollowMotion \/ FollowBeacon
               \/ FollowLayers \/ FollowOverview
    BY <1>2 DEF FollowHome, FollowDust, FollowSolar, FollowMotion, FollowBeacon,
                FollowLayers, FollowOverview
  <1>3. CASE FollowAdmin \/ FollowSettings \/ FollowAlert \/ FollowPing
    BY <1>3 DEF FollowAdmin, FollowSettings, FollowAlert, FollowPing
  <1>4. CASE UNCHANGED pageVars
    BY <1>4 DEF pageVars
  <1> QED BY <1>1, <1>2, <1>3, <1>4 DEF FrontNext

-----------------------------------------------------------------------------
(* The page of one server.                                                  *)

\* The two invariants of the detail page.
LEMMA DetailInTab == FrontSpec => [](DetailInv /\ DrawsBounded)
  BY StartOfParts, StepOfAPart, DetailInvInit, DetailInvStep, DrawsInit, DrawsStep,
     PTL DEF FrontSpec

\* The card and the health row of one page tell one sample once a live poll has
\* ended, the verdict is on the newest row and the newest sample that arrived, and
\* an answer that several parts of the page share is young.
THEOREM PanelsAgree == FrontSpec => []PanelAgrees
  <1>1. DetailInv /\ DrawsBounded /\ HealthInv /\ SharedInv => PanelAgrees
    BY DetailInvImplies, HealthInvImplies DEF SharedInv, PanelAgrees
  <1> QED
    BY <1>1, DetailInTab, StartOfParts, StepOfAPart, HealthInvInit, HealthInvStep,
       SharedInit, SharedStep, PTL DEF FrontSpec

\* However late a coarse aggregate, a range or a poll comes, the newest point of the
\* CPU and memory charts is never taken back (shouldReplaceResourceTimeline,
\* mergeResourceTimelineHistory).  The process and network charts may be, but only by
\* a drawing, and to the rows that arrived last (refreshDetailRealtime assigns them
\* unconditionally).
THEOREM ChartMovesForward == FrontSpec => ChartNeverBackwards
  <1>1. DetailInv /\ DrawsBounded /\ [FrontNext]_pageVars
        => [dPhase' # "boot" =>
              /\ dCache.resource # {} => Newest(dView'.cpu) >= Newest(dView.cpu)
              /\ dView'.process < dView.process => dView'.process = Rows(dCache').process
              /\ dView'.net < dView.net => dView'.net = dCache'.net]_detailVars
    BY StepOfAPart, DetailInvStep DEF Forward, LatestRows
  <1> QED BY <1>1, DetailInTab, PTL DEF FrontSpec, ChartNeverBackwards

\* The ping history that was stored is never replaced by an older one, and the page
\* has what is stored.
THEOREM PingMovesForward == FrontSpec => PingHistoryKept
  <1>1. DetailInv /\ DrawsBounded /\ [FrontNext]_pageVars
        => [/\ dPing'.stored >= dPing.stored
            /\ Mounted' => dPing'.cache >= dPing'.stored]_detailVars
    BY StepOfAPart, PingStepForward DEF PingForward
  <1> QED BY <1>1, DetailInTab, PTL DEF FrontSpec, PingHistoryKept

\* What renderDetailMonitorCharts draws is inside the axes it computes, for every
\* number of points a chart is thinned to, every width of a bucket and every reading;
\* what appendDetailLiveMetrics adds is inside the x axis, and no chart says that it
\* is empty over a curve.  Of a live point nothing is said on the y axis of the
\* process chart: it may be outside of it until the next rendering.
THEOREM TabChartsWhole == FrontSpec => []NothingClipped
  BY StartOfParts, StepOfAPart, ChartInvInit, ChartInvStep, ChartInvImplies, PTL DEF FrontSpec

\* Windows, buckets and thinning leave no blank tail, and a late live answer neither
\* moves a chart backwards nor folds its curve (normalizePersistedTimelineRows,
\* downsampleDisplayPoints, append).
THEOREM TabNewestDrawn == FrontSpec => []NewestDrawn
  BY StartOfParts, StepOfAPart, ChartInvInit, ChartInvStep, ChartInvImplies, PTL DEF FrontSpec

-----------------------------------------------------------------------------
(* The home page.                                                           *)

\* The scenes of a tab are switched as ViewSwitch says.
THEOREM TabSwitches == FrontSpec => SwitchSpec
  BY StartOfParts, StepOfAPart, SwitchInit, SwitchStep, PTL
  DEF FrontSpec, SwitchSpec, Switch!Spec

\* The globe on display shows the list of the tab, and the fan a cluster of it.
THEOREM TabShowsList == FrontSpec => []GlobeShowsList
  <1>1. GlobeInv => GlobeShowsList
    BY DEF GlobeInv, FanInv, FanReplacesCluster, GlobeShowsList
  <1> QED
    BY <1>1, StartOfParts, StepOfAPart, SwitchInit, SwitchStep, GlobeInit, GlobeStep,
       PTL DEF FrontSpec

\* Nothing that arrives late is left in a scene that is gone or missing in one that
\* is there: the planets' textures, the globe's imagery, the visitor's beacon.
THEOREM TabDressed == FrontSpec => []ScenesDressed
  <1>1. TexturesInv /\ LayersInv => ScenesDressed
    BY LayersInvImplies DEF TexturesInv, ScenesDressed
  <1> QED
    BY <1>1, StartOfParts, StepOfAPart, TexturesInit, TexturesStep, LayersInvInit,
       LayersInvStep, PTL DEF FrontSpec

\* The dust tail of a tab loses no buffer and draws what is current.
THEOREM TabTailCorrect == FrontSpec => [](BuffersConserved /\ OnlyCurrentDrawn)
  <1>1. DustInv => BuffersConserved /\ OnlyCurrentDrawn
    BY DEF DustInv
  <1> QED
    BY <1>1, StartOfParts, StepOfAPart, DustInvInit, DustInvStep, PTL DEF FrontSpec

\* A drag of the globe selects no node in a tab.
THEOREM TabDragNeverSelects == FrontSpec => []NoSelectOnDrag
  <1>1. AloneInv => NoSelectOnDrag
    BY DEF AloneInv, NoSelectOnDrag
  <1> QED
    BY <1>1, StartOfParts, StepOfAPart, AloneInit, AloneStep, PTL DEF FrontSpec

-----------------------------------------------------------------------------
(* The administration console.                                              *)

\* Between two operations the table of a tab is the server's list, unless an answer
\* was lost or the last list that came was read, from Redis or the database, before a
\* change that was made before it came; and a row's configuration is the server's,
\* except after a save of it that failed and was not noticed.
THEOREM TabTableCorrect == FrontSpec => []TableAsServer
  <1>1. NodesInv /\ TableInv => TableAsServer
    BY TableInvImplies
  <1> QED
    BY <1>1, StartOfParts, StepOfAPart, TableInit, TableStep, NodesInit, NodesStep,
       PTL DEF FrontSpec

\* The server has the token and the key as they were typed, and of a channel no
\* earlier secret and none of another channel (a mask it may have: the panel sends
\* it back), unless two requests wrote the file from one reading of it; the list of
\* the rules is the server's when the chain that loaded it was alone; the targets are
\* stored as they were entered and are loaded again.
THEOREM TabConsoleTrue == FrontSpec => []ConsoleTrue
  <1>1. SettingsInv /\ RulesInv /\ PingInv => ConsoleTrue
    BY SettingsInvImplies, RulesInvImplies, PingInvImplies DEF ConsoleTrue
  <1> QED
    BY <1>1, StartOfParts, StepOfAPart, SettingsInvInit, SettingsInvStep, RulesInit,
       RulesStep, PingInvInit, PingInvStep, PTL DEF FrontSpec

-----------------------------------------------------------------------------
(* The parts of all three pages.                                            *)

\* Every server that is listed is shown once where it belongs: by one beacon of the
\* globe and one sector of its fan, by one marker of the star map, by one card of the
\* overview; for every list of servers, wherever they are and whatever their
\* beacons overlap (groupOverlappingNodes, buildMapNodes, renderOverview).
THEOREM TabPlaced == FrontSpec => []EveryServerPlaced
  <1>1. BeaconInv /\ StarmapInv /\ OverviewInv => EveryServerPlaced
    BY BeaconInvImplies, StarmapInvImplies, OverviewInvImplies DEF EveryServerPlaced
  <1> QED
    BY <1>1, StartOfParts, StepOfAPart, BeaconInvInit, BeaconInvStep, StarmapInvInit,
       StarmapInvStep, OverviewInvInit, OverviewInvStep, PTL DEF FrontSpec

\* The state of every part of a tab has its type, with the bounds on it: no more
\* draws wait than were asked for, and no axis of a chart begins below zero.
THEOREM TabTypes == FrontSpec => []FrontendTypeOK
  <1>1. FrontSpec => [](DetailTypeOK /\ ChartTypeOK /\ HealthTypeOK /\ RequestTypeOK)
    <2>1. DetailInv /\ DrawsBounded /\ ChartInv /\ HealthInv /\ SharedInv
          => DetailTypeOK /\ ChartTypeOK /\ HealthTypeOK /\ RequestTypeOK
      BY DetailInvImplies, ChartInvImplies, HealthInvImplies DEF SharedInv
    <2> QED
      BY <2>1, DetailInTab, StartOfParts, StepOfAPart, ChartInvInit, ChartInvStep,
         HealthInvInit, HealthInvStep, SharedInit, SharedStep, PTL DEF FrontSpec
  <1>2. FrontSpec => [](HomeTypeOK /\ DustTypeOK /\ SolarTypeOK)
    <2>1. /\ DustInv => DustTypeOK
          /\ SceneTypes /\ TexturesInv => SolarTypeOK
      BY DEF DustInv, SceneTypes, TexturesInv, SolarTypes, SolarTypeOK
    <2> QED
      BY <2>1, StartOfParts, StepOfAPart, HomeTypesInit, HomeTypesStep, DustInvInit,
         DustInvStep, SceneTypesInit, SceneTypesStep, TexturesInit, TexturesStep,
         PTL DEF FrontSpec
  <1>3. FrontSpec => [](MotionTypeOK /\ LayersTypeOK)
    BY StartOfParts, StepOfAPart, MotionTypesInit, MotionTypesStep, LayersInvInit,
       LayersInvStep, LayersInvImplies, PTL DEF FrontSpec
  <1>4. FrontSpec => [](BeaconTypeOK /\ StarmapTypeOK /\ OverviewTypeOK)
    <2>1. BeaconInv => BeaconTypeOK
      BY DEF BeaconInv
    <2> QED
      BY <2>1, StartOfParts, StepOfAPart, BeaconInvInit, BeaconInvStep, StarmapInvInit,
         StarmapInvStep, StarmapInvImplies, OverviewInvInit, OverviewInvStep,
         OverviewInvImplies, PTL DEF FrontSpec
  <1>5. FrontSpec => [](AdminTypeOK /\ SettingsTypeOK /\ AlertTypeOK /\ PingTypeOK)
    <2>1. NodesInv => AdminTypeOK
      BY DEF NodesInv
    <2> QED
      BY <2>1, StartOfParts, StepOfAPart, NodesInit, NodesStep, SettingsInvInit,
         SettingsInvStep,
         SettingsInvImplies, RulesInit, RulesStep, RulesInvImplies, PingInvInit,
         PingInvStep, PingInvImplies, PTL DEF FrontSpec
  <1>6. DetailTypeOK /\ ChartTypeOK /\ HealthTypeOK /\ RequestTypeOK /\ HomeTypeOK
        /\ DustTypeOK /\ SolarTypeOK /\ MotionTypeOK /\ LayersTypeOK /\ BeaconTypeOK
        /\ StarmapTypeOK /\ OverviewTypeOK /\ AdminTypeOK /\ SettingsTypeOK
        /\ AlertTypeOK /\ PingTypeOK => FrontendTypeOK
    BY DEF FrontendTypeOK
  <1> QED BY <1>1, <1>2, <1>3, <1>4, <1>5, <1>6, PTL
=============================================================================
