------------------------------ MODULE Frontend ------------------------------
(***************************************************************************)
(* A browser tab of the dashboard.  index.html shows one server or the home *)
(* page; on the home page the solar system, the comet's dust tail and the  *)
(* switch between the scenes work beside each other and share nothing but  *)
(* what HomeView says of them, so that each of them is followed by itself. *)
(* admin.html is a document of its own.  The charts are the detail page's, *)
(* followed in detail here: their samples, points and axes.                *)
(***************************************************************************)
EXTENDS DetailPage, ChartScales, Starmap, HealthVerdict, RequestCache,
        HomeView, DustTail, SolarScene, GlobeMotion, GlobeBeacons,
        GlobeLayers, OverviewPage, AdminConsole, AdminSettings,
        AlertRules, PingTargets

VARIABLE page   \* what is followed

detailParts == <<detailVars, chartVars, starmapVars, healthVars, requestVars>>
homeParts == <<homeVars, dustVars, solarVars, motionStateVars, beaconVars,
               layerVars, overviewVars>>
adminParts == <<adminVars, settingsVars, alertVars, pingVars>>
pageVars == <<page, detailParts, homeParts, adminParts>>

FrontInit ==
  /\ page \in {"detail", "charts", "starmap", "health", "requests", "home",
               "dust", "solar", "motion", "beacons", "layers",
               "overview", "nodes", "settings", "alerts",
               "targets"}
  /\ DetailInit /\ ChartInit /\ StarmapInit /\ HealthInit /\ RequestInit
  /\ HomeInit /\ DustInit /\ SolarInit /\ MotionInit /\ BeaconInit /\ LayersInit /\ OverviewInit
  /\ AdminInit /\ SettingsInit /\ AlertInit /\ PingInit
  \* What is not followed has one initial state.
  /\ page # "health" => eSkew = CHOOSE skew \in Skews : TRUE
  /\ page # "home" => hMobile
  /\ page # "solar" => sPlaceable
  /\ page # "overview" => wList = <<>> /\ wStored = <<"all">> /\ wRates = CHOOSE rates \in Rates : TRUE
  /\ page # "nodes" => \A n \in Node : aDb[n] = 0
  /\ page # "settings" => tSection = "site"
  /\ page # "alerts" => vRules[1].to = CHOOSE to \in Target \ {"default"} : TRUE

-----------------------------------------------------------------------------
(* The page of one server.                                                 *)

FollowDetail ==
  /\ page = "detail" /\ DetailStep
  /\ UNCHANGED <<page, chartVars, starmapVars, healthVars, requestVars, homeParts,
                adminParts>>

FollowChart ==
  /\ page = "charts" /\ ChartStep
  /\ UNCHANGED <<page, detailVars, starmapVars, healthVars, requestVars, homeParts,
                adminParts>>

FollowStarmap ==
  /\ page = "starmap" /\ StarmapStep
  /\ UNCHANGED <<page, detailVars, chartVars, healthVars, requestVars, homeParts,
                adminParts>>

FollowHealth ==
  /\ page = "health" /\ HealthStep
  /\ UNCHANGED <<page, detailVars, chartVars, starmapVars, requestVars, homeParts,
                adminParts>>

FollowRequest ==
  /\ page = "requests" /\ RequestStep
  /\ UNCHANGED <<page, detailVars, chartVars, starmapVars, healthVars, homeParts,
                adminParts>>

-----------------------------------------------------------------------------
(* The home page.                                                          *)

FollowHome ==
  /\ page = "home" /\ HomeStep
  /\ UNCHANGED <<page, dustVars, solarVars, motionStateVars, beaconVars, layerVars,
                overviewVars, detailParts, adminParts>>

FollowDust ==
  /\ page = "dust" /\ DustStep
  /\ UNCHANGED <<page, homeVars, solarVars, motionStateVars, beaconVars, layerVars,
                overviewVars, detailParts, adminParts>>

FollowSolar ==
  /\ page = "solar" /\ SolarStep
  /\ UNCHANGED <<page, homeVars, dustVars, motionStateVars, beaconVars, layerVars,
                overviewVars, detailParts, adminParts>>

FollowMotion ==
  /\ page = "motion" /\ MotionStep
  /\ UNCHANGED <<page, homeVars, dustVars, solarVars, beaconVars, layerVars,
                overviewVars, detailParts, adminParts>>

FollowBeacon ==
  /\ page = "beacons" /\ BeaconStep
  /\ UNCHANGED <<page, homeVars, dustVars, solarVars, motionStateVars, layerVars,
                overviewVars, detailParts, adminParts>>

FollowLayers ==
  /\ page = "layers" /\ LayersStep
  /\ UNCHANGED <<page, homeVars, dustVars, solarVars, motionStateVars, beaconVars,
                overviewVars, detailParts, adminParts>>

FollowOverview ==
  /\ page = "overview" /\ OverviewStep
  /\ UNCHANGED <<page, homeVars, dustVars, solarVars, motionStateVars, beaconVars,
                layerVars, detailParts, adminParts>>

-----------------------------------------------------------------------------
(* The administration console.                                             *)

FollowAdmin ==
  /\ page = "nodes" /\ AdminStep
  /\ UNCHANGED <<page, settingsVars, alertVars, pingVars, detailParts, homeParts>>

FollowSettings ==
  /\ page = "settings" /\ SettingsStep
  /\ UNCHANGED <<page, adminVars, alertVars, pingVars, detailParts, homeParts>>

FollowAlert ==
  /\ page = "alerts" /\ AlertStep
  /\ UNCHANGED <<page, adminVars, settingsVars, pingVars, detailParts, homeParts>>

FollowPing ==
  /\ page = "targets" /\ PingStep
  /\ UNCHANGED <<page, adminVars, settingsVars, alertVars, detailParts, homeParts>>

FrontNext ==
  \/ FollowDetail \/ FollowChart \/ FollowStarmap \/ FollowHealth
  \/ FollowRequest \/ FollowHome \/ FollowDust \/ FollowSolar
  \/ FollowMotion \/ FollowBeacon \/ FollowLayers \/ FollowOverview
  \/ FollowAdmin \/ FollowSettings \/ FollowAlert \/ FollowPing

-----------------------------------------------------------------------------
(* Fairness, of the part that is followed.                                  *)

\* Polls do not fail for ever: of the server's samples, and of its list as it is now.
PollingFairness ==
  SF_<<detailVars, homeVars>>(
    \/ page = "detail" /\ LiveAnswer /\ UNCHANGED homeVars
    \/ page = "home" /\ ListAnswer(hList) /\ UNCHANGED detailVars)

\* Every request and every import ends.
DetailFairness ==
  /\ WF_detailVars(page = "detail" /\ RenderStart)
  /\ WF_detailVars(page = "detail" /\ (RenderAnswer \/ RenderFails))
  /\ WF_detailVars(page = "detail" /\ (ChartsLoaded \/ ChartsFail))
  /\ WF_detailVars(page = "detail" /\ RefreshTick)
  /\ WF_detailVars(page = "detail" /\ (HeavyAnswer \/ HeavyFails))

\* Frames go on, drags end, and the worker answers what it is sent.
DustFairness ==
  /\ WF_dustVars(page = "dust" /\ Tick)
  /\ WF_dustVars(page = "dust" /\ \E r \in uRequests : Answer(r))

\* Imports end, frames go on, the list is asked for.
HomeFairness ==
  /\ WF_homeVars(page = "home" /\ TweenEnds)
  /\ WF_homeVars(page = "home" /\ (GlobeImported \/ GlobeImportFails))
  /\ WF_homeVars(page = "home" /\ ShowcaseSettles)
  /\ WF_homeVars(page = "home" /\ (MountArrives \/ MountFails))
  /\ WF_homeVars(page = "home" /\ Refresh)
  /\ WF_homeVars(page = "home" /\ \E a \in hAsked : ListAnswer(a) \/ ListFails(a))

\* Timers run out, and frames come while they run.
SolarFairness ==
  WF_solarVars(page = "solar" /\ ResumeTimer) /\ WF_solarVars(page = "solar" /\ Frame)

\* Who interacts with the globe leaves it alone for five seconds now and then.
GlobeFairness ==
  /\ WF_motionStateVars(page = "motion" /\ Resume)
  /\ WF_motionStateVars(page = "motion" /\ GlobeFrame)

\* Every request ends.
AdminFairness ==
  /\ WF_adminVars(page = "nodes" /\ BootSettles)
  /\ WF_adminVars(page = "nodes" /\ (\E r \in Reload : ReloadSettles(r)))
  /\ WF_adminVars(page = "nodes" /\ ShowPanel)
  /\ WF_adminVars(page = "nodes" /\ BulkGoesOn)
  /\ WF_adminVars(page = "nodes" /\ ConfigSettles)
  /\ WF_adminVars(page = "nodes" /\ (Succeeds \/ Fails))

FrontSpec ==
  /\ FrontInit /\ [][FrontNext]_pageVars
  /\ PollingFairness /\ DetailFairness /\ HomeFairness /\ DustFairness
  /\ SolarFairness /\ GlobeFairness /\ AdminFairness

FrontendTypeOK ==
  /\ DetailTypeOK /\ ChartTypeOK /\ StarmapTypeOK /\ HealthTypeOK /\ RequestTypeOK
  /\ HomeTypeOK /\ DustTypeOK /\ SolarTypeOK
  /\ MotionTypeOK /\ BeaconTypeOK /\ LayersTypeOK /\ OverviewTypeOK
  /\ AdminTypeOK /\ SettingsTypeOK /\ AlertTypeOK /\ PingTypeOK

\* However answers, failures and the page's visibility interleave, a page that is
\* rendered is drawn or says why not, and once drawn it goes on to show every new
\* sample while it can be seen.
DetailRecovers == DetailSettles /\ FreshAgain

\* A click on the earth leads there or to a page that can try again, and the home
\* page ends with the server's list, whatever overtook what.
HomeConverges == EarthReached /\ ListConverges

\* What is on display is what the page has: the globe's list, also when it came
\* while the globe was imported; and the fan stands for a cluster of that list.
GlobeShowsList == EarthShowsList /\ FanReplacesCluster

\* Every server has one place wherever servers are shown together: in the globe's
\* beacons, fan and picker, among the star map's markers, on the overview's cards
\* and in its counts.
EveryServerPlaced == OneBeaconEach /\ StarmapWhole /\ OverviewComplete

\* What the page of a server tells is of one time: the card and the row of the
\* same sample, the verdict of the newest of all answers, and an answer that
\* several parts of the page share is young.
PanelAgrees == CardAgreesWithRow /\ HealthHonest /\ OneYoungRequest

\* What arrives late is neither left behind in a scene that is gone nor in the
\* way of one that is there: the textures of the planets, the globe's imagery and
\* the visitor's beacon.
ScenesDressed == TexturesReleased /\ GlobeDressed

\* The console has what the server has: the token and the key as they were typed
\* (of the channels' secrets only that none is an earlier one), the rules as they
\* are, the targets as they were entered and will be loaded again.
ConsoleTrue == SecretsTyped /\ RulesShown /\ TargetsKept

\* Left alone, each scene moves again: the planets, the moon's button, the globe.
ScenesRecover == SceneRecovers /\ GlobeTurnsAgain

\* TailCatchesUp and AdminSettles, for the part that is followed.
TailCatchesUpShown == <>[](page # "dust" \/ TailOver) \/ <>[]TailWhole
AdminSettlesShown == []<>(page # "nodes" \/ Settled)
=============================================================================
