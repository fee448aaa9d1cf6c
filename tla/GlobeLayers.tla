---------------------------- MODULE GlobeLayers -----------------------------
(***************************************************************************)
(* What is drawn on the globe besides the beacons of the servers: three    *)
(* layers of imagery, asked for one after the other, the visitor's own     *)
(* beacon, and which place names the height of the camera lets through     *)
(* (CesiumGlobe.js, visitorBeacon.js, labelOverlay.js).                    *)
(***************************************************************************)
EXTENDS Integers, Sequences, SequencesExt

CONSTANT Heights     \* of the camera, in kilometres

\* There is a greatest height: controller.maximumZoomDistance.
ASSUME LayersAssumption ==
  Heights \subseteq Int /\ \E most \in Heights : \A h \in Heights : most >= h

VARIABLES
  lLive,       \* not destroyed: there is a viewer
  lAsked,      \* what _installImagery waits for
  lLayers,     \* viewer.imageryLayers
  lClouds,     \* _cloudLayer: none, shown or hidden
  lHeight,     \* of the camera
  lVisitor,    \* the visitor's place: asked, known or not to be had
  lBeacon      \* _visitorEntities

layerVars == <<lLive, lAsked, lLayers, lClouds, lHeight, lVisitor, lBeacon>>

\* CLOUD_FADE_NEAR and CLOUD_FADE_FAR: where the clouds' alpha is above 0.02.
CloudsShow(h) == h > 930

\* updatePlaceLabels: the levels that are named at a height.
PlaceLevels(h) ==
  {level \in {"region", "country", "city", "town"} :
     CASE level = "region" -> 2600 <= h /\ h < 9000
       [] level = "country" -> 800 <= h /\ h < 5800
       [] level = "city" -> h < 2800
       [] level = "town" -> h < 950}

LayersInit ==
  /\ lLive = TRUE
  /\ lAsked = "base" /\ lLayers = <<>> /\ lClouds = "none"
  /\ lHeight = Max(Heights)
  /\ lVisitor = "asked" /\ lBeacon = FALSE

\* _onCameraChanged.
Faded(h) == IF CloudsShow(h) THEN "shown" ELSE "hidden"

CameraMoves(h) ==
  /\ lLive
  /\ lHeight' = h
  /\ lClouds' = IF lClouds = "none" THEN "none" ELSE Faded(h)
  /\ UNCHANGED <<lLive, lAsked, lLayers, lVisitor, lBeacon>>

\* _installImagery after its first await: nothing without the base.
BaseSettles ==
  /\ lAsked = "base"
  /\ \/ /\ lAsked' = IF lLive THEN "satellite" ELSE "done"
        /\ lLayers' = IF lLive THEN <<"base">> ELSE lLayers
     \/ lAsked' = "done" /\ UNCHANGED lLayers
  /\ UNCHANGED <<lLive, lClouds, lHeight, lVisitor, lBeacon>>

\* The clouds come also without the satellite's layer.
SatelliteSettles ==
  /\ lAsked = "satellite"
  /\ \/ /\ lAsked' = IF lLive THEN "clouds" ELSE "done"
        /\ lLayers' = IF lLive THEN Append(lLayers, "satellite") ELSE lLayers
     \/ lAsked' = "clouds" /\ UNCHANGED lLayers
  /\ UNCHANGED <<lLive, lClouds, lHeight, lVisitor, lBeacon>>

\* Mutant: the clouds are as opaque as they were added.
CloudsAddedOpaque(added) == IF added THEN "shown" ELSE lClouds

\* What the camera's height makes of the clouds once they are there.
CloudsAdded(added) == IF added THEN Faded(lHeight) ELSE lClouds

\* At index 2, which a checking build of Cesium refuses without the other two.
CloudsSettle ==
  /\ lAsked = "clouds" /\ lAsked' = "done"
  /\ \E added \in IF ~lLive THEN {FALSE} ELSE BOOLEAN :
       /\ lLayers' = IF added THEN Append(lLayers, "clouds") ELSE lLayers
       /\ lClouds' = CloudsAdded(added)
  /\ UNCHANGED <<lLive, lHeight, lVisitor, lBeacon>>

\* addVisitorBeacon.
VisitorBeaconAdded == lBeacon' = (lBeacon \/ lLive)

\* installVisitorBeacon after its await: asked once, and hidden without a place.
VisitorSettles ==
  /\ lVisitor = "asked"
  /\ \/ lVisitor' = "known" /\ VisitorBeaconAdded
     \/ lVisitor' = "none" /\ UNCHANGED lBeacon
  /\ UNCHANGED <<lLive, lAsked, lLayers, lClouds, lHeight>>

\* updateServers: the visitor's beacon is added if it is not there.
ListRefreshed ==
  /\ lLive
  /\ IF lVisitor = "known" /\ ~lBeacon THEN VisitorBeaconAdded ELSE UNCHANGED lBeacon
  /\ lClouds' = IF lClouds = "none" THEN "none" ELSE Faded(lHeight)
  /\ UNCHANGED <<lLive, lAsked, lLayers, lHeight, lVisitor>>

\* destroy, with the viewer all it holds.
ViewerDestroyed ==
  /\ lLive
  /\ lLive' = FALSE
  /\ lLayers' = <<>> /\ lClouds' = "none" /\ lBeacon' = FALSE
  /\ UNCHANGED <<lAsked, lHeight, lVisitor>>

LayersStep ==
  \/ \E h \in Heights : CameraMoves(h)
  \/ BaseSettles \/ SatelliteSettles \/ CloudsSettle \/ VisitorSettles
  \/ ListRefreshed \/ ViewerDestroyed

-----------------------------------------------------------------------------
LayersTypeOK ==
  /\ lLive \in BOOLEAN /\ lBeacon \in BOOLEAN /\ lHeight \in Heights
  /\ lAsked \in {"base", "satellite", "clouds", "done"}
  /\ lLayers \in {<<>>, <<"base">>, <<"base", "satellite">>, <<"base", "clouds">>,
                  <<"base", "satellite", "clouds">>}
  /\ lClouds \in {"none", "shown", "hidden"}
  /\ lVisitor \in {"asked", "known", "none"}

\* Whatever arrives late: after destroy nothing is put on the globe, clouds that
\* came while the camera was near the ground do not hide it, the visitor's beacon
\* is there exactly when the place is known, and below nine thousand kilometres
\* places of some level are named.
GlobeDressed ==
  /\ ~lLive => lLayers = <<>> /\ ~lBeacon
  /\ lClouds = "shown" => CloudsShow(lHeight)
  /\ lLive => (lBeacon <=> lVisitor = "known")
  /\ lHeight < 9000 => PlaceLevels(lHeight) # {}
=============================================================================
