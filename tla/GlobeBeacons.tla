---------------------------- MODULE GlobeBeacons ----------------------------
(***************************************************************************)
(* The beacons on the globe: which servers share one (vpsClusters.js), what *)
(* it shows of them, and how one of them is reached from it: a fan with a  *)
(* button for each group (vpsClusterInteraction.js), then a list of the    *)
(* group's members (serverGroups.js).                                      *)
(*                                                                         *)
(* Places are points of a line, in units small enough for centroids to     *)
(* drift while members join.  Colours and the layout of the fan are left   *)
(* out.                                                                    *)
(***************************************************************************)
EXTENDS Integers, Sequences, FiniteSets, SequencesExt, OrderedSets

CONSTANTS
  Server,      \* identifiers there may be, which are numbers
  Places,      \* where a server may be
  Nowhere,     \* coordinates that are missing or out of range
  Reach,       \* VPS_CLUSTER_DISTANCE_KM
  GroupOf,     \* each server's [group, purpose, number]: number 0 when not stored
  Statuses     \* what a server may be: online, warn, offline

ASSUME BeaconAssumption ==
  /\ Server \subseteq Nat /\ IsFiniteSet(Server) /\ Places \subseteq Int
  /\ Nowhere \notin Places /\ Reach \in Nat
  /\ Statuses \subseteq {"online", "warn", "offline"}

VARIABLES
  kServers,    \* state.servers: the place and the status of each
  kBeacons,    \* the beacons built from it
  kFan,        \* the fan: its beacon's key, and the members behind each button
  kHidden,     \* _hiddenClusterFanoutVisuals: the keys hidden under the fan
  kPicker,     \* clusterPicker: the members behind each heading
  kOpened      \* the server whose page was opened

beaconVars == <<kServers, kBeacons, kFan, kHidden, kPicker, kOpened>>

NoFan == [key |-> <<>>, buttons |-> {}]
Distance(a, b) == IF a > b THEN a - b ELSE b - a

\* sortServers, sortClusterMembers.
ById(ids) == Ascending(ids)

Usable(list) == {s \in DOMAIN list : list[s].place # Nowhere}

Together(list, members) ==
  SumOver([i \in DOMAIN members |-> list[members[i]].place], DOMAIN members)

\* Whether a server is within reach of the members' centroid.
Near(list, s, members) ==
  Distance(list[s].place * Len(members), Together(list, members)) <= Reach * Len(members)

\* Mutant: it joins every group it is near to.
JoinAll(list, groups, s) ==
  IF \E i \in DOMAIN groups : Near(list, s, groups[i])
  THEN [i \in DOMAIN groups |-> IF Near(list, s, groups[i]) THEN Append(groups[i], s)
                                ELSE groups[i]]
  ELSE Append(groups, <<s>>)

\* The first group it is near to, which moves with it; or one of its own.
Join(list, groups, s) ==
  IF \E i \in DOMAIN groups : Near(list, s, groups[i])
  THEN LET first == CHOOSE i \in DOMAIN groups :
                      /\ Near(list, s, groups[i])
                      /\ \A j \in DOMAIN groups : Near(list, s, groups[j]) => i <= j
       IN  [groups EXCEPT ![first] = Append(@, s)]
  ELSE Append(groups, <<s>>)

\* clusterServersByCoordinate: the members of each cluster, and its key, which is
\* the centroid; a server without coordinates is by itself.
Clusters(list) ==
  LET order == ById(Usable(list))
      found[i \in 0..Len(order)] == IF i = 0 THEN <<>> ELSE Join(list, found[i - 1], order[i])
      groups == found[Len(order)]
  IN  {[key |-> <<"cluster", (60 * Together(list, groups[i])) \div Len(groups[i])>>,
        members |-> groups[i]] : i \in DOMAIN groups}
        \union {[key |-> <<"invalid", s>>, members |-> <<s>>] :
                  s \in DOMAIN list \ Usable(list)}

\* aggregateClusterStatus.
Aggregate(list, members) ==
  LET seen == {list[s].status : s \in ToSet(members)}
  IN  IF seen = {"offline"} THEN "offline"
      ELSE IF seen \intersect {"warn", "offline"} # {} THEN "warn" ELSE "online"

\* The members of a sequence, by a key that each server has.
Parted(members, key) ==
  {Picked(members, {i \in DOMAIN members : key[members[i]] = k}) :
     k \in {key[s] : s \in ToSet(members)}}

\* buildClusterBeaconAppearance: by group and purpose.
Sectors(members) ==
  Parted(members, [s \in Server |-> <<GroupOf[s].group, GroupOf[s].purpose>>])

\* buildClusterScreenFanout: by the number of the group, else by its name.
Buttons(members) ==
  Parted(members, [s \in Server |-> IF GroupOf[s].number > 0 THEN <<"id", GroupOf[s].number>>
                                    ELSE <<"name", GroupOf[s].group>>])

\* groupClusterMembers of serverGroups.js.
Headings(members) ==
  Parted(members, [s \in Server |-> <<GroupOf[s].group, GroupOf[s].purpose>>])

\* rebuildVpsEntities.
Beacons(list) ==
  {[key |-> c.key, members |-> c.members, status |-> Aggregate(list, c.members),
    sectors |-> IF Len(c.members) > 1 THEN Sectors(c.members) ELSE {}] : c \in Clusters(list)}

-----------------------------------------------------------------------------
BeaconInit ==
  /\ kServers = <<>> /\ kBeacons = {}
  /\ kFan = NoFan /\ kHidden = {} /\ kPicker = {} /\ kOpened = 0

\* updateServers with a list that differs in one server.  The member list stays.
ListUpdated(list) ==
  /\ kOpened = 0
  /\ kServers' = list /\ kBeacons' = Beacons(list)
  /\ kFan' = NoFan /\ kHidden' = {}
  /\ UNCHANGED <<kPicker, kOpened>>

ServerListed(s, entry) ==
  ListUpdated([t \in DOMAIN kServers \union {s} |-> IF t = s THEN entry ELSE kServers[t]])

ServerGone(s) ==
  /\ s \in DOMAIN kServers
  /\ ListUpdated([t \in DOMAIN kServers \ {s} |-> kServers[t]])

\* handleGlobeNodeSelection, of a beacon or its label: the cluster there is now.
SelectBeacon(s) ==
  /\ kOpened = 0 /\ s \in DOMAIN kServers
  /\ \E c \in Clusters(kServers) :
       /\ s \in ToSet(c.members)
       /\ IF Len(c.members) = 1
          THEN /\ kOpened' = s /\ kFan' = NoFan /\ kHidden' = {} /\ kPicker' = {}
          ELSE /\ kFan' = [key |-> c.key, buttons |-> Buttons(c.members)]
               /\ kHidden' = {b.key : b \in {d \in kBeacons : d.key = c.key}}
               /\ UNCHANGED <<kOpened, kPicker>>
  /\ UNCHANGED <<kServers, kBeacons>>

\* A button of the fan: showClusterMemberPicker.  The fan stays.
PressButton(members) ==
  /\ kOpened = 0 /\ members \in kFan.buttons
  /\ kPicker' = Headings(members)
  /\ UNCHANGED <<kServers, kBeacons, kFan, kHidden, kOpened>>

OpenMember(s) ==
  /\ kOpened = 0 /\ \E members \in kPicker : s \in ToSet(members)
  /\ kOpened' = s
  /\ UNCHANGED <<kServers, kBeacons, kFan, kHidden, kPicker>>

\* closeClusterInteraction: the list's button, or a click beside the beacons.
CloseInteraction ==
  /\ kOpened = 0
  /\ kFan' = NoFan /\ kHidden' = {} /\ kPicker' = {}
  /\ UNCHANGED <<kServers, kBeacons, kOpened>>

BeaconStep ==
  \/ \E s \in Server :
       \/ \E entry \in [place : Places \union {Nowhere}, status : Statuses] :
            ServerListed(s, entry)
       \/ ServerGone(s) \/ SelectBeacon(s) \/ OpenMember(s)
  \/ \E members \in kFan.buttons : PressButton(members)
  \/ CloseInteraction

-----------------------------------------------------------------------------
BeaconTypeOK ==
  /\ DOMAIN kServers \subseteq Server
  /\ \A s \in DOMAIN kServers : /\ kServers[s].place \in Places \union {Nowhere}
                                /\ kServers[s].status \in Statuses
  /\ kOpened \in Server \union {0}

\* Once and only once in a set of sequences.
ExactlyOnce(s, parts) ==
  Cardinality({part \in parts : s \in ToSet(part)}) = 1
    /\ \A part \in parts : Cardinality({i \in DOMAIN part : part[i] = s}) <= 1

\* However clusters drift while they grow, every server of the list has one
\* beacon, which is green only if all of its servers are online and red only if
\* none is; it is in one of its sectors, and behind one button of its fan and one
\* heading of that button's list.  What is hidden is under the fan that is open.
OneBeaconEach ==
  /\ \A s \in DOMAIN kServers : ExactlyOnce(s, {b.members : b \in kBeacons})
  /\ \A b \in kBeacons :
       /\ b.status = "online" <=> \A s \in ToSet(b.members) : kServers[s].status = "online"
       /\ b.status = "offline" <=> \A s \in ToSet(b.members) : kServers[s].status = "offline"
       /\ Len(b.members) > 1 => \A s \in ToSet(b.members) :
            /\ ExactlyOnce(s, b.sectors)
            /\ ExactlyOnce(s, Buttons(b.members))
            /\ \A button \in Buttons(b.members) :
                 s \in ToSet(button) => ExactlyOnce(s, Headings(button))
  /\ kHidden = {} <=> kFan = NoFan
  /\ kHidden # {} => \E b \in kBeacons : /\ kHidden = {b.key} /\ kFan.key = b.key
                                         /\ kFan.buttons = Buttons(b.members)
=============================================================================
