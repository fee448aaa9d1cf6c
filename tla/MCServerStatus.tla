--------------------------- MODULE MCServerStatus ---------------------------
(* Instances of ServerStatus for TLC. *)
EXTENDS ServerStatus, TLC

CONSTANTS p1, p2

OneScheduler == {p1}
TwoSchedulers == {p1, p2}

Binary == {"online", "offline", "unknown"}

\* A host that refuses the connection.
DeadPing == {"offline"}
NoProbe == {}
DeadProbe == {"error"}
FlakyProbe == {"error", "same", "online", "offline"}

Symmetry == Permutations(Scheduler)
=============================================================================
