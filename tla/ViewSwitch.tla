----------------------------- MODULE ViewSwitch -----------------------------
(***************************************************************************)
(* What the home page promises about its two scenes: one of them is shown, *)
(* the solar system is animated exactly while it is the one, and the ship  *)
(* stands beside the earth only.                                           *)
(***************************************************************************)
VARIABLES view, animated, ship

viewVars == <<view, animated, ship>>

Init == view = "solar" /\ animated = TRUE /\ ship = FALSE

\* With the ship, or without it on a small screen and when it could not be had.
ShowEarth ==
  /\ view = "solar"
  /\ view' = "earth" /\ animated' = FALSE /\ ship' \in BOOLEAN

ShowSolar ==
  /\ view = "earth"
  /\ view' = "solar" /\ animated' = TRUE /\ ship' = FALSE

Next == ShowEarth \/ ShowSolar

Spec == Init /\ [][Next]_viewVars
=============================================================================
