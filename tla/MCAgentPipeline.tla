-------------------------- MODULE MCAgentPipeline --------------------------
(***************************************************************************)
(* Instances of AgentPipeline for TLC.                                     *)
(***************************************************************************)
EXTENDS AgentPipeline, TLC

\* Readings with a first total of 0 or not, growth, idle links and reboots (a
\* lower reading).
MixedTraces == {f \in [1..MaxPush -> 0..2] : f[1] < 2 /\ f[2] > 0}

SteadyTraces == {[n \in 1..MaxPush |-> n]}

Symmetry == Permutations(Thread)
=============================================================================
