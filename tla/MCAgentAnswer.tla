---------------------------- MODULE MCAgentAnswer ---------------------------
(***************************************************************************)
(* Instances of AgentAnswer for TLC.                                       *)
(***************************************************************************)
EXTENDS AgentAnswer, TLC

CONSTANTS r1, r2, d1, d2

Symmetry == Permutations(Runs) \cup Permutations(Dirs)
=============================================================================
