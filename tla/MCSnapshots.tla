---------------------------- MODULE MCSnapshots ----------------------------
(***************************************************************************)
(* Instances of Snapshots for TLC.                                         *)
(***************************************************************************)
EXTENDS Snapshots, TLC

CONSTANTS r1, r2, c1, c2, c3, b1, b2, b3

\* Requests and repositories are interchangeable: no CHOOSE is over them.
Symmetry == Permutations(Binds) \cup Permutations(Repos)

\* An earlier service left snapshots of c1 and c2, marked at one time, and none of c3.
Left == [c \in Commits |-> IF c = c3 THEN 0 ELSE 1]
=============================================================================
