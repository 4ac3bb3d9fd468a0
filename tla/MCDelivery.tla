---------------------------- MODULE MCDelivery ----------------------------
(***************************************************************************)
(* Instances of Delivery for TLC.                                          *)
(***************************************************************************)
EXTENDS Delivery, TLC

CONSTANTS i1, i2, h1, h2, w1, w2

\* Slots, items and hashes are interchangeable: no CHOOSE is over them.
Symmetry == Permutations(Slots) \cup Permutations(Hashes) \cup Permutations(Items)
=============================================================================
