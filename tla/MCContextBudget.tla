-------------------------- MODULE MCContextBudget --------------------------
(***************************************************************************)
(* Instances of ContextBudget for TLC.                                     *)
(***************************************************************************)
EXTENDS ContextBudget, TLC

Same(n) == [p \in Parts |-> n]

DefaultLimits == {[include |-> Parts, limit |-> Same(0)]}

\* The default limits; small ones; limits near the length of a marker; and a
\* diff alone, with a limit whose quarter is more than 2400.
AllLimits == DefaultLimits \cup
    {[include |-> Parts, limit |-> Same(1000)],
     [include |-> {"body", "diff"}, limit |-> Same(150)], [include |-> {"diff"}, limit |-> Same(12000)]}
=============================================================================
