---------------------------- MODULE MCJobQueue ----------------------------
(***************************************************************************)
(* Instances of JobQueue for TLC.                                          *)
(***************************************************************************)
EXTENDS JobQueue, TLC

CONSTANTS i1, h1, h2, w1, w2

\* One item: every job has the same priority.
OnePriority == i1 :> 1

\* Slots and hashes are interchangeable; NoSlot and NoHash are not members.
SlotHashSymmetry == Permutations(Slots) \cup Permutations(Hashes)

\* For two slots under fairness: h1 is what a source reports, open or closed, and
\* h2 what another one hydrates; h1 may come late.
Reports(i) ==
    \/ IngestOpen(i, h1, 1)
    \/ IngestSuppressed(i, h1, 1)
    \/ \E u \in 1..MaxUpdate : IngestQuiet(i, h2, u)

ReportsNext ==
    \/ \E i \in Items : Reports(i)
    \/ \E w \in Slots : Poll(w) \/ Work(w) \/ Stop(w)
    \/ Time
    \/ Requeue
    \/ \E j \in Jobs : NotesSettle(j)

ReportsSpec == Init /\ [][ReportsNext]_vars /\ Fairness
=============================================================================
