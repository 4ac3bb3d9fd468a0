---------------------------- MODULE JobLifecycle ----------------------------
(***************************************************************************)
(* The life of a classification job, as its sources and operators may rely *)
(* on it: no leases, no workers and no time.  A job that is queued is      *)
(* taken at most a given number of times before it is done, set aside or   *)
(* given up; a try is forgotten only by queueing the job anew, or handed   *)
(* back because it was not the job's fault.  It is done with one result,   *)
(* out of the hands it was in, and comes back only by being queued.        *)
(***************************************************************************)
EXTENDS Integers

CONSTANT MaxTries   \* how often the job may be taken

VARIABLES
    phase,      \* "unknown", "queued", "taken", "done", "aside" or "givenUp"
    tries,      \* how often it has been taken since it was queued
    results     \* how many results it has since then

vars == <<phase, tries, results>>

Init == phase = "unknown" /\ tries = 0 /\ results = 0

\* Wherever the job is in its life: a failed, lost or finished try is forgotten.
Queue ==
    /\ phase' = "queued"
    /\ tries' = 0
    /\ results' = 0

\* A job may be on record only.
Record ==
    /\ phase = "unknown"
    /\ phase' = "aside"
    /\ UNCHANGED <<tries, results>>

Take ==
    /\ phase = "queued" /\ tries < MaxTries
    /\ phase' = "taken"
    /\ tries' = tries + 1
    /\ UNCHANGED results

Finish ==
    /\ phase = "taken" /\ results = 0
    /\ phase' = "done"
    /\ results' = 1
    /\ UNCHANGED tries

HandBack ==
    /\ phase = "taken"
    /\ phase' = "queued"
    /\ tries' = tries - 1
    /\ UNCHANGED results

Retry ==
    /\ phase = "taken" /\ tries < MaxTries
    /\ phase' = "queued"
    /\ UNCHANGED <<tries, results>>

GiveUp ==
    /\ phase = "taken" /\ tries = MaxTries
    /\ phase' = "givenUp"
    /\ UNCHANGED <<tries, results>>

SetAside ==
    /\ phase \in {"queued", "taken"}
    /\ phase' = "aside"
    /\ UNCHANGED <<tries, results>>

\* What sources and operators ask for, and what the workers make of it.
Asked == Queue \/ Record \/ SetAside
Handled == Take \/ Finish \/ HandBack \/ Retry \/ GiveUp \/ SetAside

Next == Asked \/ Handled

Spec == Init /\ [][Next]_vars
=============================================================================
