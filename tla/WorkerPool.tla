----------------------------- MODULE WorkerPool -----------------------------
(***************************************************************************)
(* RunWorker of internal/localpager: the goroutines of one worker process, *)
(* the counters they share behind one mutex, the first error, and the      *)
(* context that ends them all.  What a claimed job's row goes through is   *)
(* JobQueue; here a job is waiting, held by a slot, left leased by a slot  *)
(* that could not write, or away (settled, delayed, another process's).    *)
(***************************************************************************)
EXTENDS Integers, FiniteSets

CONSTANTS
    Slots,          \* goroutines: WorkerOptions.MaxConcurrency of them
    Jobs,
    MaxLimit,       \* bound on WorkerOptions.Limit
    MaxTries,       \* attempts of retrySQLiteBusy
    MaxArrivals,    \* bound on how often jobs become claimable
    NoJob

ASSUME PoolAssumption ==
    /\ IsFiniteSet(Slots) /\ Slots # {}
    /\ MaxLimit \in Nat
    /\ MaxTries \in Nat \ {0}
    /\ MaxArrivals \in Nat
    /\ NoJob \notin Jobs

VARIABLES
    opts,       \* WorkerOptions: Limit (0 is none) and Once
    job,        \* where each job is
    arrivals,   \* number of times a job became claimable
    slot,       \* what each goroutine is doing
    stats,      \* workerRunState.stats
    reserved,   \* workerRunState.reserved
    firstError, \* workerRunState.firstError
    canceled,   \* is runCtx done?
    byCaller,   \* history: the caller cancelled, not a slot
    foundEmpty, \* history: slots whose last claim found nothing
    stored      \* history: results stored by this run

vars == <<opts, job, arrivals, slot, stats, reserved, firstError, canceled,
          byCaller, foundEmpty, stored>>
shared == <<stats, reserved, firstError, canceled>>
history == <<byCaller, foundEmpty, stored>>
-----------------------------------------------------------------------------
\* Whether SQLite or Discord failed makes no difference here.
Errors == {"none", "failure", "canceled"}

Pcs == {"starting", "claiming", "claimed", "unclaimed", "failing", "cancelling",
        "sending", "sleeping", "working", "following", "ended"}

SlotState == [pc: Pcs, job: Jobs \cup {NoJob}, tries: Nat, error: Errors]

At(w, pc) == slot[w].pc = pc

Init ==
    /\ opts \in [limit: 0..MaxLimit, once: BOOLEAN]
    /\ job \in [Jobs -> {"waiting", "away"}]
    /\ arrivals = 0
    /\ slot = [w \in Slots |-> [pc |-> "starting", job |-> NoJob, tries |-> 0, error |-> "none"]]
    /\ stats = [claimed |-> 0, succeeded |-> 0, failed |-> 0]
    /\ reserved = 0
    /\ firstError = "none"
    /\ canceled = FALSE
    /\ byCaller = FALSE
    /\ foundEmpty = {}
    /\ stored = 0

\* Every step starts a new round of retries; the job in hand stays.
Go(w, pc) == slot' = [slot EXCEPT ![w].pc = pc, ![w].tries = 0]
-----------------------------------------------------------------------------
(* The loop's head: is the context done, is there room below the limit? *)

\* Faulty variant: reservations of other slots do not count.
RoomForClaimed == opts.limit = 0 \/ stats.claimed < opts.limit

Room == opts.limit = 0 \/ stats.claimed + reserved < opts.limit

Leave(w) ==
    /\ At(w, "starting")
    /\ canceled \/ ~Room
    /\ Go(w, "ended")
    /\ UNCHANGED <<opts, job, arrivals, shared, history>>

ReserveClaim(w) ==
    /\ At(w, "starting")
    /\ ~canceled
    /\ Room
    /\ reserved' = IF opts.limit = 0 THEN reserved ELSE reserved + 1
    /\ Go(w, "claiming")
    /\ UNCHANGED <<opts, job, arrivals, stats, firstError, canceled, history>>
-----------------------------------------------------------------------------
(* Statements under retrySQLiteBusy *)

\* SQLite is busy: wait and try again, MaxTries times in all.
Busy(w) ==
    /\ slot[w].pc \in {"claiming", "sending", "following"}
    /\ slot[w].tries + 1 < MaxTries
    /\ ~canceled
    /\ slot' = [slot EXCEPT ![w].tries = @ + 1]
    /\ UNCHANGED <<opts, job, arrivals, shared, history>>

\* A statement, or SendPendingDiscord, ends with an error of its own or, once
\* the context is done, with the context's.
Fails(w, pc) == \E e \in {"failure"} \cup (IF canceled THEN {"canceled"} ELSE {}) :
    slot' = [slot EXCEPT ![w].pc = pc, ![w].tries = 0, ![w].error = e]

Claim(w, j) ==
    /\ At(w, "claiming")
    /\ ~canceled
    /\ job[j] = "waiting"
    /\ job' = [job EXCEPT ![j] = "held"]
    /\ slot' = [slot EXCEPT ![w].pc = "claimed", ![w].tries = 0, ![w].job = j]
    /\ foundEmpty' = foundEmpty \ {w}
    /\ UNCHANGED <<opts, arrivals, shared, byCaller, stored>>

ClaimNothing(w) ==
    /\ At(w, "claiming")
    /\ ~canceled
    /\ \A j \in Jobs : job[j] # "waiting"
    /\ Go(w, "claimed")
    /\ foundEmpty' = foundEmpty \cup {w}
    /\ UNCHANGED <<opts, job, arrivals, shared, byCaller, stored>>

ClaimFails(w) ==
    /\ At(w, "claiming")
    /\ Fails(w, "unclaimed")
    /\ UNCHANGED <<opts, job, arrivals, shared, history>>

\* Faulty variant: the reservation is kept.
FinishClaimKeeps(n) ==
    /\ stats' = [stats EXCEPT !.claimed = @ + n]
    /\ UNCHANGED reserved

FinishClaim(n) ==
    /\ stats' = [stats EXCEPT !.claimed = @ + n]
    /\ reserved' = IF reserved > 0 THEN reserved - 1 ELSE 0

CountClaim(w) ==
    /\ At(w, "claimed")
    /\ FinishClaim(IF slot[w].job = NoJob THEN 0 ELSE 1)
    /\ Go(w, IF slot[w].job = NoJob THEN "sending" ELSE "working")
    /\ UNCHANGED <<opts, job, arrivals, firstError, canceled, history>>

ReturnClaim(w) ==
    /\ At(w, "unclaimed")
    /\ FinishClaim(0)
    /\ Go(w, "failing")
    /\ UNCHANGED <<opts, job, arrivals, firstError, canceled, history>>
-----------------------------------------------------------------------------
(* No job: send notifications, then end or sleep *)

\* Faulty variant: a limited run waits for more.
StaysUnlessOnce == ~opts.once

Stays == ~opts.once /\ opts.limit = 0

\* With sending off nothing is asked of the context.
SendPending(w) ==
    /\ At(w, "sending")
    /\ Go(w, IF Stays THEN "sleeping" ELSE "ended")
    /\ UNCHANGED <<opts, job, arrivals, shared, history>>

SendFails(w) ==
    /\ At(w, "sending")
    /\ Fails(w, "failing")
    /\ UNCHANGED <<opts, job, arrivals, shared, history>>

\* timing.SleepContext: the timer, or the context, whichever comes first.
Wake(w) ==
    /\ At(w, "sleeping")
    /\ \/ Go(w, "starting")
       \/ canceled /\ Go(w, "ended")
    /\ UNCHANGED <<opts, job, arrivals, shared, history>>

\* Faulty variant: the last error counts.
SetErrorLast(w) ==
    /\ At(w, "failing")
    /\ firstError' = slot[w].error
    /\ Go(w, "cancelling")
    /\ UNCHANGED <<opts, job, arrivals, stats, reserved, canceled, history>>

SetError(w) ==
    /\ At(w, "failing")
    /\ firstError' = IF firstError = "none" THEN slot[w].error ELSE firstError
    /\ Go(w, "cancelling")
    /\ UNCHANGED <<opts, job, arrivals, stats, reserved, canceled, history>>

\* Faulty variant: the slot ends, and nobody else is told.
CancelForgotten(w) ==
    /\ At(w, "cancelling")
    /\ Go(w, "ended")
    /\ UNCHANGED <<opts, job, arrivals, shared, history>>

Cancel(w) ==
    /\ At(w, "cancelling")
    /\ canceled' = TRUE
    /\ Go(w, "ended")
    /\ UNCHANGED <<opts, job, arrivals, stats, reserved, firstError, history>>
-----------------------------------------------------------------------------
(* processJob *)

\* The job in hand is done with: where it is now, and the loop goes on.
PutDown(w, place, pc) ==
    /\ job' = [job EXCEPT ![slot[w].job] = place]
    /\ slot' = [slot EXCEPT ![w].pc = pc, ![w].job = NoJob]

\* The result is stored; the slot sends notifications before it counts it.
Finalize(w) ==
    /\ At(w, "working")
    /\ ~canceled
    /\ PutDown(w, "away", "following")
    /\ stored' = stored + 1
    /\ UNCHANGED <<opts, arrivals, shared, byCaller, foundEmpty>>

\* Faulty variant: a context that is done by now keeps the result from being
\* counted.
SendAfterFinalizeUnlessCanceled(w) ==
    /\ At(w, "following")
    /\ stats' = IF canceled THEN stats ELSE [stats EXCEPT !.succeeded = @ + 1]
    /\ Go(w, "starting")
    /\ UNCHANGED <<opts, job, arrivals, reserved, firstError, canceled, history>>

\* sendPendingAfterFinalize, whatever it ends with: its error is dropped.
SendAfterFinalize(w) ==
    /\ At(w, "following")
    /\ stats' = [stats EXCEPT !.succeeded = @ + 1]
    /\ Go(w, "starting")
    /\ UNCHANGED <<opts, job, arrivals, reserved, firstError, canceled, history>>

\* The classifier failed, or its endpoint is down, and the row says so.
Reject(w) ==
    /\ At(w, "working")
    /\ ~canceled
    /\ PutDown(w, "away", "starting")
    /\ stats' = [stats EXCEPT !.failed = @ + 1]
    /\ UNCHANGED <<opts, arrivals, reserved, firstError, canceled, history>>

\* The job's row is no longer this slot's to write, or it was superseded.
Drop(w) ==
    /\ At(w, "working")
    /\ ~canceled
    /\ PutDown(w, "away", "starting")
    /\ UNCHANGED <<opts, arrivals, shared, history>>

\* The update after a failed classification fails, as it must once the context
\* is done: the job stays leased and is not counted.
Abandon(w) ==
    /\ At(w, "working")
    /\ PutDown(w, "leased", "starting")
    /\ UNCHANGED <<opts, arrivals, shared, history>>

\* The result cannot be stored: the job counts as failed whether or not
\* markJobFailed succeeds.
PersistFails(w) ==
    /\ At(w, "working")
    /\ \/ PutDown(w, "leased", "starting")
       \/ ~canceled /\ PutDown(w, "away", "starting")
    /\ stats' = [stats EXCEPT !.failed = @ + 1]
    /\ UNCHANGED <<opts, arrivals, reserved, firstError, canceled, history>>
-----------------------------------------------------------------------------
(* The world around the pool *)

\* A job is enqueued or requeued, its delay is over or its lease ran out.
Arrive(j) ==
    /\ arrivals < MaxArrivals
    /\ job[j] \in {"away", "leased"}
    /\ arrivals' = arrivals + 1
    /\ job' = [job EXCEPT ![j] = "waiting"]
    /\ UNCHANGED <<opts, slot, shared, history>>

\* Another worker process claims it, or a source closes its item.
Vanish(j) ==
    /\ job[j] = "waiting"
    /\ job' = [job EXCEPT ![j] = "away"]
    /\ UNCHANGED <<opts, arrivals, slot, shared, history>>

CallerCancels ==
    /\ ~canceled
    /\ canceled' = TRUE
    /\ byCaller' = TRUE
    /\ UNCHANGED <<opts, job, arrivals, slot, stats, reserved, firstError, foundEmpty, stored>>
-----------------------------------------------------------------------------
Loop(w) ==
    \/ Leave(w) \/ ReserveClaim(w) \/ Busy(w)
    \/ ClaimNothing(w) \/ ClaimFails(w) \/ CountClaim(w) \/ ReturnClaim(w)
    \/ SendPending(w) \/ SendFails(w) \/ Wake(w) \/ SetError(w) \/ Cancel(w)
    \/ \E j \in Jobs : Claim(w, j)

Work(w) ==
    \/ Finalize(w) \/ SendAfterFinalize(w) \/ Reject(w)
    \/ Drop(w) \/ Abandon(w) \/ PersistFails(w)

Next ==
    \/ \E w \in Slots : Loop(w) \/ Work(w)
    \/ \E j \in Jobs : Arrive(j) \/ Vanish(j)
    \/ CallerCancels

Spec == Init /\ [][Next]_vars

\* Goroutines are scheduled, statements and classifiers end (the classifier at
\* its lease's end or with the context), and timers fire.
Fairness == \A w \in Slots : WF_vars(Loop(w) \/ Work(w))

FairSpec == Spec /\ Fairness
-----------------------------------------------------------------------------
(* Properties *)

TypeOK ==
    /\ opts \in [limit: 0..MaxLimit, once: BOOLEAN]
    /\ job \in [Jobs -> {"waiting", "held", "leased", "away"}]
    /\ arrivals \in 0..MaxArrivals
    /\ slot \in [Slots -> SlotState]
    /\ stats \in [claimed: Nat, succeeded: Nat, failed: Nat]
    /\ reserved \in Nat
    /\ firstError \in Errors
    /\ canceled \in BOOLEAN /\ byCaller \in BOOLEAN
    /\ foundEmpty \subseteq Slots
    /\ stored \in Nat

Ended == \A w \in Slots : At(w, "ended")

\* Slots that hold a reservation, and those whose claim is not counted yet.
Reserving == {w \in Slots : slot[w].pc \in {"claiming", "claimed", "unclaimed"}}
Uncounted == {w \in Slots : At(w, "claimed") /\ slot[w].job # NoJob}

\* However the slots' claims interleave, no more jobs are claimed in the
\* database than the limit allows.
LimitKept == opts.limit > 0 => stats.claimed + Cardinality(Uncounted) <= opts.limit

\* A run that nobody cancelled ends only with its limit used up, or, where the
\* options let it end at all, after a claim that found nothing: no slot gives
\* up for a reservation that another slot returns with work left in the queue.
EndsForAReason == Ended /\ ~canceled =>
    \/ opts.limit > 0 /\ stats.claimed = opts.limit
    \/ (opts.once \/ opts.limit > 0) /\ foundEmpty # {}

\* The error RunWorker reports is what ended the run: never the cancellation
\* that another slot's error caused, and never nothing.
FirstErrorIsTheCause ==
    /\ firstError = "canceled" => byCaller
    /\ canceled /\ ~byCaller => firstError = "failure"

\* Every result that is stored is counted as succeeded when the run returns,
\* also if the run was cancelled between the two.
StoredIsCounted == Ended => stats.succeeded = stored

\* One slot's error ends all of them: they neither sleep nor claim on.
ErrorEndsRun == (firstError # "none") ~> Ended

\* With a limit or once, a run ends by itself when nothing more arrives.
LimitedRunEnds == (opts.once \/ opts.limit > 0) ~> Ended
=============================================================================
