------------------------------ MODULE JobQueue ------------------------------
(***************************************************************************)
(* The classification queue of internal/localpager: the rows of            *)
(* localpager_items and localpager_jobs, the sources that ingest items,    *)
(* the worker slots that claim, classify and finalize jobs, the operator's *)
(* requeue command, crashes and the passing of time.  Every action is one  *)
(* SQLite statement or one transaction: SQLite runs them one at a time,    *)
(* and the slots, of one worker process or of several, interleave between  *)
(* them.                                                                   *)
(***************************************************************************)
EXTENDS Integers

CONSTANTS
    Items,          \* items, identified by (source, type, ref)
    Hashes,         \* content hashes an item can have
    Slots,          \* worker slots: goroutines running runWorkerSlot
    MaxAttempts,    \* WorkerOptions.MaxAttempts
    MaxUpdate,      \* bound on source_updated_at
    Priority,       \* the priority each item's jobs are enqueued with
    RequeueStatuses,\* what operators pass to requeue-jobs --status
    PersistErrors,  \* may persistJobResult fail with a database error?
    NoHash, NoSlot, NoJob

ASSUME ConstantsAssumption ==
    /\ MaxAttempts \in Nat \ {0}
    /\ MaxUpdate \in Nat
    /\ Priority \in [Items -> Nat]
    /\ PersistErrors \in BOOLEAN
    /\ NoHash \notin Hashes
    /\ NoSlot \notin Slots
    /\ NoJob \notin Items \X Hashes
    /\ RequeueStatuses \subseteq {"pending", "running", "succeeded", "skipped", "dead"}

VARIABLES
    item,       \* localpager_items: latest_content_hash, source_updated_at
    job,        \* localpager_jobs: one row for each item and content hash
    slot,       \* what each worker slot is doing, and the ClaimedJob it holds
    openNotes,  \* jobs with a notification in status pending or sending
    produced,   \* history: results stored since the job was last queued
    seen,       \* history: what the last observation that counted said of the item
    newest,     \* history: the most recent source_updated_at, and what had it
    wanted      \* history: jobs some unsuppressed, notifying ingest asked for

dbVars == <<item, job, openNotes>>
history == <<produced, seen, newest, wanted>>
vars == <<item, job, slot, openNotes, produced, seen, newest, wanted>>
-----------------------------------------------------------------------------
Jobs == Items \X Hashes

Statuses == {"absent", "pending", "running", "succeeded", "skipped", "dead"}
Reasons == {"none", "error", "source_suppressed", "superseded_content_hash"}

\* leased_until is the claim's ownership token: it equals the lease of the
\* slot that made the claim and no other's, for a later claim of the same job
\* is made after the earlier lease ended.  "expired" says it lies in the past;
\* "delayed" says run_after lies in the future.
JobRow == [status: Statuses, attempts: Nat, lease: Slots \cup {NoSlot},
           expired: BOOLEAN, delayed: BOOLEAN, reason: Reasons, quiet: BOOLEAN]

AbsentRow == [status |-> "absent", attempts |-> 0, lease |-> NoSlot,
              expired |-> FALSE, delayed |-> FALSE, reason |-> "none", quiet |-> FALSE]

Pcs == {"idle", "reaping", "sweeping", "claiming", "classifying", "broken", "overwriting"}

SlotState == [pc: Pcs, job: Jobs \cup {NoJob}, attempts: Nat, quiet: BOOLEAN]

IdleSlot == [pc |-> "idle", job |-> NoJob, attempts |-> 0, quiet |-> FALSE]

Init ==
    /\ item = [i \in Items |-> [hash |-> NoHash, updated |-> 0]]
    /\ job = [j \in Jobs |-> AbsentRow]
    /\ slot = [w \in Slots |-> IdleSlot]
    /\ openNotes = {}
    /\ produced = [j \in Jobs |-> 0]
    /\ seen = [i \in Items |-> "nothing"]
    /\ newest = [i \in Items |-> [updated |-> 0, hashes |-> {}]]
    /\ wanted = {}

\* The job's content hash is still the item's latest one.
Current(j) == item[j[1]].hash = j[2]

\* The row a job is left in once nobody holds its lease.
Released(row, status) == [row EXCEPT !.status = status, !.lease = NoSlot, !.expired = FALSE]

\* Faulty variant: requeueing forgets leased_until.
QueuedKeepsLease(row) ==
    [row EXCEPT !.status = "pending", !.attempts = 0, !.delayed = FALSE, !.reason = "none"]

Queued(row) == [Released(row, "pending") EXCEPT !.attempts = 0, !.delayed = FALSE, !.reason = "none"]

Skipped(row, reason) == [Released(row, "skipped") EXCEPT !.delayed = FALSE, !.reason = reason]
-----------------------------------------------------------------------------
(* The sources: Ingest *)

\* Faulty variant: the last observation to arrive wins.
UpsertedAlways(i, h, u) == [hash |-> h, updated |-> u]

\* An observation at least as recent as the stored one replaces it.
Upserted(i, h, u) == IF u >= item[i].updated THEN [hash |-> h, updated |-> u] ELSE item[i]

\* upsertGenericItem, and what the histories make of the observation.  One of
\* content that is not the latest does not count as the item's last.
Observe(i, h, u, kind) ==
    /\ item' = [item EXCEPT ![i] = Upserted(i, h, u)]
    /\ seen' = IF Upserted(i, h, u).hash = h THEN [seen EXCEPT ![i] = kind] ELSE seen
    /\ newest' = [newest EXCEPT ![i] =
                    CASE u > @.updated -> [updated |-> u, hashes |-> {h}]
                      [] u = @.updated -> [@ EXCEPT !.hashes = @ \cup {h}]
                      [] OTHER -> @]

\* Faulty variant: a job skipped as superseded is not brought back.
ReactivatableUnlessSuperseded(row) ==
    row.status = "skipped" /\ row.reason = "source_suppressed"

\* A job that suppression or a newer content hash had skipped.
Reactivatable(row) ==
    /\ row.status = "skipped"
    /\ row.reason \in {"source_suppressed", "superseded_content_hash"}

\* An open item seen by a polling source: its job is inserted or brought back.
IngestOpen(i, h, u) ==
    LET j == <<i, h>>
        queues == job[j].status = "absent" \/ Reactivatable(job[j])
    IN /\ Observe(i, h, u, "open")
       /\ job' = IF queues THEN [job EXCEPT ![j] = [Queued(@) EXCEPT !.quiet = FALSE]] ELSE job
       /\ produced' = IF queues THEN [produced EXCEPT ![j] = 0] ELSE produced
       /\ wanted' = wanted \cup {j}
       /\ UNCHANGED <<slot, openNotes>>

\* Faulty variant: a hydrated job is queued like any other.
HydratedRowQueued == [AbsentRow EXCEPT !.status = "pending"]

HydratedRow == [AbsentRow EXCEPT !.status = "skipped", !.quiet = TRUE]

\* Initial hydration, and items older than the cutover: a job row is recorded
\* as skipped with a notification suppression reason; existing rows stay.
IngestQuiet(i, h, u) ==
    LET j == <<i, h>>
    IN /\ Observe(i, h, u, "quiet")
       /\ job' = IF job[j].status = "absent" THEN [job EXCEPT ![j] = HydratedRow] ELSE job
       /\ UNCHANGED <<slot, openNotes, produced, wanted>>

\* Faulty variant: a running job is left to finish.
UnfinishedUnlessRunning(row) == row.status = "pending"

Unfinished(row) == row.status \in {"pending", "running"}

NotesWithout(i) == {j \in openNotes : j[1] # i}

\* A closed or locally suppressed item: unless the observation is stale, its
\* waiting and running jobs are skipped and its open notifications closed.
IngestSuppressed(i, h, u) ==
    /\ Observe(i, h, u, "closed")
    /\ IF Upserted(i, h, u).hash = h
       THEN /\ job' = [j \in Jobs |->
                         IF j[1] = i /\ Unfinished(job[j])
                         THEN Skipped(job[j], "source_suppressed") ELSE job[j]]
            /\ openNotes' = NotesWithout(i)
       ELSE UNCHANGED <<job, openNotes>>
    /\ UNCHANGED <<slot, produced, wanted>>

Ingest(i) == \E h \in Hashes, u \in 1..MaxUpdate :
    IngestOpen(i, h, u) \/ IngestQuiet(i, h, u) \/ IngestSuppressed(i, h, u)
-----------------------------------------------------------------------------
(* The worker: one pass of runWorkerSlot.  claimJobs is four statements. *)

\* Faulty variant: attempts > maxAttempts.
ExhaustedOffByOne(attempts) == attempts > MaxAttempts

Exhausted(attempts) == attempts >= MaxAttempts

Go(w, pc) == slot' = [slot EXCEPT ![w].pc = pc]
Rest(w) == slot' = [slot EXCEPT ![w] = IdleSlot]

\* Faulty variant: a lease is taken from its holder before it has run out.
ExpiredAtOnce(j) == job[j].status = "running" /\ job[j].lease # NoSlot

Expired(j) == job[j].status = "running" /\ job[j].lease # NoSlot /\ job[j].expired

\* Faulty variant: attempts > maxAttempts.
ReapDeadOffByOne(w) ==
    /\ slot[w].pc = "idle"
    /\ job' = [j \in Jobs |-> IF Expired(j) /\ job[j].attempts > MaxAttempts
                              THEN Released(job[j], "dead") ELSE job[j]]
    /\ Go(w, "reaping")
    /\ UNCHANGED <<item, openNotes, history>>

ReapDead(w) ==
    /\ slot[w].pc = "idle"
    /\ job' = [j \in Jobs |-> IF Expired(j) /\ Exhausted(job[j].attempts)
                              THEN Released(job[j], "dead") ELSE job[j]]
    /\ Go(w, "reaping")
    /\ UNCHANGED <<item, openNotes, history>>

\* Faulty variant: the jobs whose attempts are used up are taken to be dead by now.
ReapPendingAny(w) ==
    /\ slot[w].pc = "reaping"
    /\ job' = [j \in Jobs |-> IF Expired(j) THEN Released(job[j], "pending") ELSE job[j]]
    /\ Go(w, "sweeping") \/ Go(w, "claiming")
    /\ UNCHANGED <<item, openNotes, history>>

\* The sweep of superseded jobs runs on one pass every five minutes or more.
ReapPending(w) ==
    /\ slot[w].pc = "reaping"
    /\ job' = [j \in Jobs |-> IF Expired(j) /\ ~Exhausted(job[j].attempts)
                              THEN Released(job[j], "pending") ELSE job[j]]
    /\ Go(w, "sweeping") \/ Go(w, "claiming")
    /\ UNCHANGED <<item, openNotes, history>>

\* Faulty variant: only superseded jobs that were retried are swept.
SweepRetried(w) ==
    /\ slot[w].pc = "sweeping"
    /\ job' = [j \in Jobs |-> IF job[j].status = "pending" /\ ~Current(j) /\ job[j].attempts > 0
                              THEN Skipped(job[j], "superseded_content_hash") ELSE job[j]]
    /\ Go(w, "claiming")
    /\ UNCHANGED <<item, openNotes, history>>

Sweep(w) ==
    /\ slot[w].pc = "sweeping"
    /\ job' = [j \in Jobs |-> IF job[j].status = "pending" /\ ~Current(j)
                              THEN Skipped(job[j], "superseded_content_hash") ELSE job[j]]
    /\ Go(w, "claiming")
    /\ UNCHANGED <<item, openNotes, history>>

Claimable(j) ==
    /\ job[j].status = "pending"
    /\ ~Exhausted(job[j].attempts)
    /\ ~job[j].delayed
    /\ Current(j)

\* ORDER BY: jobs that will notify before quiet ones, then by priority.  The
\* last key, created_at, is left open.
Before(j, k) ==
    \/ ~job[j].quiet /\ job[k].quiet
    \/ job[j].quiet = job[k].quiet /\ Priority[j[1]] < Priority[k[1]]

\* The slot's own copy of the row it claims.
ClaimedJob(j) ==
    [pc |-> "classifying", job |-> j, attempts |-> job[j].attempts + 1, quiet |-> job[j].quiet]

\* Faulty variant: the attempt is left to be counted when it fails.
ClaimedRowUncounted(row, w) ==
    [row EXCEPT !.status = "running", !.lease = w, !.expired = FALSE, !.delayed = FALSE,
                !.reason = "none"]

ClaimedRow(row, w) ==
    [row EXCEPT !.status = "running", !.attempts = row.attempts + 1, !.lease = w,
                !.expired = FALSE, !.delayed = FALSE, !.reason = "none"]

Claim(w, j) ==
    /\ slot[w].pc = "claiming"
    /\ Claimable(j)
    /\ \A k \in Jobs : Claimable(k) => ~Before(k, j)
    /\ job' = [job EXCEPT ![j] = ClaimedRow(@, w)]
    /\ slot' = [slot EXCEPT ![w] = ClaimedJob(j)]
    /\ UNCHANGED <<item, openNotes, history>>

ClaimNothing(w) ==
    /\ slot[w].pc = "claiming"
    /\ \A j \in Jobs : ~Claimable(j)
    /\ Rest(w)
    /\ UNCHANGED <<dbVars, history>>

\* Faulty variant: any running row will do.
OwnsAnyRunning(w, j) == job[j].status = "running"

\* WHERE id = ? AND status = 'running' AND leased_until = ?
Owns(w, j) == job[j].status = "running" /\ job[j].lease = w

\* Faulty variant: the update to succeeded does not ask for the lease.
MayFinalizeUnleased(w, j) == Current(j)

MayFinalize(w, j) == Owns(w, j) /\ Current(j)

\* notificationInitialState: a quiet job's notification is born suppressed.
OpenNote(w) == IF slot[w].quiet THEN openNotes ELSE openNotes \cup {slot[w].job}

\* persistJobResult: the result, its notification and the job's new status are
\* one transaction.
Finalize(w) ==
    LET j == slot[w].job
    IN /\ slot[w].pc = "classifying"
       /\ MayFinalize(w, j)
       /\ job' = [job EXCEPT ![j] = Released(@, "succeeded")]
       /\ openNotes' \in {openNotes, OpenNote(w)}
       /\ produced' = [produced EXCEPT ![j] = IF @ = 0 THEN 1 ELSE 2]
       /\ Rest(w)
       /\ UNCHANGED <<item, seen, newest, wanted>>

SkipSuperseded(w) ==
    LET j == slot[w].job
    IN /\ slot[w].pc = "classifying"
       /\ Owns(w, j)
       /\ ~Current(j)
       /\ job' = [job EXCEPT ![j] = Skipped(@, "superseded_content_hash")]
       /\ Rest(w)
       /\ UNCHANGED <<item, openNotes, history>>

\* The lease is gone: every guarded update matches no row, the transaction of a
\* result is rolled back, and the slot moves on.
DropStale(w) ==
    /\ slot[w].pc = "classifying"
    /\ ~Owns(w, slot[w].job)
    /\ Rest(w)
    /\ UNCHANGED <<dbVars, history>>

\* markJobFailedStatus, attempts as the caller saw them.
FailedRow(row, attempts) ==
    [Released(row, IF Exhausted(attempts) THEN "dead" ELSE "pending")
       EXCEPT !.delayed = ~Exhausted(attempts), !.reason = "error"]

\* The classifier failed, timed out at the lease's end, or the job type is
\* unsupported.
ClassifierFails(w) ==
    LET j == slot[w].job
    IN /\ slot[w].pc = "classifying"
       /\ Owns(w, j)
       /\ job' = [job EXCEPT ![j] = FailedRow(@, slot[w].attempts)]
       /\ Rest(w)
       /\ UNCHANGED <<item, openNotes, history>>

AttemptsReturned(n) == IF n > 0 THEN n - 1 ELSE 0

TransientRow(row) ==
    [Released(row, "pending") EXCEPT !.attempts = AttemptsReturned(row.attempts),
                                     !.delayed = TRUE, !.reason = "error"]

\* The model endpoint is down: the attempt is given back.
ModelUnavailable(w) ==
    LET j == slot[w].job
    IN /\ slot[w].pc = "classifying"
       /\ Owns(w, j)
       /\ job' = [job EXCEPT ![j] = TransientRow(@)]
       /\ Rest(w)
       /\ UNCHANGED <<item, openNotes, history>>

\* persistJobResult failed, the lease is not known to be stale: markJobFailed
\* reads the job's attempts and then updates the row by id alone.
PersistFails(w) ==
    /\ PersistErrors
    /\ slot[w].pc = "classifying"
    /\ Go(w, "broken")
    /\ UNCHANGED <<dbVars, history>>

ReadAttempts(w) ==
    /\ slot[w].pc = "broken"
    /\ slot' = [slot EXCEPT ![w].pc = "overwriting", ![w].attempts = job[slot[w].job].attempts]
    /\ UNCHANGED <<dbVars, history>>

MarkJobFailed(w) ==
    /\ slot[w].pc = "overwriting"
    /\ job' = [job EXCEPT ![slot[w].job] = FailedRow(@, slot[w].attempts)]
    /\ Rest(w)
    /\ UNCHANGED <<item, openNotes, history>>

\* The process dies, its context is cancelled, or the statement the slot was
\* about to run fails: nothing is written and the work in hand is forgotten.
Stop(w) ==
    /\ slot[w].pc # "idle"
    /\ Rest(w)
    /\ UNCHANGED <<dbVars, history>>
-----------------------------------------------------------------------------
(* Time, the operator, and notification delivery *)

LeaseExpires(j) ==
    /\ job[j].status = "running" /\ job[j].lease # NoSlot /\ ~job[j].expired
    /\ job' = [job EXCEPT ![j].expired = TRUE]
    /\ UNCHANGED <<item, slot, openNotes, history>>

DelayElapses(j) ==
    /\ job[j].delayed
    /\ job' = [job EXCEPT ![j].delayed = FALSE]
    /\ UNCHANGED <<item, slot, openNotes, history>>

\* localpager requeue-jobs --status S [--last-error-contains ...]
RequeueJobs(statuses, reasons) ==
    LET matches == {j \in Jobs : job[j].status \in statuses /\ job[j].reason \in reasons}
    IN /\ matches # {}
       /\ job' = [j \in Jobs |-> IF j \in matches THEN Queued(job[j]) ELSE job[j]]
       /\ produced' = [j \in Jobs |-> IF j \in matches THEN 0 ELSE produced[j]]
       /\ seen' = [i \in Items |-> IF seen[i] = "closed" /\ \E j \in matches : j[1] = i
                                  THEN "requeued" ELSE seen[i]]
       /\ UNCHANGED <<item, slot, openNotes, newest, wanted>>

Requeue == \E s \in RequeueStatuses, reasons \in {Reasons} \cup {{r} : r \in Reasons \ {"none"}} :
    RequeueJobs({s}, reasons)

\* SendPendingDiscord sends, suppresses or gives up on what is open.
NotesSettle(j) ==
    /\ j \in openNotes
    /\ openNotes' = openNotes \ {j}
    /\ UNCHANGED <<item, job, slot, history>>
-----------------------------------------------------------------------------
Poll(w) == ReapDead(w) \/ ReapPending(w) \/ Sweep(w) \/ ClaimNothing(w) \/ \E j \in Jobs : Claim(w, j)

Work(w) ==
    \/ Finalize(w) \/ SkipSuperseded(w) \/ DropStale(w)
    \/ ClassifierFails(w) \/ ModelUnavailable(w)
    \/ PersistFails(w) \/ ReadAttempts(w) \/ MarkJobFailed(w)

Time == \E j \in Jobs : LeaseExpires(j) \/ DelayElapses(j)

Next ==
    \/ \E i \in Items : Ingest(i)
    \/ \E w \in Slots : Poll(w) \/ Work(w) \/ Stop(w)
    \/ Time
    \/ Requeue
    \/ \E j \in Jobs : NotesSettle(j)

Spec == Init /\ [][Next]_vars

\* Slots keep polling (PollInterval); a classifier ends, for it is killed when
\* its lease ends; clocks advance; and a slot that passes again and again
\* sweeps again and again, for the five-minute throttle runs out.
Fairness ==
    /\ \A w \in Slots : WF_vars(Poll(w)) /\ WF_vars(Work(w))
    /\ \A w \in Slots : SF_vars(ReapPending(w) /\ Go(w, "sweeping"))
    /\ \A j \in Jobs : WF_vars(LeaseExpires(j)) /\ WF_vars(DelayElapses(j))

FairSpec == Spec /\ Fairness
-----------------------------------------------------------------------------
(* Properties *)

TypeOK ==
    /\ item \in [Items -> [hash: Hashes \cup {NoHash}, updated: Nat]]
    /\ job \in [Jobs -> JobRow]
    /\ slot \in [Slots -> SlotState]
    /\ openNotes \subseteq Jobs
    /\ produced \in [Jobs -> 0..2]
    /\ seen \in [Items -> {"nothing", "open", "quiet", "closed", "requeued"}]
    /\ newest \in [Items -> [updated: Nat, hashes: SUBSET Hashes]]
    /\ wanted \subseteq Jobs

\* A running job always has a lease, and only a running job has one: the reaper
\* looks for leased_until IS NOT NULL, so a running job without a lease would
\* never be picked up again, and a lease left on another row would let its old
\* holder finalize it.
RunningIsLeased == \A j \in Jobs : (job[j].status = "running") <=> (job[j].lease # NoSlot)

\* While a slot's lease stands, the copy of the row it took at claim time
\* (attempts, notification suppression) is what the row says: deciding on the
\* copy, as processJob does, is deciding on the row.
ClaimedCopyIsFresh == \A w \in Slots :
    slot[w].pc = "classifying" /\ Owns(w, slot[w].job) =>
        /\ slot[w].attempts = job[slot[w].job].attempts
        /\ slot[w].quiet = job[slot[w].job].quiet

\* A waiting job has an attempt left, so that it can be claimed at all, and a
\* job is given up only when its attempts are used up.
RetryBudget == \A j \in Jobs :
    /\ job[j].status = "pending" => job[j].attempts < MaxAttempts
    /\ job[j].status = "dead" => job[j].attempts >= MaxAttempts
    /\ job[j].attempts <= MaxAttempts

\* A job that was queued yields one stored result and then is succeeded, or
\* none: retries, lost leases, crashes and supersession never store a second
\* result, or a result for a job that goes on to be retried.
OneResultPerQueueing == \A j \in Jobs :
    produced[j] = (IF job[j].status = "succeeded" THEN 1 ELSE 0)

\* While the last word of the sources is that an item is closed or suppressed,
\* nothing of it runs, can be claimed or is about to be sent, unless an operator
\* requeued it.
ClosedItemIsSilent == \A i \in Items : seen[i] = "closed" =>
    /\ \A j \in Jobs : j[1] = i => /\ job[j].status # "running"
                                   /\ job[j].status = "pending" => ~Current(j)
    /\ \A j \in openNotes : j[1] # i

\* While the last word of the sources is that an item is open, the job of its
\* latest content is not left skipped, whatever closings, reopenings, reverts
\* to an older content and sweeps went before: only what hydration or the
\* cutover recorded under this very content stays unclassified.
OpenContentIsQueued == \A i \in Items : seen[i] = "open" =>
    LET j == <<i, item[i].hash>>
    IN /\ job[j].status # "absent"
       /\ job[j].status = "skipped" => job[j].quiet /\ job[j].reason = "none"

\* Nothing becomes ready to be sent to Discord unless some source asked for it
\* without a suppression reason: what hydration or the cutover recorded stays
\* quiet through requeues, retries and reactivation.
NothingUnwantedIsPaged ==
    /\ openNotes \subseteq wanted
    /\ \A j \in Jobs : job[j].status # "absent" /\ ~job[j].quiet => j \in wanted

\* A result is stored only for the most recent content the sources reported,
\* in whatever order the reports arrived, and only by the slot that holds the
\* job's lease.
ResultsAreCurrent == [][\A j \in Jobs : produced'[j] > produced[j] =>
    /\ j[2] \in newest[j[1]].hashes
    /\ job[j].status = "running"
    /\ slot[job[j].lease].job = j /\ slot[job[j].lease].pc = "classifying"]_vars

\* What a slot has claimed and whose lease has not run out, no other slot
\* touches: only sources, operators and the clock may.
LeaseProtects == [][\A j \in Jobs, w \in Slots :
    job[j].status = "running" /\ job[j].lease = w /\ ~job[j].expired /\ job'[j] # job[j] =>
        slot' = slot \/ (slot[w].job = j /\ slot'[w] = IdleSlot)]_vars

\* A finished or skipped job changes only when a source or an operator says so:
\* no worker brings it back.
WorkersLeaveSettledJobs == [][\A j \in Jobs :
    job[j].status \in {"succeeded", "skipped", "dead"} /\ job'[j] # job[j] => slot' = slot]_vars

\* A job that waits and has no attempt left: no claim accepts it, and no reaper
\* looks at it.
Stranded(j) == job[j].status = "pending" /\ Exhausted(job[j].attempts)

\* A job is stranded in one way only: markJobFailed decides on attempts it read
\* before another slot claimed the job once more.  Neither a lease that runs out
\* between the two statements of the reaper, nor an attempt that is given back,
\* nor a failure of any other kind strands a job.
StrandedByARace == [][\A j \in Jobs : ~Stranded(j) /\ Stranded(j)' =>
    \E w \in Slots : /\ slot[w].pc = "overwriting" /\ slot[w].job = j
                     /\ slot[w].attempts < job[j].attempts]_vars

\* Where a row of each status is in the life of its job.
Phase == [absent |-> "unknown", pending |-> "queued", running |-> "taken",
          succeeded |-> "done", skipped |-> "aside", dead |-> "givenUp"]

Life(j) == INSTANCE JobLifecycle WITH
    MaxTries <- MaxAttempts,
    phase <- Phase[job[j].status],
    tries <- job[j].attempts,
    results <- produced[j]

\* Whatever slots, crashes, the reaper and model outages do to a job, it lives as
\* JobLifecycle says, and slots do to it only what workers may: above all, every
\* claim counts, however it ends, a slot gives back only the attempt it has in
\* hand, and a job starts anew only when a source or an operator queues it.
KeepsToLife ==
    /\ \A j \in Jobs : Life(j)!Init
    /\ [][\A j \in Jobs : \/ UNCHANGED Life(j)!vars
                          \/ slot' = slot /\ Life(j)!Asked
                          \/ slot' # slot /\ Life(j)!Handled]_vars

\* A slot ends a pass, or loses its work, although it had something to do.
Breaks(w) == Stop(w) /\ ~Poll(w) /\ ~Work(w)

\* Disturbances the worker cannot limit: sources, operators, crashes and an
\* unavailable model endpoint.
Disturbance ==
    \/ \E i \in Items : Ingest(i)
    \/ \E w \in Slots : ModelUnavailable(w) \/ Breaks(w)
    \/ Requeue

\* Once disturbances end, a queued job is classified, given up or skipped,
\* whoever held it when they ended, however slots interleave and whatever results
\* the database refuses; unless the race of StrandedByARace strands it.
QueuedJobsSettle ==
    <>[][~Disturbance]_vars =>
        \A j \in Jobs : job[j].status \in {"pending", "running"} ~>
            job[j].status \in {"succeeded", "dead", "skipped"} \/ Stranded(j)

\* A job whose holder died or was cancelled is freed in the end: its lease runs
\* out and some slot's next pass reaps it.
OrphanedLeasesEnd ==
    <>[][\A w \in Slots : ~Breaks(w)]_vars =>
        \A j \in Jobs, w \in Slots :
            (job[j].lease = w /\ slot[w].job # j) ~> (job[j].lease # w)
=============================================================================
