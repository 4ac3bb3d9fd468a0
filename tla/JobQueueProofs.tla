--------------------------- MODULE JobQueueProofs ---------------------------
(***************************************************************************)
(* What JobQueue guarantees for every number of items, contents, slots and *)
(* attempts.  The first part holds whatever the database does; the second  *)
(* assumes that it does not refuse a result.                               *)
(***************************************************************************)
EXTENDS JobQueueTypes

\* The clock alone touched the row, or nothing did.
Kept(old, new) ==
    /\ new.status = old.status
    /\ new.lease = old.lease
    /\ new.attempts = old.attempts
    /\ new.quiet = old.quiet
    /\ new.reason = old.reason

\* Slot w claimed the row.
Taken(j, w) ==
    /\ job[j].status = "pending" /\ ~Exhausted(job[j].attempts)
    /\ Current(j)
    /\ slot[w].pc = "claiming" /\ slot'[w] = ClaimedJob(j)
    /\ job'[j].status = "running"
    /\ job'[j].lease = w
    /\ job'[j].attempts = job[j].attempts + 1
    /\ job'[j].quiet = job[j].quiet
    /\ job'[j].reason = "none"

\* The row was left with nobody holding it.
Let(j) ==
    /\ job'[j].status \notin {"running", "absent"}
    /\ job'[j].lease = NoSlot
    /\ \/ job'[j].quiet = job[j].quiet /\ job[j].status # "absent"
       \/ job'[j].quiet
       \/ j \in wanted'

\* Every step keeps a row, claims it or lets go of it.
RowFate(j) == Kept(job[j], job'[j]) \/ (\E w \in Slots : Taken(j, w)) \/ Let(j)

\* The job table holds rows.
LEMMA Rows == ASSUME TypeInv PROVE \A j \in Jobs : job[j] \in JobRow
BY DEF TypeInv, TypeOK

\* A source never claims a row.
LEMMA IngestFate ==
    ASSUME TypeInv, NEW i \in Items, Ingest(i), NEW j \in Jobs
    PROVE  Kept(job[j], job'[j]) \/ Let(j)
<1>0. TypeOK /\ TypeOK'
  BY IngestTypes DEF TypeInv
<1>1. PICK h \in Hashes, u \in 1..MaxUpdate :
          IngestOpen(i, h, u) \/ IngestQuiet(i, h, u) \/ IngestSuppressed(i, h, u)
  BY DEF Ingest
<1>2. <<i, h>> \in Jobs
  BY DEF Jobs
<1>3. CASE IngestOpen(i, h, u)
  <2>1. CASE job'[j] = job[j]
    BY <2>1 DEF Kept
  <2>2. CASE job'[j] # job[j]
    <3> DEFINE new == [Queued(job[j]) EXCEPT !.quiet = FALSE]
    <3>1. j = <<i, h>> /\ job'[j] = new
      BY <1>0, <1>2, <1>3, <2>2 DEF IngestOpen, TypeOK
    <3>2. Queued(job[j]) \in JobRow
      BY Rows, RowTypes
    <3>3. new.status = Queued(job[j]).status /\ new.lease = Queued(job[j]).lease
      BY <3>2 DEF JobRow
    <3>4. j \in wanted'
      BY <1>3, <3>1 DEF IngestOpen
    <3> HIDE DEF new
    <3> QED BY <3>1, <3>3, <3>4, Rows, RowFields DEF Let
  <2> QED BY <2>1, <2>2
<1>4. CASE IngestQuiet(i, h, u)
  BY <1>0, <1>2, <1>4 DEF IngestQuiet, TypeOK, HydratedRow, AbsentRow, Let, Kept
<1>5. CASE IngestSuppressed(i, h, u)
  <2>1. CASE job'[j] = job[j]
    BY <2>1 DEF Kept
  <2>2. CASE job'[j] # job[j]
    <3>1. job'[j] = Skipped(job[j], "source_suppressed") /\ Unfinished(job[j])
      BY <1>0, <1>5, <2>2 DEF IngestSuppressed, TypeOK
    <3>2. "source_suppressed" \in Reasons
      BY DEF Reasons
    <3> QED BY <3>1, <3>2, Rows, RowFields DEF Let, Unfinished
  <2> QED BY <2>1, <2>2
<1> QED BY <1>1, <1>3, <1>4, <1>5

\* A polling slot claims a row or lets go of it.
LEMMA PollFate ==
    ASSUME TypeInv, NEW w \in Slots, Poll(w), NEW j \in Jobs
    PROVE  RowFate(j)
<1>0. TypeOK
  BY DEF TypeInv
<1>1. CASE job'[j] = job[j]
  BY <1>1 DEF Kept, RowFate
<1>2. CASE job'[j] # job[j] /\ ReapDead(w)
  <2>1. job'[j] = Released(job[j], "dead") /\ Expired(j)
    BY <1>2 DEF ReapDead
  <2>2. "dead" \in Statuses
    BY DEF Statuses
  <2> QED BY <2>1, <2>2, Rows, RowFields DEF Let, RowFate, Expired
<1>3. CASE job'[j] # job[j] /\ ReapPending(w)
  <2>1. job'[j] = Released(job[j], "pending") /\ Expired(j)
    BY <1>3 DEF ReapPending
  <2>2. "pending" \in Statuses
    BY DEF Statuses
  <2> QED BY <2>1, <2>2, Rows, RowFields DEF Let, RowFate, Expired
<1>4. CASE job'[j] # job[j] /\ Sweep(w)
  <2>1. job'[j] = Skipped(job[j], "superseded_content_hash") /\ job[j].status = "pending"
    BY <1>4 DEF Sweep
  <2>2. "superseded_content_hash" \in Reasons
    BY DEF Reasons
  <2> QED BY <2>1, <2>2, Rows, RowFields DEF Let, RowFate
<1>5. ASSUME NEW k \in Jobs, Claim(w, k), job'[j] # job[j] PROVE RowFate(j)
  <2>1. k = j /\ job'[j] = ClaimedRow(job[j], w) /\ slot'[w] = ClaimedJob(j)
    BY <1>0, <1>5 DEF Claim, TypeOK
  <2>2. Claimable(j) /\ slot[w].pc = "claiming"
    BY <1>5, <2>1 DEF Claim
  <2> QED BY <2>1, <2>2, Rows, RowFields DEF Taken, RowFate, Claimable
<1>6. CASE ClaimNothing(w)
  BY <1>6 DEF ClaimNothing, dbVars, Kept, RowFate
<1> QED BY <1>1, <1>2, <1>3, <1>4, <1>5, <1>6 DEF Poll

\* A working slot changes no row but its own job's, and only to let go of it.
LEMMA WorkFate ==
    ASSUME TypeInv, NEW w \in Slots, Work(w) \/ Stop(w), NEW j \in Jobs
    PROVE  Kept(job[j], job'[j]) \/ (Let(j) /\ j = slot[w].job)
<1>0. TypeOK /\ job[j] \in JobRow
  BY Rows DEF TypeInv
<1>1. CASE job'[j] = job[j]
  BY <1>1 DEF Kept
<1>2. CASE job'[j] # job[j]
  <2>1. \/ Finalize(w) \/ SkipSuperseded(w) \/ ClassifierFails(w) \/ ModelUnavailable(w)
        \/ MarkJobFailed(w)
    BY <1>2 DEF Work, Stop, DropStale, PersistFails, ReadAttempts, dbVars
  <2>2. slot[w].pc \in Busy
    BY <2>1 DEF Finalize, SkipSuperseded, ClassifierFails, ModelUnavailable, MarkJobFailed, Busy
  <2>3. j = slot[w].job /\ job[j].status # "absent"
    BY <1>0, <1>2, <2>1, <2>2 DEF Finalize, SkipSuperseded, ClassifierFails, ModelUnavailable,
       MarkJobFailed, TypeInv, TypeOK, WorkHasJob
  <2>4. \/ job'[j] = Released(job[j], "succeeded")
        \/ job'[j] = Skipped(job[j], "superseded_content_hash")
        \/ job'[j] = FailedRow(job[j], slot[w].attempts)
        \/ job'[j] = TransientRow(job[j])
    BY <1>0, <2>1, <2>3 DEF Finalize, SkipSuperseded, ClassifierFails, ModelUnavailable,
       MarkJobFailed, TypeOK
  <2>5. "succeeded" \in Statuses /\ "superseded_content_hash" \in Reasons /\ slot[w].attempts \in Nat
    BY <1>0 DEF Statuses, Reasons, TypeOK, SlotState
  <2>6. /\ job'[j].status \notin {"running", "absent"}
        /\ job'[j].lease = NoSlot
        /\ job'[j].quiet = job[j].quiet
    BY <1>0, <2>4, <2>5, RowFields
  <2> QED BY <2>3, <2>6 DEF Let
<1> QED BY <1>1, <1>2

\* Every step does one of the three to every row.
LEMMA Fate ==
    ASSUME TypeInv, [Next]_vars, NEW j \in Jobs
    PROVE  RowFate(j)
<1>0. TypeOK /\ job[j] \in JobRow
  BY Rows DEF TypeInv
<1>1. ASSUME NEW i \in Items, Ingest(i) PROVE RowFate(j)
  BY <1>1, IngestFate DEF RowFate
<1>2. ASSUME NEW w \in Slots, Poll(w) \/ Work(w) \/ Stop(w) PROVE RowFate(j)
  BY <1>2, PollFate, WorkFate DEF RowFate
<1>3. CASE Time
  <2>1. PICK k \in Jobs : LeaseExpires(k) \/ DelayElapses(k)
    BY <1>3 DEF Time
  <2>2. \/ job'[j] = job[j]
        \/ job'[j] = [job[j] EXCEPT !.expired = TRUE]
        \/ job'[j] = [job[j] EXCEPT !.delayed = FALSE]
    BY <1>0, <2>1 DEF LeaseExpires, DelayElapses, TypeOK
  <2> QED BY <1>0, <2>2 DEF Kept, RowFate, JobRow
<1>4. CASE Requeue
  <2>1. PICK s \in RequeueStatuses, reasons \in {Reasons} \cup {{r} : r \in Reasons \ {"none"}} :
            RequeueJobs({s}, reasons)
    BY <1>4 DEF Requeue
  <2>2. job'[j] = job[j] \/ (job'[j] = Queued(job[j]) /\ job[j].status = s)
    BY <2>1 DEF RequeueJobs
  <2>3. s # "absent"
    BY ConstantsAssumption
  <2> QED BY <1>0, <2>2, <2>3, RowFields DEF Kept, Let, RowFate
<1>5. ASSUME NEW k \in Jobs, NotesSettle(k) PROVE RowFate(j)
  BY <1>5 DEF NotesSettle, Kept, RowFate
<1>6. CASE UNCHANGED vars
  BY <1>6 DEF vars, Kept, RowFate
<1> QED BY <1>1, <1>2, <1>3, <1>4, <1>5, <1>6 DEF Next

\* A slot comes to classify, or to classify another job, only by a claim.
LEMMA SlotFate ==
    ASSUME TypeInv, [Next]_vars, NEW w \in Slots, slot'[w].pc = "classifying"
    PROVE  slot'[w] = slot[w] \/ \E j \in Jobs : Claim(w, j)
<1>0. TypeOK
  BY DEF TypeInv
<1>1. CASE UNCHANGED vars
  BY <1>1 DEF vars
<1>2. ASSUME NEW i \in Items, Ingest(i) PROVE slot' = slot
  BY <1>2 DEF Ingest, IngestOpen, IngestQuiet, IngestSuppressed
<1>3. CASE Time \/ Requeue \/ \E j \in Jobs : NotesSettle(j)
  BY <1>3 DEF Time, LeaseExpires, DelayElapses, Requeue, RequeueJobs, NotesSettle
<1>4. ASSUME NEW v \in Slots, Poll(v) \/ Work(v) \/ Stop(v)
      PROVE  slot'[w] = slot[w] \/ \E j \in Jobs : Claim(w, j)
  <2>1. CASE \E j \in Jobs : Claim(v, j)
    BY <1>0, <2>1 DEF Claim, TypeOK
  <2>2. CASE Rest(v)
    BY <1>0, <2>2 DEF Rest, IdleSlot, TypeOK
  <2>3. CASE \E pc \in {"reaping", "sweeping", "claiming", "broken"} : Go(v, pc)
    BY <1>0, <2>3 DEF Go, TypeOK, SlotState
  <2>4. CASE ReadAttempts(v)
    BY <1>0, <2>4 DEF ReadAttempts, TypeOK, SlotState
  <2> QED BY <1>4, <2>1, <2>2, <2>3, <2>4 DEF Poll, ReapDead, ReapPending, Sweep, ClaimNothing, Work, Stop,
       Finalize, SkipSuperseded, DropStale, ClassifierFails, ModelUnavailable, PersistFails, MarkJobFailed
<1> QED BY <1>1, <1>2, <1>3, <1>4 DEF Next

\* A notification is opened only by a result, and what was wanted stays wanted.
LEMMA NotesFate ==
    ASSUME TypeInv, [Next]_vars
    PROVE  /\ wanted \subseteq wanted'
           /\ openNotes' \subseteq openNotes \/ \E w \in Slots : Finalize(w)
<1>1. CASE UNCHANGED vars
  BY <1>1 DEF vars
<1>2. ASSUME NEW i \in Items, Ingest(i) PROVE wanted \subseteq wanted' /\ openNotes' \subseteq openNotes
  BY <1>2 DEF Ingest, IngestOpen, IngestQuiet, IngestSuppressed, NotesWithout
<1>3. ASSUME Time \/ Requeue \/ \E j \in Jobs : NotesSettle(j)
      PROVE  wanted \subseteq wanted' /\ openNotes' \subseteq openNotes
  BY <1>3 DEF Time, LeaseExpires, DelayElapses, Requeue, RequeueJobs, NotesSettle, history
<1>4. ASSUME NEW w \in Slots, Poll(w) PROVE wanted \subseteq wanted' /\ openNotes' \subseteq openNotes
  BY <1>4 DEF Poll, ReapDead, ReapPending, Sweep, ClaimNothing, Claim, history, dbVars
<1>5. ASSUME NEW w \in Slots, Work(w) \/ Stop(w)
      PROVE  wanted \subseteq wanted' /\ (openNotes' \subseteq openNotes \/ Finalize(w))
  BY <1>5 DEF Work, Stop, Finalize, SkipSuperseded, DropStale, ClassifierFails, ModelUnavailable,
     PersistFails, ReadAttempts, MarkJobFailed, history, dbVars
<1> QED BY <1>1, <1>2, <1>3, <1>4, <1>5 DEF Next

\* What holds whatever the database does.
Core == TypeInv /\ RunningIsLeased /\ ClaimedCopyIsFresh /\ NothingUnwantedIsPaged

\* The empty database satisfies Core.
LEMMA CoreInit == Init => Core
<1> SUFFICES ASSUME Init PROVE Core
  OBVIOUS
<1>1. \A j \in Jobs : job[j].status = "absent" /\ job[j].lease = NoSlot
  BY DEF Init, AbsentRow
<1>2. RunningIsLeased
  BY <1>1 DEF RunningIsLeased
<1>3. ClaimedCopyIsFresh
  BY DEF Init, ClaimedCopyIsFresh, IdleSlot
<1>4. NothingUnwantedIsPaged
  BY <1>1 DEF Init, NothingUnwantedIsPaged
<1> QED BY <1>2, <1>3, <1>4, TypeInit DEF Core

\* A lease comes and goes with the status running.
LEMMA LeasedStep ==
    ASSUME TypeInv, RunningIsLeased, [Next]_vars
    PROVE  RunningIsLeased'
<1> SUFFICES ASSUME NEW j \in Jobs
             PROVE  (job'[j].status = "running") <=> (job'[j].lease # NoSlot)
  BY DEF RunningIsLeased
<1>1. RowFate(j)
  BY Fate
<1> QED BY <1>1, ConstantsAssumption DEF RowFate, Kept, Taken, Let, RunningIsLeased

\* A row whose lease stands keeps what its claimer copied.
LEMMA FreshStep ==
    ASSUME TypeInv, ClaimedCopyIsFresh, [Next]_vars
    PROVE  ClaimedCopyIsFresh'
<1> SUFFICES ASSUME NEW w \in Slots, slot'[w].pc = "classifying", Owns(w, slot[w].job)'
             PROVE  /\ slot'[w].attempts = job'[slot'[w].job].attempts
                    /\ slot'[w].quiet = job'[slot'[w].job].quiet
  BY DEF ClaimedCopyIsFresh
<1>0. TypeOK
  BY DEF TypeInv
<1> DEFINE k == slot'[w].job
<1>1. job'[k].status = "running" /\ job'[k].lease = w
  BY DEF Owns
<1>2. CASE slot'[w] = slot[w]
  <2>1. k \in Jobs
    BY <1>2 DEF TypeInv, WorkHasJob, Busy
  <2>2. RowFate(k)
    BY <2>1, Fate
  <2>3. Kept(job[k], job'[k])
    BY <1>1, <1>2, <2>2 DEF RowFate, Taken, Let
  <2> QED BY <1>1, <1>2, <2>3 DEF Kept, ClaimedCopyIsFresh, Owns
<1>3. ASSUME NEW j \in Jobs, Claim(w, j)
      PROVE  slot'[w].attempts = job'[k].attempts /\ slot'[w].quiet = job'[k].quiet
  <2>1. slot'[w] = ClaimedJob(j) /\ job'[j] = ClaimedRow(job[j], w)
    BY <1>0, <1>3 DEF Claim, TypeOK
  <2> QED BY <2>1, Rows, RowFields DEF ClaimedJob
<1> QED BY <1>2, <1>3, SlotFate

\* A notification is opened on a fresh copy of a row some source wanted notified.
LEMMA WantedStep ==
    ASSUME TypeInv, ClaimedCopyIsFresh, NothingUnwantedIsPaged, [Next]_vars
    PROVE  NothingUnwantedIsPaged'
<1>0. TypeOK /\ wanted \subseteq wanted'
  BY NotesFate DEF TypeInv
<1>1. openNotes' \subseteq wanted'
  <2>1. CASE openNotes' \subseteq openNotes
    BY <1>0, <2>1 DEF NothingUnwantedIsPaged
  <2>2. ASSUME NEW w \in Slots, Finalize(w) PROVE openNotes' \subseteq wanted'
    <3> DEFINE k == slot[w].job
    <3>1. k \in Jobs /\ slot[w].pc = "classifying" /\ Owns(w, k)
      BY <2>2 DEF Finalize, MayFinalize, TypeInv, WorkHasJob, Busy
    <3>2. slot[w].quiet = job[k].quiet /\ job[k].status # "absent"
      BY <3>1 DEF ClaimedCopyIsFresh, Owns
    <3>3. openNotes' \subseteq openNotes \cup {k} /\ (slot[w].quiet => openNotes' \subseteq openNotes)
      BY <2>2 DEF Finalize, OpenNote
    <3> QED BY <1>0, <3>1, <3>2, <3>3 DEF NothingUnwantedIsPaged
  <2> QED BY <2>1, <2>2, NotesFate
<1>2. ASSUME NEW j \in Jobs, job'[j].status # "absent", ~job'[j].quiet
      PROVE  j \in wanted'
  <2>1. RowFate(j)
    BY Fate
  <2> QED BY <1>0, <1>2, <2>1 DEF RowFate, Kept, Taken, Let, NothingUnwantedIsPaged
<1> QED BY <1>1, <1>2 DEF NothingUnwantedIsPaged

\* Every step preserves Core.
LEMMA CoreStep == Core /\ [Next]_vars => Core'
BY TypeStep, LeasedStep, FreshStep, WantedStep DEF Core

\* Core is invariant.
LEMMA CoreAlways == Spec => []Core
BY CoreInit, CoreStep, PTL DEF Spec

\* No running job is without a lease and no other row keeps one, so the reaper
\* finds every orphan and no old holder can finalize a row it lost.
THEOREM RunningJobsAreLeased == Spec => []RunningIsLeased
<1>1. Core => RunningIsLeased
  BY DEF Core
<1> QED BY <1>1, CoreAlways, PTL

\* While its lease stands a slot decides on a fresh copy of the row.
THEOREM ClaimedCopiesAreFresh == Spec => []ClaimedCopyIsFresh
<1>1. Core => ClaimedCopyIsFresh
  BY DEF Core
<1> QED BY <1>1, CoreAlways, PTL

\* Nothing recorded with a suppression reason alone ever waits to be sent.
THEOREM UnwantedIsNeverPaged == Spec => []NothingUnwantedIsPaged
<1>1. Core => NothingUnwantedIsPaged
  BY DEF Core
<1> QED BY <1>1, CoreAlways, PTL
-----------------------------------------------------------------------------
(* Open items *)

\* How a row comes to be skipped.
LEMMA SkipFate ==
    ASSUME TypeInv, [Next]_vars, NEW j \in Jobs, job'[j].status = "skipped"
    PROVE  \/ Kept(job[j], job'[j])
           \/ job'[j].reason = "superseded_content_hash" /\ ~Current(j) /\ item' = item
           \/ job'[j].reason = "source_suppressed" /\ job[j].status # "absent"
                /\ \E h \in Hashes, u \in 1..MaxUpdate :
                        IngestSuppressed(j[1], h, u) /\ Upserted(j[1], h, u).hash = h
           \/ job'[j].reason = "none" /\ job'[j].quiet
                /\ \E u \in 1..MaxUpdate : IngestQuiet(j[1], j[2], u)
<1>0. TypeOK /\ job[j] \in JobRow
  BY Rows DEF TypeInv
<1>1. CASE job'[j] = job[j]
  BY <1>1 DEF Kept
<1>2. CASE UNCHANGED vars
  BY <1>2 DEF vars, Kept
<1>3. ASSUME job'[j] # job[j], NEW i \in Items, NEW h \in Hashes, NEW u \in 1..MaxUpdate,
             IngestOpen(i, h, u)
      PROVE  FALSE
  <2> DEFINE new == [Queued(job[j]) EXCEPT !.quiet = FALSE]
  <2>1. job'[j] = new
    BY <1>0, <1>3 DEF IngestOpen, TypeOK
  <2>2. Queued(job[j]) \in JobRow /\ Queued(job[j]).status = "pending"
    BY <1>0, RowTypes, RowFields
  <2>3. new.status = Queued(job[j]).status
    BY <2>2 DEF JobRow
  <2> HIDE DEF new
  <2> QED BY <2>1, <2>2, <2>3
<1>4. ASSUME job'[j] # job[j], NEW i \in Items, NEW h \in Hashes, NEW u \in 1..MaxUpdate,
             IngestQuiet(i, h, u)
      PROVE  j = <<i, h>> /\ job'[j].reason = "none" /\ job'[j].quiet
  BY <1>0, <1>4 DEF IngestQuiet, TypeOK, HydratedRow, AbsentRow
<1>5. ASSUME job'[j] # job[j], NEW i \in Items, NEW h \in Hashes, NEW u \in 1..MaxUpdate,
             IngestSuppressed(i, h, u)
      PROVE  /\ i = j[1] /\ Upserted(i, h, u).hash = h
             /\ job'[j].reason = "source_suppressed" /\ job[j].status # "absent"
  <2>1. /\ i = j[1] /\ Upserted(i, h, u).hash = h
        /\ job'[j] = Skipped(job[j], "source_suppressed") /\ Unfinished(job[j])
    BY <1>0, <1>5 DEF IngestSuppressed, TypeOK
  <2>2. "source_suppressed" \in Reasons
    BY DEF Reasons
  <2> QED BY <1>0, <2>1, <2>2, RowFields DEF Unfinished
<1>6. ASSUME job'[j] # job[j], NEW w \in Slots, Poll(w)
      PROVE  job'[j].reason = "superseded_content_hash" /\ ~Current(j) /\ item' = item
  <2>1. CASE Sweep(w)
    <3>1. job'[j] = Skipped(job[j], "superseded_content_hash") /\ ~Current(j) /\ item' = item
      BY <1>6, <2>1 DEF Sweep
    <3>2. "superseded_content_hash" \in Reasons
      BY DEF Reasons
    <3> QED BY <1>0, <3>1, <3>2, RowFields
  <2>2. CASE ReapDead(w) \/ ReapPending(w)
    <3>1. job'[j] = Released(job[j], "dead") \/ job'[j] = Released(job[j], "pending")
      BY <1>6, <2>2 DEF ReapDead, ReapPending
    <3>2. {"dead", "pending"} \subseteq Statuses
      BY DEF Statuses
    <3> QED BY <1>0, <3>1, <3>2, RowFields
  <2>3. ASSUME NEW k \in Jobs, Claim(w, k) PROVE FALSE
    <3>1. job'[j] = ClaimedRow(job[j], w)
      BY <1>0, <1>6, <2>3 DEF Claim, TypeOK
    <3> QED BY <1>0, <3>1, RowFields
  <2>4. CASE ClaimNothing(w)
    BY <1>6, <2>4 DEF ClaimNothing, dbVars
  <2> QED BY <1>6, <2>1, <2>2, <2>3, <2>4 DEF Poll
<1>7. ASSUME job'[j] # job[j], NEW w \in Slots, Work(w) \/ Stop(w)
      PROVE  job'[j].reason = "superseded_content_hash" /\ ~Current(j) /\ item' = item
  <2>1. \/ Finalize(w) \/ SkipSuperseded(w) \/ ClassifierFails(w) \/ ModelUnavailable(w)
        \/ MarkJobFailed(w)
    BY <1>7 DEF Work, Stop, DropStale, PersistFails, ReadAttempts, dbVars
  <2>2. slot[w].attempts \in Nat
    BY <1>0 DEF TypeOK, SlotState
  <2>3. CASE SkipSuperseded(w)
    <3>1. j = slot[w].job /\ job'[j] = Skipped(job[j], "superseded_content_hash") /\ ~Current(j)
      BY <1>0, <1>7, <2>3 DEF SkipSuperseded, TypeOK
    <3>2. "superseded_content_hash" \in Reasons
      BY DEF Reasons
    <3> QED BY <1>0, <2>3, <3>1, <3>2, RowFields DEF SkipSuperseded
  <2>4. CASE Finalize(w) \/ ClassifierFails(w) \/ ModelUnavailable(w) \/ MarkJobFailed(w)
    <3>1. \/ job'[j] = Released(job[j], "succeeded")
          \/ job'[j] = FailedRow(job[j], slot[w].attempts)
          \/ job'[j] = TransientRow(job[j])
      BY <1>0, <1>7, <2>4 DEF Finalize, ClassifierFails, ModelUnavailable, MarkJobFailed, TypeOK
    <3>2. "succeeded" \in Statuses
      BY DEF Statuses
    <3> QED BY <1>0, <2>2, <3>1, <3>2, RowFields
  <2> QED BY <2>1, <2>3, <2>4
<1>8. CASE Time
  <2>1. \/ job'[j] = job[j]
        \/ job'[j] = [job[j] EXCEPT !.expired = TRUE]
        \/ job'[j] = [job[j] EXCEPT !.delayed = FALSE]
    BY <1>0, <1>8 DEF Time, LeaseExpires, DelayElapses, TypeOK
  <2> QED BY <1>0, <2>1 DEF Kept, JobRow
<1>9. ASSUME Requeue, job'[j] # job[j] PROVE FALSE
  <2>1. job'[j] = Queued(job[j])
    BY <1>9 DEF Requeue, RequeueJobs
  <2> QED BY <1>0, <2>1, RowFields
<1>10. CASE \E k \in Jobs : NotesSettle(k)
  BY <1>10 DEF NotesSettle, Kept
<1>11. ASSUME NEW i \in Items, Ingest(i), job'[j] # job[j]
       PROVE  \/ job'[j].reason = "source_suppressed" /\ job[j].status # "absent"
                  /\ \E h \in Hashes, u \in 1..MaxUpdate :
                        IngestSuppressed(j[1], h, u) /\ Upserted(j[1], h, u).hash = h
              \/ job'[j].reason = "none" /\ job'[j].quiet
                  /\ \E u \in 1..MaxUpdate : IngestQuiet(j[1], j[2], u)
  <2>1. PICK h \in Hashes, u \in 1..MaxUpdate :
            IngestOpen(i, h, u) \/ IngestQuiet(i, h, u) \/ IngestSuppressed(i, h, u)
    BY <1>11 DEF Ingest
  <2>2. CASE IngestOpen(i, h, u)
    BY <1>3, <1>11, <2>2
  <2>3. CASE IngestQuiet(i, h, u)
    <3>1. j = <<i, h>> /\ job'[j].reason = "none" /\ job'[j].quiet
      BY <1>4, <1>11, <2>3
    <3>2. j[1] = i /\ j[2] = h
      BY <3>1
    <3> QED BY <2>3, <3>1, <3>2
  <2>4. CASE IngestSuppressed(i, h, u)
    BY <1>5, <1>11, <2>4
  <2> QED BY <2>1, <2>2, <2>3, <2>4
<1> QED BY <1>1, <1>2, <1>6, <1>7, <1>8, <1>9, <1>10, <1>11 DEF Next

\* An observation counts.
Counts(i, h, u, kind) ==
    /\ Upserted(i, h, u).hash = h
    /\ item'[i] = Upserted(i, h, u)
    /\ seen'[i] = kind

\* What a step does to an item and to the last word about it.
LEMMA ItemFate ==
    ASSUME TypeInv, [Next]_vars, NEW i \in Items
    PROVE  \/ item'[i] = item[i] /\ (seen'[i] = seen[i] \/ seen'[i] = "requeued")
           \/ \E h \in Hashes, u \in 1..MaxUpdate :
                 \/ IngestOpen(i, h, u) /\ Counts(i, h, u, "open")
                 \/ IngestQuiet(i, h, u) /\ Counts(i, h, u, "quiet")
                 \/ IngestSuppressed(i, h, u) /\ Counts(i, h, u, "closed")
<1>0. TypeOK
  BY DEF TypeInv
<1>1. ASSUME NEW k \in Items, NEW h \in Hashes, NEW u \in 1..MaxUpdate,
             NEW kind \in {"open", "quiet", "closed"}, Observe(k, h, u, kind)
      PROVE  \/ item'[i] = item[i] /\ seen'[i] = seen[i]
             \/ k = i /\ Counts(i, h, u, kind)
  <2>1. CASE k # i
    BY <1>0, <1>1, <2>1 DEF Observe, TypeOK
  <2>2. CASE k = i
    <3>1. item'[i] = Upserted(i, h, u)
      BY <1>0, <1>1, <2>2 DEF Observe, TypeOK
    <3>2. CASE Upserted(i, h, u).hash = h
      BY <1>0, <1>1, <2>2, <3>1, <3>2 DEF Observe, TypeOK, Counts
    <3>3. CASE Upserted(i, h, u).hash # h
      BY <1>0, <1>1, <2>2, <3>1, <3>3 DEF Observe, TypeOK, Upserted
    <3> QED BY <3>2, <3>3
  <2> QED BY <2>1, <2>2
<1>2. ASSUME NEW k \in Items, Ingest(k)
      PROVE  \/ item'[i] = item[i] /\ seen'[i] = seen[i]
             \/ \E h \in Hashes, u \in 1..MaxUpdate :
                 \/ IngestOpen(i, h, u) /\ Counts(i, h, u, "open")
                 \/ IngestQuiet(i, h, u) /\ Counts(i, h, u, "quiet")
                 \/ IngestSuppressed(i, h, u) /\ Counts(i, h, u, "closed")
  <2>1. PICK h \in Hashes, u \in 1..MaxUpdate :
            IngestOpen(k, h, u) \/ IngestQuiet(k, h, u) \/ IngestSuppressed(k, h, u)
    BY <1>2 DEF Ingest
  <2>2. CASE IngestOpen(k, h, u)
    BY <1>1, <2>2 DEF IngestOpen
  <2>3. CASE IngestQuiet(k, h, u)
    BY <1>1, <2>3 DEF IngestQuiet
  <2>4. CASE IngestSuppressed(k, h, u)
    BY <1>1, <2>4 DEF IngestSuppressed
  <2> QED BY <2>1, <2>2, <2>3, <2>4
<1>3. CASE UNCHANGED vars
  BY <1>3 DEF vars
<1>4. CASE Requeue
  BY <1>0, <1>4 DEF Requeue, RequeueJobs, TypeOK
<1>5. CASE Time \/ \E j \in Jobs : NotesSettle(j)
  BY <1>5 DEF Time, LeaseExpires, DelayElapses, NotesSettle, history
<1>6. ASSUME NEW w \in Slots, Poll(w) PROVE item' = item /\ seen' = seen
  BY <1>6 DEF Poll, ReapDead, ReapPending, Sweep, ClaimNothing, Claim, history, dbVars
<1>7. ASSUME NEW w \in Slots, Work(w) \/ Stop(w) PROVE item' = item /\ seen' = seen
  BY <1>7 DEF Work, Stop, Finalize, SkipSuperseded, DropStale, ClassifierFails, ModelUnavailable,
     PersistFails, ReadAttempts, MarkJobFailed, history, dbVars
<1> QED BY <1>2, <1>3, <1>4, <1>5, <1>6, <1>7 DEF Next

\* Only hydration and the cutover leave a skipped job without a reason, and they
\* leave it quiet.
SkippedHasReason == \A j \in Jobs : job[j].status = "skipped" =>
    \/ job[j].reason \in {"source_suppressed", "superseded_content_hash"}
    \/ job[j].reason = "none" /\ job[j].quiet

SeenHasContent == \A i \in Items : seen[i] # "nothing" => item[i].hash \in Hashes

\* The strengthening of OpenContentIsQueued that a step preserves.
Open == TypeInv /\ SkippedHasReason /\ SeenHasContent /\ OpenContentIsQueued

\* The empty database satisfies Open.
LEMMA OpenInit == Init => Open
<1> SUFFICES ASSUME Init PROVE Open
  OBVIOUS
<1>1. \A j \in Jobs : job[j].status = "absent"
  BY DEF Init, AbsentRow
<1> QED BY <1>1, TypeInit DEF Init, Open, SkippedHasReason, SeenHasContent, OpenContentIsQueued

\* Whoever skips a job leaves a reason, or is hydration.
LEMMA SkippedStep ==
    ASSUME TypeInv, SkippedHasReason, [Next]_vars
    PROVE  SkippedHasReason'
<1> SUFFICES ASSUME NEW j \in Jobs, job'[j].status = "skipped"
             PROVE  \/ job'[j].reason \in {"source_suppressed", "superseded_content_hash"}
                    \/ job'[j].reason = "none" /\ job'[j].quiet
  BY DEF SkippedHasReason
<1> QED BY SkipFate DEF Kept, SkippedHasReason

\* An item that was seen has content.
LEMMA ContentStep ==
    ASSUME TypeInv, SeenHasContent, [Next]_vars
    PROVE  SeenHasContent'
<1> SUFFICES ASSUME NEW i \in Items, seen'[i] # "nothing"
             PROVE  item'[i].hash \in Hashes
  BY DEF SeenHasContent
<1>1. CASE item'[i] = item[i] /\ seen'[i] = seen[i]
  BY <1>1 DEF SeenHasContent
<1>2. CASE item'[i] = item[i] /\ seen'[i] = "requeued" /\ seen'[i] # seen[i]
  <2>1. Requeue
    <3>1. ASSUME NEW k \in Items, Ingest(k) PROVE FALSE
      BY <1>2, <3>1 DEF Ingest, IngestOpen, IngestQuiet, IngestSuppressed, Observe, TypeInv, TypeOK
    <3>2. ASSUME NEW w \in Slots, Poll(w) PROVE FALSE
      BY <1>2, <3>2 DEF Poll, ReapDead, ReapPending, Sweep, ClaimNothing, Claim, history, dbVars
    <3>3. ASSUME NEW w \in Slots, Work(w) \/ Stop(w) PROVE FALSE
      BY <1>2, <3>3 DEF Work, Stop, Finalize, SkipSuperseded, DropStale, ClassifierFails,
         ModelUnavailable, PersistFails, ReadAttempts, MarkJobFailed, history, dbVars
    <3>4. CASE Time \/ (\E j \in Jobs : NotesSettle(j)) \/ UNCHANGED vars
      BY <1>2, <3>4 DEF Time, LeaseExpires, DelayElapses, NotesSettle, history, vars
    <3> QED BY <3>1, <3>2, <3>3, <3>4 DEF Next
  <2>2. seen[i] = "closed"
    BY <1>2, <2>1 DEF Requeue, RequeueJobs, TypeInv, TypeOK
  <2> QED BY <1>2, <2>2 DEF SeenHasContent
<1>3. ASSUME NEW h \in Hashes, NEW u \in 1..MaxUpdate, NEW kind \in {"open", "quiet", "closed"},
             Counts(i, h, u, kind)
      PROVE  item'[i].hash \in Hashes
  BY <1>3 DEF Counts
<1> QED BY <1>1, <1>2, <1>3, ItemFate

\* Only suppression, hydration and supersession skip a job, and none of them skips the
\* current job of an open item.
LEMMA OpenContentStep ==
    ASSUME Open, [Next]_vars
    PROVE  OpenContentIsQueued'
<1> SUFFICES ASSUME NEW i \in Items, seen'[i] = "open"
             PROVE  LET j == <<i, item'[i].hash>>
                    IN /\ job'[j].status # "absent"
                       /\ job'[j].status = "skipped" => job'[j].quiet /\ job'[j].reason = "none"
  BY DEF OpenContentIsQueued
<1>0. TypeInv /\ TypeOK /\ SkippedHasReason
  BY DEF Open, TypeInv
<1> DEFINE j == <<i, item'[i].hash>>
<1>1. j \in Jobs /\ j[1] = i /\ j[2] = item'[i].hash
  BY ContentStep DEF Open, SeenHasContent, Jobs
<1>2. ASSUME NEW h \in Hashes, NEW u \in 1..MaxUpdate, IngestOpen(i, h, u), Counts(i, h, u, "open")
      PROVE  /\ job'[j].status # "absent"
             /\ job'[j].status = "skipped" => job'[j].quiet /\ job'[j].reason = "none"
  <2>1. j = <<i, h>>
    BY <1>2 DEF Counts
  <2>2. CASE job[j].status = "absent" \/ Reactivatable(job[j])
    <3> DEFINE new == [Queued(job[j]) EXCEPT !.quiet = FALSE]
    <3>1. job'[j] = new
      BY <1>0, <1>1, <1>2, <2>1, <2>2 DEF IngestOpen, TypeOK
    <3>2. Queued(job[j]) \in JobRow /\ Queued(job[j]).status = "pending"
      BY <1>0, <1>1, Rows, RowTypes, RowFields
    <3>3. new.status = Queued(job[j]).status
      BY <3>2 DEF JobRow
    <3> HIDE DEF new
    <3> QED BY <3>1, <3>2, <3>3
  <2>3. CASE ~(job[j].status = "absent" \/ Reactivatable(job[j]))
    <3>1. job'[j] = job[j]
      BY <1>2, <2>1, <2>3 DEF IngestOpen
    <3> QED BY <1>0, <1>1, <2>3, <3>1 DEF Reactivatable, SkippedHasReason
  <2> QED BY <2>2, <2>3
<1>3. CASE item'[i] = item[i] /\ seen'[i] = seen[i]
  <2>1. /\ job[j].status # "absent"
        /\ job[j].status = "skipped" => job[j].quiet /\ job[j].reason = "none"
    BY <1>3 DEF Open, OpenContentIsQueued
  <2>2. job'[j].status # "absent"
    BY <1>0, <1>1, <2>1, Fate DEF RowFate, Kept, Taken, Let
  <2>3. ASSUME job'[j].status = "skipped" PROVE job'[j].quiet /\ job'[j].reason = "none"
    <3>1. Current(j)
      BY <1>1, <1>3 DEF Current
    <3>2. ASSUME NEW h \in Hashes, NEW u \in 1..MaxUpdate, IngestSuppressed(i, h, u),
                 Upserted(i, h, u).hash = h
          PROVE  FALSE
      BY <1>0, <3>2 DEF IngestSuppressed, Observe, TypeOK
    <3> QED BY <1>0, <1>1, <2>1, <2>3, <3>1, <3>2, SkipFate DEF Kept
  <2> QED BY <2>2, <2>3
<1> QED BY <1>0, <1>2, <1>3, ItemFate DEF Counts

\* Every step preserves Open.
LEMMA OpenStep == Open /\ [Next]_vars => Open'
BY TypeStep, SkippedStep, ContentStep, OpenContentStep DEF Open

\* However often an open item is closed, reopened, changed and changed back, the
\* job of the content it shows is queued, running, finished or given up.
THEOREM OpenContentIsAlwaysQueued == Spec => []OpenContentIsQueued
<1>1. Open => OpenContentIsQueued
  BY DEF Open
<1> QED BY <1>1, OpenInit, OpenStep, PTL DEF Spec
-----------------------------------------------------------------------------
(* When the database does not refuse a result *)

NoneBroken == \A w \in Slots : slot[w].pc \notin {"broken", "overwriting"}

\* Without database errors no slot reaches markJobFailed.
LEMMA NoneBrokenStep ==
    ASSUME PersistErrors = FALSE, TypeInv, NoneBroken, [Next]_vars
    PROVE  NoneBroken'
<1> SUFFICES ASSUME NEW w \in Slots, slot'[w].pc \in {"broken", "overwriting"}
             PROVE  FALSE
  BY DEF NoneBroken
<1>0. TypeOK /\ slot'[w] # slot[w]
  BY DEF NoneBroken, TypeInv
<1>1. CASE UNCHANGED vars
  BY <1>0, <1>1 DEF vars
<1>2. ASSUME NEW i \in Items, Ingest(i) PROVE FALSE
  BY <1>0, <1>2 DEF Ingest, IngestOpen, IngestQuiet, IngestSuppressed
<1>3. CASE Time \/ Requeue \/ \E j \in Jobs : NotesSettle(j)
  BY <1>0, <1>3 DEF Time, LeaseExpires, DelayElapses, Requeue, RequeueJobs, NotesSettle
<1>4. ASSUME NEW v \in Slots, Poll(v) \/ Work(v) \/ Stop(v) PROVE FALSE
  <2>1. CASE \E j \in Jobs : Claim(v, j)
    BY <1>0, <2>1 DEF Claim, ClaimedJob, TypeOK
  <2>2. CASE Rest(v)
    BY <1>0, <2>2 DEF Rest, IdleSlot, TypeOK
  <2>3. CASE \E pc \in {"reaping", "sweeping", "claiming"} : Go(v, pc)
    BY <1>0, <2>3 DEF Go, TypeOK, SlotState
  <2>4. CASE ReadAttempts(v) \/ PersistFails(v)
    BY <2>4 DEF ReadAttempts, PersistFails, NoneBroken
  <2> QED BY <1>4, <2>1, <2>2, <2>3, <2>4 DEF Poll, ReapDead, ReapPending, Sweep, ClaimNothing, Work, Stop,
       Finalize, SkipSuperseded, DropStale, ClassifierFails, ModelUnavailable, MarkJobFailed
<1> QED BY <1>1, <1>2, <1>3, <1>4 DEF Next

\* What a slot may do to a row: free it when its lease ran out, sweep or claim
\* it while it waits, or settle it while the lease is its own.
LEMMA SlotActs ==
    ASSUME TypeInv, NEW w \in Slots, Poll(w) \/ Work(w) \/ Stop(w), NoneBroken \/ ~MarkJobFailed(w),
           NEW j \in Jobs, job'[j] # job[j]
    PROVE  \/ /\ Expired(j)
              /\ \/ job'[j] = Released(job[j], "dead") /\ Exhausted(job[j].attempts)
                 \/ job'[j] = Released(job[j], "pending") /\ ~Exhausted(job[j].attempts)
              /\ produced' = produced
           \/ /\ job[j].status = "pending"
              /\ \/ job'[j] = Skipped(job[j], "superseded_content_hash")
                 \/ job'[j] = ClaimedRow(job[j], w) /\ ~Exhausted(job[j].attempts)
              /\ produced' = produced
           \/ /\ slot[w].pc = "classifying" /\ slot[w].job = j /\ Owns(w, j)
              /\ slot'[w] = IdleSlot
              /\ \/ job'[j] = Skipped(job[j], "superseded_content_hash") /\ produced' = produced
                 \/ job'[j] = FailedRow(job[j], slot[w].attempts) /\ produced' = produced
                 \/ job'[j] = TransientRow(job[j]) /\ produced' = produced
                 \/ Finalize(w) /\ job'[j] = Released(job[j], "succeeded")
<1>0. TypeOK
  BY DEF TypeInv
<1>1. CASE ReapDead(w)
  BY <1>1 DEF ReapDead, history
<1>2. CASE ReapPending(w)
  BY <1>2 DEF ReapPending, history
<1>3. CASE Sweep(w)
  BY <1>3 DEF Sweep, history
<1>4. ASSUME NEW k \in Jobs, Claim(w, k)
      PROVE  /\ job[j].status = "pending" /\ ~Exhausted(job[j].attempts)
             /\ job'[j] = ClaimedRow(job[j], w) /\ produced' = produced
  BY <1>0, <1>4 DEF Claim, Claimable, TypeOK, history
<1>5. ASSUME Finalize(w) \/ SkipSuperseded(w) \/ ClassifierFails(w) \/ ModelUnavailable(w)
      PROVE  /\ slot[w].pc = "classifying" /\ slot[w].job = j /\ Owns(w, j)
             /\ slot'[w] = IdleSlot
  <2>1. slot[w].pc = "classifying" /\ slot[w].job \in Jobs
    BY <1>5 DEF Finalize, SkipSuperseded, ClassifierFails, ModelUnavailable, TypeInv, WorkHasJob, Busy
  <2> QED BY <1>0, <1>5, <2>1 DEF Finalize, SkipSuperseded, ClassifierFails, ModelUnavailable, MayFinalize,
          Rest, TypeOK
<1>6. CASE Finalize(w)
  BY <1>0, <1>5, <1>6 DEF Finalize, TypeOK
<1>7. CASE SkipSuperseded(w)
  BY <1>0, <1>5, <1>7 DEF SkipSuperseded, TypeOK, history
<1>8. CASE ClassifierFails(w)
  BY <1>0, <1>5, <1>8 DEF ClassifierFails, TypeOK, history
<1>9. CASE ModelUnavailable(w)
  BY <1>0, <1>5, <1>9 DEF ModelUnavailable, TypeOK, history
<1>10. CASE MarkJobFailed(w)
  BY <1>10 DEF MarkJobFailed, NoneBroken
<1>11. CASE ClaimNothing(w) \/ DropStale(w) \/ PersistFails(w) \/ ReadAttempts(w) \/ Stop(w)
  BY <1>11 DEF ClaimNothing, DropStale, PersistFails, ReadAttempts, Stop, dbVars
<1> QED BY <1>1, <1>2, <1>3, <1>4, <1>6, <1>7, <1>8, <1>9, <1>10, <1>11 DEF Poll, Work

\* What an ingest may do to a row.
LEMMA SourceActs ==
    ASSUME TypeInv, NEW i \in Items, Ingest(i), NEW j \in Jobs
    PROVE  \/ job'[j] = job[j] /\ produced'[j] = produced[j]
           \/ /\ job[j].status \in {"absent", "skipped"}
              /\ job'[j].status = "pending" /\ job'[j].attempts = 0 /\ produced'[j] = 0
              /\ \E u \in 1..MaxUpdate : IngestOpen(j[1], j[2], u)
           \/ /\ job[j].status = "absent"
              /\ job'[j].status = "skipped" /\ job'[j].attempts = 0 /\ produced'[j] = produced[j]
           \/ /\ Unfinished(job[j])
              /\ job'[j] = Skipped(job[j], "source_suppressed") /\ produced'[j] = produced[j]
<1>0. TypeOK
  BY DEF TypeInv
<1>1. PICK h \in Hashes, u \in 1..MaxUpdate :
          IngestOpen(i, h, u) \/ IngestQuiet(i, h, u) \/ IngestSuppressed(i, h, u)
  BY DEF Ingest
<1>2. CASE IngestOpen(i, h, u)
  <2> DEFINE queues == job[<<i, h>>].status = "absent" \/ Reactivatable(job[<<i, h>>])
  <2>1. CASE j = <<i, h>> /\ queues
    <3> DEFINE new == [Queued(job[j]) EXCEPT !.quiet = FALSE]
    <3>1. job'[j] = new /\ produced'[j] = 0
      BY <1>0, <1>2, <2>1 DEF IngestOpen, TypeOK
    <3>2. Queued(job[j]) \in JobRow /\ Queued(job[j]).status = "pending" /\ Queued(job[j]).attempts = 0
      BY Rows, RowTypes, RowFields
    <3>3. new.status = Queued(job[j]).status /\ new.attempts = Queued(job[j]).attempts
      BY <3>2 DEF JobRow
    <3>4. job[j].status \in {"absent", "skipped"}
      BY <2>1 DEF Reactivatable
    <3>5. IngestOpen(j[1], j[2], u)
      BY <1>2, <2>1
    <3> HIDE DEF new
    <3> QED BY <3>1, <3>2, <3>3, <3>4, <3>5
  <2>2. CASE ~(j = <<i, h>> /\ queues)
    BY <1>0, <1>2, <2>2 DEF IngestOpen, TypeOK
  <2> QED BY <2>1, <2>2
<1>3. CASE IngestQuiet(i, h, u)
  BY <1>0, <1>3 DEF IngestQuiet, TypeOK, HydratedRow, AbsentRow
<1>4. CASE IngestSuppressed(i, h, u)
  BY <1>0, <1>4 DEF IngestSuppressed, TypeOK
<1> QED BY <1>1, <1>2, <1>3, <1>4

\* What the operator, the clock and the senders may do to a row.
LEMMA OtherActs ==
    ASSUME TypeInv, Time \/ Requeue \/ (\E k \in Jobs : NotesSettle(k)) \/ UNCHANGED vars,
           NEW j \in Jobs
    PROVE  \/ Kept(job[j], job'[j]) /\ produced'[j] = produced[j]
           \/ /\ job'[j] = Queued(job[j]) /\ produced'[j] = 0
              /\ seen'[j[1]] # "closed"
<1>0. TypeOK /\ job[j] \in JobRow /\ j[1] \in Items
  BY Rows DEF TypeInv, Jobs
<1>1. CASE Time
  <2>1. \/ job'[j] = job[j]
        \/ job'[j] = [job[j] EXCEPT !.expired = TRUE]
        \/ job'[j] = [job[j] EXCEPT !.delayed = FALSE]
    BY <1>0, <1>1 DEF Time, LeaseExpires, DelayElapses, TypeOK
  <2>2. produced' = produced
    BY <1>1 DEF Time, LeaseExpires, DelayElapses, history
  <2> QED BY <1>0, <2>1, <2>2 DEF Kept, JobRow
<1>2. CASE Requeue
  <2>1. PICK s \in RequeueStatuses, reasons \in {Reasons} \cup {{r} : r \in Reasons \ {"none"}} :
            RequeueJobs({s}, reasons)
    BY <1>2 DEF Requeue
  <2> DEFINE matches == {k \in Jobs : job[k].status \in {s} /\ job[k].reason \in reasons}
  <2>2. CASE j \in matches
    BY <1>0, <2>1, <2>2 DEF RequeueJobs, TypeOK
  <2>3. CASE j \notin matches
    BY <1>0, <2>1, <2>3 DEF RequeueJobs, TypeOK, Kept
  <2> QED BY <2>2, <2>3
<1>3. CASE (\E k \in Jobs : NotesSettle(k)) \/ UNCHANGED vars
  BY <1>3 DEF NotesSettle, vars, Kept, history
<1> QED BY <1>1, <1>2, <1>3

\* The strengthening of RetryBudget, OneResultPerQueueing and ClosedItemIsSilent
\* that a step preserves.
Tidy ==
    /\ Core
    /\ NoneBroken
    /\ RetryBudget
    /\ OneResultPerQueueing
    /\ ClosedItemIsSilent

\* The empty database satisfies Tidy.
LEMMA TidyInit == Init => Tidy
<1> SUFFICES ASSUME Init PROVE Tidy
  OBVIOUS
<1>1. \A j \in Jobs : job[j].status = "absent" /\ job[j].attempts = 0 /\ produced[j] = 0
  BY DEF Init, AbsentRow
<1>2. NoneBroken
  BY DEF Init, NoneBroken, IdleSlot
<1>3. RetryBudget
  BY <1>1, ConstantsAssumption DEF RetryBudget
<1>4. OneResultPerQueueing
  BY <1>1 DEF OneResultPerQueueing
<1>5. ClosedItemIsSilent
  BY DEF Init, ClosedItemIsSilent
<1> QED BY <1>2, <1>3, <1>4, <1>5, CoreInit DEF Tidy

\* A slot that gives a job back or up knows how many attempts the job has had.
LEMMA BudgetStep ==
    ASSUME Core, NoneBroken, RetryBudget, [Next]_vars
    PROVE  RetryBudget'
<1> SUFFICES ASSUME NEW j \in Jobs
             PROVE  /\ job'[j].status = "pending" => job'[j].attempts < MaxAttempts
                    /\ job'[j].status = "dead" => job'[j].attempts >= MaxAttempts
                    /\ job'[j].attempts <= MaxAttempts
  BY DEF RetryBudget
<1>0. /\ TypeInv /\ TypeOK /\ job[j] \in JobRow /\ job[j].attempts \in Nat
      /\ MaxAttempts \in Nat \ {0}
      /\ {"dead", "pending", "succeeded"} \subseteq Statuses
      /\ {"superseded_content_hash", "source_suppressed"} \subseteq Reasons
  BY Rows, ConstantsAssumption DEF Core, TypeInv, JobRow, Statuses, Reasons
<1>1. /\ job[j].status = "pending" => job[j].attempts < MaxAttempts
      /\ job[j].status = "dead" => job[j].attempts >= MaxAttempts
      /\ job[j].attempts <= MaxAttempts
  BY DEF RetryBudget
<1>2. CASE Kept(job[j], job'[j]) \/ job'[j] = job[j]
  BY <1>1, <1>2 DEF Kept
<1>3. CASE job'[j] = Queued(job[j])
  BY <1>0, <1>3, RowFields
<1>4. CASE job'[j].status \in {"pending", "skipped"} /\ job'[j].attempts = 0
  BY <1>0, <1>4
<1>5. ASSUME NEW r \in Reasons, job'[j] = Skipped(job[j], r)
      PROVE  job'[j].status = "skipped" /\ job'[j].attempts <= MaxAttempts
  BY <1>0, <1>1, <1>5, RowFields
<1>6. CASE job'[j] = Released(job[j], "dead") /\ Exhausted(job[j].attempts)
  BY <1>0, <1>1, <1>6, RowFields DEF Exhausted
<1>7. CASE job'[j] = Released(job[j], "pending") /\ ~Exhausted(job[j].attempts)
  BY <1>0, <1>1, <1>7, RowFields DEF Exhausted
<1>8. CASE job'[j] = Released(job[j], "succeeded")
  BY <1>0, <1>1, <1>8, RowFields
<1>9. ASSUME NEW w \in Slots, job'[j] = ClaimedRow(job[j], w), ~Exhausted(job[j].attempts)
      PROVE  job'[j].status = "running" /\ job'[j].attempts <= MaxAttempts
  BY <1>0, <1>9, RowFields DEF Exhausted
<1>10. ASSUME NEW w \in Slots, job'[j] = FailedRow(job[j], slot[w].attempts),
              slot[w].pc = "classifying", slot[w].job = j, Owns(w, j)
       PROVE  /\ job'[j].status = "pending" => job'[j].attempts < MaxAttempts
              /\ job'[j].status = "dead" => job'[j].attempts >= MaxAttempts
              /\ job'[j].attempts <= MaxAttempts
  <2>1. slot[w].attempts = job[j].attempts
    BY <1>10 DEF Core, ClaimedCopyIsFresh
  <2>2. /\ job'[j].attempts = job[j].attempts
        /\ job'[j].status = (IF Exhausted(job[j].attempts) THEN "dead" ELSE "pending")
    BY <1>0, <1>10, <2>1, RowFields
  <2> QED BY <1>0, <1>1, <2>2 DEF Exhausted
<1>11. ASSUME job'[j] = TransientRow(job[j])
       PROVE  /\ job'[j].status = "pending"
              /\ job'[j].attempts < MaxAttempts /\ job'[j].attempts <= MaxAttempts
  <2>1. job'[j].status = "pending" /\ job'[j].attempts = AttemptsReturned(job[j].attempts)
    BY <1>0, <1>11, RowFields
  <2> QED BY <1>0, <1>1, <2>1 DEF AttemptsReturned
<1>12. ASSUME NEW i \in Items, Ingest(i)
       PROVE  /\ job'[j].status = "pending" => job'[j].attempts < MaxAttempts
              /\ job'[j].status = "dead" => job'[j].attempts >= MaxAttempts
              /\ job'[j].attempts <= MaxAttempts
  BY <1>0, <1>2, <1>4, <1>5, <1>12, SourceActs
<1>13. ASSUME NEW w \in Slots, Poll(w) \/ Work(w) \/ Stop(w), job'[j] # job[j]
       PROVE  /\ job'[j].status = "pending" => job'[j].attempts < MaxAttempts
              /\ job'[j].status = "dead" => job'[j].attempts >= MaxAttempts
              /\ job'[j].attempts <= MaxAttempts
  <2>1. \/ job'[j] = Released(job[j], "dead") /\ Exhausted(job[j].attempts)
        \/ job'[j] = Released(job[j], "pending") /\ ~Exhausted(job[j].attempts)
        \/ job'[j] = Skipped(job[j], "superseded_content_hash")
        \/ job'[j] = ClaimedRow(job[j], w) /\ ~Exhausted(job[j].attempts)
        \/ /\ slot[w].pc = "classifying" /\ slot[w].job = j /\ Owns(w, j)
           /\ job'[j] = FailedRow(job[j], slot[w].attempts)
        \/ job'[j] = TransientRow(job[j])
        \/ job'[j] = Released(job[j], "succeeded")
    BY <1>0, <1>13, SlotActs
  <2>2. CASE job'[j] = Skipped(job[j], "superseded_content_hash")
    <3>1. job'[j].status = "skipped" /\ job'[j].attempts <= MaxAttempts
      BY <1>0, <1>5, <2>2
    <3> QED BY <3>1
  <2>3. CASE job'[j] = ClaimedRow(job[j], w) /\ ~Exhausted(job[j].attempts)
    BY <1>9, <2>3
  <2>4. CASE job'[j] = TransientRow(job[j])
    <3>1. /\ job'[j].status = "pending"
          /\ job'[j].attempts < MaxAttempts /\ job'[j].attempts <= MaxAttempts
      BY <1>11, <2>4
    <3> QED BY <3>1
  <2>5. CASE /\ slot[w].pc = "classifying" /\ slot[w].job = j /\ Owns(w, j)
             /\ job'[j] = FailedRow(job[j], slot[w].attempts)
    BY <1>10, <2>5
  <2> QED BY <1>6, <1>7, <1>8, <2>1, <2>2, <2>3, <2>4, <2>5
<1>14. CASE Time \/ Requeue \/ (\E k \in Jobs : NotesSettle(k)) \/ UNCHANGED vars
  BY <1>0, <1>2, <1>3, <1>14, OtherActs
<1> QED BY <1>2, <1>12, <1>13, <1>14 DEF Next

\* A slot that leaves a row alone leaves the count of its results alone.
LEMMA CountStays ==
    ASSUME Core, NEW w \in Slots, Poll(w) \/ Work(w) \/ Stop(w), NEW j \in Jobs, job'[j] = job[j]
    PROVE  produced'[j] = produced[j]
<1>0. TypeInv /\ TypeOK
  BY DEF Core, TypeInv
<1>1. CASE Finalize(w)
  <2>1. slot[w].job \in Jobs /\ Owns(w, slot[w].job)
    BY <1>1 DEF Finalize, MayFinalize, Core, TypeInv, WorkHasJob, Busy
  <2>2. job'[slot[w].job] = Released(job[slot[w].job], "succeeded")
    BY <1>0, <1>1, <2>1 DEF Finalize, TypeOK
  <2>3. Released(job[slot[w].job], "succeeded").status = "succeeded"
    BY <1>0, <2>1, Rows, RowFields DEF Statuses
  <2>4. slot[w].job # j
    BY <2>1, <2>2, <2>3 DEF Owns
  <2> QED BY <1>0, <1>1, <2>4 DEF Finalize, TypeOK
<1>2. CASE ~Finalize(w)
  BY <1>2 DEF Poll, ReapDead, ReapPending, Sweep, ClaimNothing, Claim, Work, Stop,
     SkipSuperseded, DropStale, ClassifierFails, ModelUnavailable, PersistFails, ReadAttempts,
     MarkJobFailed, history, dbVars
<1> QED BY <1>1, <1>2

\* A result is stored when the job turns succeeded, and at no other time.
LEMMA ResultStep ==
    ASSUME Core, NoneBroken, OneResultPerQueueing, [Next]_vars
    PROVE  OneResultPerQueueing'
<1> SUFFICES ASSUME NEW j \in Jobs
             PROVE  produced'[j] = (IF job'[j].status = "succeeded" THEN 1 ELSE 0)
  BY DEF OneResultPerQueueing
<1>0. /\ TypeInv /\ TypeOK /\ job[j] \in JobRow
      /\ {"dead", "pending", "succeeded"} \subseteq Statuses
      /\ {"superseded_content_hash", "source_suppressed"} \subseteq Reasons
  BY Rows DEF Core, TypeInv, Statuses, Reasons
<1>1. produced[j] = (IF job[j].status = "succeeded" THEN 1 ELSE 0)
  BY DEF OneResultPerQueueing
<1>2. ASSUME NEW i \in Items, Ingest(i)
      PROVE  produced'[j] = (IF job'[j].status = "succeeded" THEN 1 ELSE 0)
  <2>1. CASE job'[j] = Skipped(job[j], "source_suppressed") /\ Unfinished(job[j]) /\ produced'[j] = produced[j]
    BY <1>0, <1>1, <2>1, RowFields DEF Unfinished
  <2> QED BY <1>0, <1>1, <1>2, <2>1, SourceActs
<1>3. CASE Time \/ Requeue \/ (\E k \in Jobs : NotesSettle(k)) \/ UNCHANGED vars
  <2>1. CASE Kept(job[j], job'[j]) /\ produced'[j] = produced[j]
    BY <1>1, <2>1 DEF Kept
  <2>2. CASE job'[j] = Queued(job[j]) /\ produced'[j] = 0
    BY <1>0, <2>2, RowFields
  <2> QED BY <1>0, <1>3, <2>1, <2>2, OtherActs
<1>4. ASSUME NEW w \in Slots, Poll(w) \/ Work(w) \/ Stop(w), job'[j] = job[j]
      PROVE  produced'[j] = produced[j]
  BY <1>4, CountStays
<1>5. ASSUME NEW w \in Slots, Poll(w) \/ Work(w) \/ Stop(w), job'[j] # job[j]
      PROVE  produced'[j] = (IF job'[j].status = "succeeded" THEN 1 ELSE 0)
  <2>1. CASE Expired(j) /\ produced' = produced
             /\ (job'[j] = Released(job[j], "dead") \/ job'[j] = Released(job[j], "pending"))
    BY <1>0, <1>1, <2>1, RowFields DEF Expired
  <2>2. CASE job[j].status = "pending" /\ produced' = produced
             /\ (job'[j] = Skipped(job[j], "superseded_content_hash") \/ job'[j] = ClaimedRow(job[j], w))
    BY <1>0, <1>1, <2>2, RowFields
  <2>3. slot[w].attempts \in Nat
    BY <1>0 DEF TypeOK, SlotState
  <2>4. CASE Owns(w, j) /\ produced' = produced
             /\ \/ job'[j] = Skipped(job[j], "superseded_content_hash")
                \/ job'[j] = FailedRow(job[j], slot[w].attempts)
                \/ job'[j] = TransientRow(job[j])
    BY <1>0, <1>1, <2>3, <2>4, RowFields DEF Owns
  <2>5. CASE Finalize(w) /\ slot[w].job = j /\ Owns(w, j) /\ job'[j] = Released(job[j], "succeeded")
    <3>1. produced'[j] = (IF produced[j] = 0 THEN 1 ELSE 2)
      BY <1>0, <2>5 DEF Finalize, TypeOK
    <3>2. produced[j] = 0
      BY <1>1, <2>5 DEF Owns
    <3> QED BY <1>0, <2>5, <3>1, <3>2, RowFields
  <2> QED BY <1>0, <1>5, <2>1, <2>2, <2>4, <2>5, SlotActs
<1> QED BY <1>1, <1>2, <1>3, <1>4, <1>5 DEF Next

\* How a row comes to wait.
LEMMA PendingFate ==
    ASSUME TypeInv, NoneBroken, [Next]_vars, NEW j \in Jobs, job'[j].status = "pending"
    PROVE  \/ job[j].status \in {"pending", "running"}
           \/ seen'[j[1]] # "closed"
           \/ \E u \in 1..MaxUpdate : IngestOpen(j[1], j[2], u)
<1>0. job[j] \in JobRow /\ "source_suppressed" \in Reasons /\ "superseded_content_hash" \in Reasons
  BY Rows DEF Reasons
<1>1. CASE job'[j] = job[j]
  BY <1>1
<1>2. ASSUME NEW i \in Items, Ingest(i)
      PROVE  \/ job[j].status \in {"pending", "running"}
             \/ \E u \in 1..MaxUpdate : IngestOpen(j[1], j[2], u)
  BY <1>0, <1>1, <1>2, SourceActs DEF Unfinished
<1>3. CASE Time \/ Requeue \/ (\E k \in Jobs : NotesSettle(k)) \/ UNCHANGED vars
  BY <1>3, OtherActs DEF Kept
<1>4. ASSUME NEW w \in Slots, Poll(w) \/ Work(w) \/ Stop(w), job'[j] # job[j]
      PROVE  job[j].status \in {"pending", "running"}
  BY <1>4, SlotActs DEF Expired, Owns
<1> QED BY <1>1, <1>2, <1>3, <1>4 DEF Next

\* Closing an item stops its jobs, and only reopening or an operator starts one.
LEMMA ClosedStep ==
    ASSUME Core, NoneBroken, ClosedItemIsSilent, [Next]_vars
    PROVE  ClosedItemIsSilent'
<1> SUFFICES ASSUME NEW i \in Items, seen'[i] = "closed"
             PROVE  /\ \A j \in Jobs : j[1] = i => /\ job'[j].status # "running"
                                                   /\ job'[j].status = "pending" => ~Current(j)'
                    /\ \A j \in openNotes' : j[1] # i
  BY DEF ClosedItemIsSilent
<1>0. TypeInv /\ TypeOK
  BY DEF Core, TypeInv
<1>1. ASSUME NEW h \in Hashes, NEW u \in 1..MaxUpdate, IngestSuppressed(i, h, u),
             Counts(i, h, u, "closed")
      PROVE  /\ \A j \in Jobs : j[1] = i => job'[j].status \notin {"running", "pending"}
             /\ \A j \in openNotes' : j[1] # i
  <2>1. openNotes' = NotesWithout(i)
    BY <1>1 DEF IngestSuppressed, Counts
  <2>2. ASSUME NEW j \in Jobs, j[1] = i PROVE job'[j].status \notin {"running", "pending"}
    <3>1. job'[j] = IF Unfinished(job[j]) THEN Skipped(job[j], "source_suppressed") ELSE job[j]
      BY <1>1, <2>2 DEF IngestSuppressed, Counts
    <3>2. job[j] \in JobRow /\ "source_suppressed" \in Reasons
      BY <1>0, Rows DEF Reasons
    <3> QED BY <3>1, <3>2, RowFields DEF Unfinished
  <2> QED BY <2>1, <2>2 DEF NotesWithout
<1>2. ASSUME item'[i] = item[i], seen[i] = "closed"
      PROVE  /\ \A j \in Jobs : j[1] = i => /\ job'[j].status # "running"
                                            /\ job'[j].status = "pending" => ~Current(j)'
             /\ \A j \in openNotes' : j[1] # i
  <2>1. ASSUME NEW j \in Jobs, j[1] = i
        PROVE  /\ job[j].status # "running"
               /\ job[j].status = "pending" => ~Current(j)
               /\ Current(j)' <=> Current(j)
    BY <1>2, <2>1 DEF ClosedItemIsSilent, Current
  <2>2. ASSUME NEW j \in Jobs, j[1] = i PROVE job'[j].status # "running"
    BY <1>0, <2>1, <2>2, Fate DEF RowFate, Kept, Taken, Let
  <2>3. ASSUME NEW j \in Jobs, j[1] = i, job'[j].status = "pending" PROVE ~Current(j)'
    <3>1. ASSUME NEW u \in 1..MaxUpdate, IngestOpen(i, j[2], u), Current(j)' PROVE FALSE
      <4>1. Observe(i, j[2], u, "open") /\ j[2] \in Hashes
        BY <3>1 DEF IngestOpen, Jobs
      <4>2. Upserted(i, j[2], u) = item'[i]
        BY <1>0, <4>1 DEF Observe, TypeOK
      <4>3. seen'[i] = "open"
        BY <1>0, <2>3, <3>1, <4>1, <4>2 DEF Observe, TypeOK, Current
      <4> QED BY <4>3
    <3> QED BY <1>0, <2>1, <2>3, <3>1, PendingFate
  <2>4. ASSUME NEW w \in Slots, Finalize(w) PROVE \A j \in openNotes' : j[1] # i
    <3>1. slot[w].job \in Jobs /\ job[slot[w].job].status = "running"
      BY <1>0, <2>4 DEF Finalize, MayFinalize, Owns, TypeInv, WorkHasJob, Busy
    <3>2. openNotes' \subseteq openNotes \cup {slot[w].job}
      BY <2>4 DEF Finalize, OpenNote
    <3> QED BY <1>2, <2>1, <3>1, <3>2 DEF ClosedItemIsSilent
  <2>5. \A j \in openNotes' : j[1] # i
    BY <1>0, <1>2, <2>4, NotesFate DEF ClosedItemIsSilent
  <2> QED BY <2>2, <2>3, <2>5
<1> QED BY <1>0, <1>1, <1>2, ItemFate DEF Counts

\* Every step preserves Tidy.
LEMMA TidyStep == PersistErrors = FALSE /\ Tidy /\ [Next]_vars => Tidy'
BY CoreStep, NoneBrokenStep, BudgetStep, ResultStep, ClosedStep DEF Tidy, Core

\* Tidy is invariant.
LEMMA TidyAlways == ASSUME PersistErrors = FALSE PROVE Spec => []Tidy
<1>1. Tidy /\ [Next]_vars => Tidy'
  BY TidyStep
<1> QED BY <1>1, TidyInit, PTL DEF Spec

\* If the database refuses no result, a waiting job always has an attempt left
\* and a job is given up only after MaxAttempts attempts.
THEOREM RetryBudgetHolds == ASSUME PersistErrors = FALSE PROVE Spec => []RetryBudget
<1>1. Tidy => RetryBudget
  BY DEF Tidy
<1> QED BY <1>1, TidyAlways, PTL

\* If the database refuses no result, no job queued once yields two results, and
\* none with a result is retried.
THEOREM OneResultHolds == ASSUME PersistErrors = FALSE PROVE Spec => []OneResultPerQueueing
<1>1. Tidy => OneResultPerQueueing
  BY DEF Tidy
<1> QED BY <1>1, TidyAlways, PTL

\* If the database refuses no result, nothing of a closed item runs, can be
\* claimed or waits to be sent.
THEOREM ClosedItemsAreSilent == ASSUME PersistErrors = FALSE PROVE Spec => []ClosedItemIsSilent
<1>1. Tidy => ClosedItemIsSilent
  BY DEF Tidy
<1> QED BY <1>1, TidyAlways, PTL
-----------------------------------------------------------------------------
(* What a step may never do *)

\* The stored observation is the most recent one.
NewestIsStored == \A i \in Items :
    /\ newest[i].updated = item[i].updated
    /\ item[i].hash \in newest[i].hashes \cup {NoHash}

\* Ingest keeps the most recent observation, whatever the order of arrival.
LEMMA NewestStep ==
    ASSUME TypeInv, NewestIsStored, [Next]_vars
    PROVE  NewestIsStored'
<1>0. TypeOK
  BY DEF TypeInv
<1>1. ASSUME item' = item, newest' = newest PROVE NewestIsStored'
  BY <1>1 DEF NewestIsStored
<1>2. ASSUME NEW k \in Items, NEW h \in Hashes, NEW u \in 1..MaxUpdate,
             NEW kind \in {"open", "quiet", "closed"}, Observe(k, h, u, kind)
      PROVE  NewestIsStored'
  <2> SUFFICES ASSUME NEW i \in Items
               PROVE  /\ newest'[i].updated = item'[i].updated
                      /\ item'[i].hash \in newest'[i].hashes \cup {NoHash}
    BY DEF NewestIsStored
  <2>1. CASE i # k
    BY <1>0, <1>2, <2>1 DEF Observe, TypeOK, NewestIsStored
  <2>2. CASE i = k
    <3> DEFINE old == newest[i]
    <3> DEFINE Entry == CASE u > newest[i].updated -> [updated |-> u, hashes |-> {h}]
                          [] u = newest[i].updated -> [newest[i] EXCEPT !.hashes = newest[i].hashes \cup {h}]
                          [] OTHER -> newest[i]
    <3>1. item'[i] = Upserted(i, h, u) /\ newest'[i] = Entry
      <4>1. newest' = [newest EXCEPT ![i] = Entry] /\ item' = [item EXCEPT ![i] = Upserted(i, h, u)]
        BY <1>2, <2>2 DEF Observe
      <4> QED BY <1>0, <4>1 DEF TypeOK
    <3>2. /\ old.updated = item[i].updated /\ old.updated \in Nat /\ u \in Nat
          /\ item[i].hash \in old.hashes \cup {NoHash}
          /\ old \in [updated: Nat, hashes: SUBSET Hashes]
      BY <1>0, ConstantsAssumption DEF NewestIsStored, TypeOK
    <3>3. CASE u > old.updated
      BY <3>1, <3>2, <3>3 DEF Upserted
    <3>4. CASE u = old.updated
      <4>1. newest'[i] = [old EXCEPT !.hashes = old.hashes \cup {h}]
        BY <3>1, <3>2, <3>4
      <4>2. newest'[i].updated = u /\ newest'[i].hashes = old.hashes \cup {h}
        BY <3>2, <3>4, <4>1
      <4>3. item'[i] = [hash |-> h, updated |-> u]
        BY <3>1, <3>2, <3>4 DEF Upserted
      <4> QED BY <4>2, <4>3
    <3>5. CASE u < old.updated
      BY <3>1, <3>2, <3>5 DEF Upserted
    <3> QED BY <3>2, <3>3, <3>4, <3>5
  <2> QED BY <2>1, <2>2
<1>3. ASSUME NEW i \in Items, Ingest(i) PROVE NewestIsStored'
  BY <1>2, <1>3 DEF Ingest, IngestOpen, IngestQuiet, IngestSuppressed
<1>4. ASSUME NEW w \in Slots, Poll(w) PROVE item' = item /\ newest' = newest
  BY <1>4 DEF Poll, ReapDead, ReapPending, Sweep, ClaimNothing, Claim, history, dbVars
<1>5. ASSUME NEW w \in Slots, Work(w) \/ Stop(w) PROVE item' = item /\ newest' = newest
  BY <1>5 DEF Work, Stop, Finalize, SkipSuperseded, DropStale, ClassifierFails, ModelUnavailable,
     PersistFails, ReadAttempts, MarkJobFailed, history, dbVars
<1>6. CASE Time \/ Requeue \/ (\E j \in Jobs : NotesSettle(j)) \/ UNCHANGED vars
  BY <1>1, <1>6 DEF Time, LeaseExpires, DelayElapses, Requeue, RequeueJobs, NotesSettle, history, vars
<1> QED BY <1>1, <1>3, <1>4, <1>5, <1>6 DEF Next

NewestInv == Core /\ NewestIsStored

\* So the stored content is always the newest one reported.
LEMMA NewestAlways == Spec => []NewestInv
<1>1. Init => NewestInv
  BY CoreInit DEF Init, NewestInv, NewestIsStored
<1>2. NewestInv /\ [Next]_vars => NewestInv'
  BY CoreStep, NewestStep DEF NewestInv, Core
<1> QED BY <1>1, <1>2, PTL DEF Spec

\* A count of results grows only in the transaction that finalizes the job.
LEMMA ProducedFate ==
    ASSUME TypeInv, [Next]_vars, NEW j \in Jobs, produced'[j] > produced[j]
    PROVE  \E w \in Slots : Finalize(w) /\ slot[w].job = j
<1>0. TypeOK /\ produced[j] \in 0..2
  BY DEF TypeInv, TypeOK
<1>1. produced'[j] # produced[j]
  BY <1>0
<1>2. ASSUME NEW i \in Items, Ingest(i) PROVE FALSE
  <2>1. produced'[j] \in {0, produced[j]}
    BY <1>0, <1>2 DEF Ingest, IngestOpen, IngestQuiet, IngestSuppressed, TypeOK
  <2> QED BY <1>0, <2>1
<1>3. CASE Requeue
  <2>1. produced'[j] \in {0, produced[j]}
    BY <1>0, <1>3 DEF Requeue, RequeueJobs
  <2> QED BY <1>0, <2>1
<1>4. CASE Time \/ (\E k \in Jobs : NotesSettle(k)) \/ UNCHANGED vars
  BY <1>1, <1>4 DEF Time, LeaseExpires, DelayElapses, NotesSettle, history, vars
<1>5. ASSUME NEW w \in Slots, Poll(w) PROVE FALSE
  BY <1>1, <1>5 DEF Poll, ReapDead, ReapPending, Sweep, ClaimNothing, Claim, history, dbVars
<1>6. ASSUME NEW w \in Slots, Work(w) \/ Stop(w) PROVE Finalize(w) /\ slot[w].job = j
  <2>1. Finalize(w)
    BY <1>1, <1>6 DEF Work, Stop, SkipSuperseded, DropStale, ClassifierFails, ModelUnavailable,
       PersistFails, ReadAttempts, MarkJobFailed, history, dbVars
  <2> QED BY <1>0, <1>1, <2>1 DEF Finalize, TypeOK
<1> QED BY <1>2, <1>3, <1>4, <1>5, <1>6 DEF Next

\* A result is of the newest content the sources reported, whatever the order of
\* their reports, and comes from the slot that holds the lease.
THEOREM StoredResultsAreCurrent == Spec => ResultsAreCurrent
<1>1. ASSUME NewestInv, [Next]_vars, NEW j \in Jobs, produced'[j] > produced[j]
      PROVE  /\ j[2] \in newest[j[1]].hashes
             /\ job[j].status = "running"
             /\ slot[job[j].lease].job = j /\ slot[job[j].lease].pc = "classifying"
  <2>0. TypeInv /\ j[1] \in Items /\ j[2] \in Hashes
    BY <1>1 DEF NewestInv, Core, Jobs
  <2>1. PICK w \in Slots : Finalize(w) /\ slot[w].job = j
    BY <1>1, <2>0, ProducedFate
  <2>2. slot[w].pc = "classifying" /\ Owns(w, j) /\ Current(j)
    BY <2>1 DEF Finalize, MayFinalize
  <2>3. j[2] \in newest[j[1]].hashes
    BY <1>1, <2>0, <2>2, ConstantsAssumption DEF Current, NewestInv, NewestIsStored
  <2> QED BY <2>1, <2>2, <2>3 DEF Owns
<1>2. NewestInv /\ [Next]_vars => [\A j \in Jobs : produced'[j] > produced[j] =>
          /\ j[2] \in newest[j[1]].hashes
          /\ job[j].status = "running"
          /\ slot[job[j].lease].job = j /\ slot[job[j].lease].pc = "classifying"]_vars
  BY <1>1
<1> QED BY <1>2, NewestAlways, PTL DEF Spec, ResultsAreCurrent

\* If the database refuses no result, a lease that has not run out keeps every
\* other slot away from the job.
THEOREM LeasesProtect == ASSUME PersistErrors = FALSE PROVE Spec => LeaseProtects
<1>1. ASSUME Tidy, [Next]_vars, NEW j \in Jobs, NEW w \in Slots,
             job[j].status = "running", job[j].lease = w, ~job[j].expired, job'[j] # job[j]
      PROVE  slot' = slot \/ (slot[w].job = j /\ slot'[w] = IdleSlot)
  <2>1. TypeInv /\ NoneBroken
    BY <1>1 DEF Tidy, Core
  <2>2. ASSUME NEW i \in Items, Ingest(i) PROVE slot' = slot
    BY <2>2 DEF Ingest, IngestOpen, IngestQuiet, IngestSuppressed
  <2>3. CASE Time \/ Requeue \/ (\E k \in Jobs : NotesSettle(k)) \/ UNCHANGED vars
    BY <2>3 DEF Time, LeaseExpires, DelayElapses, Requeue, RequeueJobs, NotesSettle, vars
  <2>4. ASSUME NEW v \in Slots, Poll(v) \/ Work(v) \/ Stop(v)
        PROVE  slot[w].job = j /\ slot'[w] = IdleSlot
    BY <1>1, <2>1, <2>4, SlotActs DEF Expired, Owns
  <2> QED BY <1>1, <2>2, <2>3, <2>4 DEF Next
<1>2. Tidy /\ [Next]_vars => [\A j \in Jobs, w \in Slots :
          job[j].status = "running" /\ job[j].lease = w /\ ~job[j].expired /\ job'[j] # job[j] =>
              slot' = slot \/ (slot[w].job = j /\ slot'[w] = IdleSlot)]_vars
  BY <1>1
<1> QED BY <1>2, TidyAlways, PTL DEF Spec, LeaseProtects

\* If the database refuses no result, no worker touches a finished or skipped job.
THEOREM SettledJobsAreLeftAlone == ASSUME PersistErrors = FALSE PROVE Spec => WorkersLeaveSettledJobs
<1>1. ASSUME Tidy, [Next]_vars, NEW j \in Jobs,
             job[j].status \in {"succeeded", "skipped", "dead"}, job'[j] # job[j]
      PROVE  slot' = slot
  <2>1. TypeInv /\ NoneBroken
    BY <1>1 DEF Tidy, Core
  <2>2. ASSUME NEW i \in Items, Ingest(i) PROVE slot' = slot
    BY <2>2 DEF Ingest, IngestOpen, IngestQuiet, IngestSuppressed
  <2>3. CASE Time \/ Requeue \/ (\E k \in Jobs : NotesSettle(k)) \/ UNCHANGED vars
    BY <2>3 DEF Time, LeaseExpires, DelayElapses, Requeue, RequeueJobs, NotesSettle, vars
  <2>4. ASSUME NEW v \in Slots, Poll(v) \/ Work(v) \/ Stop(v) PROVE FALSE
    BY <1>1, <2>1, <2>4, SlotActs DEF Expired, Owns
  <2> QED BY <1>1, <2>2, <2>3, <2>4 DEF Next
<1>2. Tidy /\ [Next]_vars => [\A j \in Jobs :
          job[j].status \in {"succeeded", "skipped", "dead"} /\ job'[j] # job[j] => slot' = slot]_vars
  BY <1>1
<1> QED BY <1>2, TidyAlways, PTL DEF Spec, WorkersLeaveSettledJobs

-----------------------------------------------------------------------------
(* How a job is stranded, database errors or not *)

Capped == \A j \in Jobs : job[j].attempts <= MaxAttempts

\* A waiting job that a row's update leaves behind has an attempt left.
Ready(row) == row.attempts <= MaxAttempts /\ (row.status = "pending" => row.attempts < MaxAttempts)

\* What a step makes of a row: as it was, ready, or written by markJobFailed.
LEMMA ReadyStep ==
    ASSUME Core, Capped, [Next]_vars, NEW j \in Jobs
    PROVE  \/ Kept(job[j], job'[j])
           \/ Ready(job'[j])
           \/ \E w \in Slots : MarkJobFailed(w) /\ slot[w].job = j
<1>0. /\ TypeInv /\ TypeOK /\ job[j] \in JobRow /\ job[j].attempts \in Nat
      /\ job[j].attempts <= MaxAttempts /\ MaxAttempts \in Nat \ {0}
      /\ {"dead", "pending", "succeeded"} \subseteq Statuses
      /\ {"superseded_content_hash", "source_suppressed"} \subseteq Reasons
  BY Rows, ConstantsAssumption DEF Core, TypeInv, JobRow, Statuses, Reasons, Capped
<1>1. ASSUME job'[j] = job[j] PROVE Kept(job[j], job'[j])
  BY <1>1 DEF Kept
<1>2. ASSUME NEW r \in Reasons, job'[j] = Skipped(job[j], r) PROVE Ready(job'[j])
  <2>1. job'[j].status = "skipped" /\ job'[j].attempts = job[j].attempts
    BY <1>0, <1>2, RowFields
  <2> QED BY <1>0, <2>1 DEF Ready
<1>3. ASSUME job'[j].attempts = 0 PROVE Ready(job'[j])
  BY <1>0, <1>3 DEF Ready
<1>4. ASSUME NEW i \in Items, Ingest(i) PROVE Kept(job[j], job'[j]) \/ Ready(job'[j])
  <2>1. \/ job'[j] = job[j] \/ job'[j].attempts = 0
        \/ job'[j] = Skipped(job[j], "source_suppressed")
    BY <1>0, <1>4, SourceActs
  <2>2. CASE job'[j] = Skipped(job[j], "source_suppressed")
    <3>1. "source_suppressed" \in Reasons
      BY <1>0
    <3> QED BY <1>2, <2>2, <3>1
  <2> QED BY <1>1, <1>3, <2>1, <2>2
<1>5. CASE Time \/ Requeue \/ (\E k \in Jobs : NotesSettle(k)) \/ UNCHANGED vars
  <2>1. CASE job'[j] = Queued(job[j])
    BY <1>0, <1>3, <2>1, RowFields
  <2> QED BY <1>0, <1>5, <2>1, OtherActs
<1>6. ASSUME NEW w \in Slots, Poll(w) \/ Work(w) \/ Stop(w), ~MarkJobFailed(w), job'[j] # job[j]
      PROVE  Ready(job'[j])
  <2>1. \/ job'[j] = Released(job[j], "dead")
        \/ job'[j] = Released(job[j], "pending") /\ ~Exhausted(job[j].attempts)
        \/ job'[j] = Skipped(job[j], "superseded_content_hash")
        \/ job'[j] = ClaimedRow(job[j], w) /\ ~Exhausted(job[j].attempts)
        \/ /\ slot[w].pc = "classifying" /\ slot[w].job = j /\ Owns(w, j)
           /\ job'[j] = FailedRow(job[j], slot[w].attempts)
        \/ job'[j] = TransientRow(job[j])
        \/ job'[j] = Released(job[j], "succeeded")
    BY <1>0, <1>6, SlotActs
  <2>2. CASE job'[j] = Released(job[j], "dead") \/ job'[j] = Released(job[j], "succeeded")
    <3>1. job'[j].status # "pending" /\ job'[j].attempts = job[j].attempts
      BY <1>0, <2>2, RowFields
    <3> QED BY <1>0, <3>1 DEF Ready
  <2>3. CASE job'[j] = Released(job[j], "pending") /\ ~Exhausted(job[j].attempts)
    <3>1. job'[j].attempts = job[j].attempts
      BY <1>0, <2>3, RowFields
    <3> QED BY <1>0, <2>3, <3>1 DEF Ready, Exhausted
  <2>4. CASE job'[j] = Skipped(job[j], "superseded_content_hash")
    BY <1>0, <1>2, <2>4
  <2>5. CASE job'[j] = ClaimedRow(job[j], w) /\ ~Exhausted(job[j].attempts)
    <3>1. job'[j].status = "running" /\ job'[j].attempts = job[j].attempts + 1
      BY <1>0, <2>5, RowFields
    <3> QED BY <1>0, <2>5, <3>1 DEF Ready, Exhausted
  <2>6. CASE /\ slot[w].pc = "classifying" /\ slot[w].job = j /\ Owns(w, j)
             /\ job'[j] = FailedRow(job[j], slot[w].attempts)
    <3>1. slot[w].attempts = job[j].attempts
      BY <2>6 DEF Core, ClaimedCopyIsFresh
    <3>2. /\ job'[j].attempts = job[j].attempts
          /\ job'[j].status = (IF Exhausted(job[j].attempts) THEN "dead" ELSE "pending")
      BY <1>0, <2>6, <3>1, RowFields
    <3> QED BY <1>0, <3>2 DEF Ready, Exhausted
  <2>7. CASE job'[j] = TransientRow(job[j])
    <3>1. job'[j].attempts = AttemptsReturned(job[j].attempts)
      BY <1>0, <2>7, RowFields
    <3> QED BY <1>0, <3>1 DEF Ready, AttemptsReturned
  <2> QED BY <2>1, <2>2, <2>3, <2>4, <2>5, <2>6, <2>7
<1>7. ASSUME NEW w \in Slots, MarkJobFailed(w), slot[w].job # j PROVE job'[j] = job[j]
  BY <1>0, <1>7 DEF MarkJobFailed, TypeOK
<1> QED BY <1>1, <1>4, <1>5, <1>6, <1>7 DEF Next

\* markJobFailed leaves the attempts alone, and a job it gives back waits
\* although its attempts are used up only if those it read were fewer.
LEMMA OverwriteStep ==
    ASSUME Core, NEW w \in Slots, MarkJobFailed(w), NEW j \in Jobs, slot[w].job = j
    PROVE  /\ job'[j].attempts = job[j].attempts
           /\ job'[j].status = "pending" => ~Exhausted(slot[w].attempts)
<1>1. TypeOK /\ job[j] \in JobRow /\ slot[w].attempts \in Nat
  BY Rows DEF Core, TypeInv, TypeOK, SlotState
<1>2. job'[j] = FailedRow(job[j], slot[w].attempts)
  BY <1>1 DEF MarkJobFailed, TypeOK
<1> QED BY <1>1, <1>2, RowFields

\* Attempts never exceed the limit, whatever the database does.
LEMMA CappedAlways == Spec => [](Core /\ Capped)
<1>1. Init => Capped
  BY ConstantsAssumption DEF Init, AbsentRow, Capped
<1>2. ASSUME Core, Capped, [Next]_vars PROVE Capped'
  <2> SUFFICES ASSUME NEW j \in Jobs PROVE job'[j].attempts <= MaxAttempts
    BY DEF Capped
  <2>1. job[j].attempts <= MaxAttempts
    BY <1>2 DEF Capped
  <2> QED BY <1>2, <2>1, ReadyStep, OverwriteStep DEF Kept, Ready
<1> QED BY <1>1, <1>2, CoreInit, CoreStep, PTL DEF Spec

\* For any number of slots, and whatever results the database refuses: only
\* attempts that were read before another claim strand a job.
THEOREM StrandedOnlyByARace == Spec => StrandedByARace
<1>1. ASSUME Core, Capped, [Next]_vars, NEW j \in Jobs, ~Stranded(j), Stranded(j)'
      PROVE  \E w \in Slots : /\ slot[w].pc = "overwriting" /\ slot[w].job = j
                              /\ slot[w].attempts < job[j].attempts
  <2>1. /\ job'[j].status = "pending" /\ job'[j].attempts >= MaxAttempts
        /\ ~(job[j].status = "pending" /\ job[j].attempts >= MaxAttempts)
        /\ job[j].attempts \in Nat /\ job'[j].attempts \in Nat /\ MaxAttempts \in Nat
    <3>1. TypeInv /\ TypeInv'
      BY <1>1, TypeStep DEF Core
    <3> QED BY <1>1, <3>1, ConstantsAssumption DEF Stranded, Exhausted, TypeInv, TypeOK, JobRow
  <2>2. ~Kept(job[j], job'[j]) /\ ~Ready(job'[j])
    BY <2>1 DEF Kept, Ready
  <2>3. PICK w \in Slots : MarkJobFailed(w) /\ slot[w].job = j
    BY <1>1, <2>2, ReadyStep
  <2>4. slot[w].pc = "overwriting" /\ slot[w].attempts \in Nat
    BY <1>1, <2>3 DEF MarkJobFailed, Core, TypeInv, TypeOK, SlotState
  <2>5. job'[j].attempts = job[j].attempts /\ ~Exhausted(slot[w].attempts)
    BY <1>1, <2>1, <2>3, OverwriteStep
  <2> QED BY <2>1, <2>3, <2>4, <2>5 DEF Exhausted
<1>2. Core /\ Capped /\ [Next]_vars => [\A j \in Jobs : ~Stranded(j) /\ Stranded(j)' =>
          \E w \in Slots : /\ slot[w].pc = "overwriting" /\ slot[w].job = j
                           /\ slot[w].attempts < job[j].attempts]_vars
  BY <1>1
<1> QED BY <1>2, CappedAlways, PTL DEF Spec, StrandedByARace
-----------------------------------------------------------------------------
(* JobQueue implements JobLifecycle: what a step of the queue is in the    *)
(* life of each job.                                                       *)

\* A job that was never queued was never claimed, a running one was.
Counted == \A j \in Jobs :
    /\ job[j].status = "absent" => job[j].attempts = 0
    /\ job[j].status = "running" => job[j].attempts > 0

\* No job has been claimed in the beginning.
LEMMA CountedInit == Init => Counted
BY DEF Init, Counted, AbsentRow

\* A claim counts, and nothing brings an unknown job back.
LEMMA CountedStep == ASSUME TypeInv, Counted, [Next]_vars PROVE Counted'
<1> SUFFICES ASSUME NEW j \in Jobs
             PROVE  /\ job'[j].status = "absent" => job'[j].attempts = 0
                    /\ job'[j].status = "running" => job'[j].attempts > 0
  BY DEF Counted
<1>1. RowFate(j) /\ job[j].attempts \in Nat
  BY Fate, Rows DEF JobRow
<1> QED BY <1>1 DEF RowFate, Kept, Taken, Let, Counted

\* A slot that takes a step is seen to.
LEMMA SlotsMove ==
    ASSUME TypeInv, NEW w \in Slots, Poll(w) \/ Work(w) \/ Stop(w)
    PROVE  slot' # slot
<1>0. TypeOK /\ slot[w] \in SlotState
  BY DEF TypeInv, TypeOK
<1>1. CASE Rest(w) /\ slot[w].pc # "idle"
  BY <1>0, <1>1 DEF Rest, IdleSlot, TypeOK
<1>2. ASSUME NEW pc, Go(w, pc), slot[w].pc # pc PROVE slot'[w].pc # slot[w].pc
  BY <1>0, <1>2 DEF Go, TypeOK, SlotState
<1>3. CASE ReapDead(w) \/ ReapPending(w) \/ Sweep(w) \/ PersistFails(w)
  BY <1>2, <1>3 DEF ReapDead, ReapPending, Sweep, PersistFails
<1>4. CASE ReadAttempts(w)
  BY <1>0, <1>4 DEF ReadAttempts, TypeOK, SlotState
<1>5. ASSUME NEW j \in Jobs, Claim(w, j) PROVE slot' # slot
  BY <1>0, <1>5 DEF Claim, ClaimedJob, TypeOK
<1> QED BY <1>1, <1>3, <1>4, <1>5 DEF Poll, Work, Stop, ClaimNothing, Finalize, SkipSuperseded, DropStale,
     ClassifierFails, ModelUnavailable, MarkJobFailed

\* The part of a row its job's life shows stays what it is.
Resting(j) ==
    /\ job'[j].status = job[j].status
    /\ job'[j].attempts = job[j].attempts
    /\ produced'[j] = produced[j]

\* What the life does not show is no step of it.
LEMMA RestIsUnseen ==
    ASSUME NEW j \in Jobs, Resting(j)
    PROVE  UNCHANGED Life(j)!vars
BY DEF Resting, Life!vars

\* The job was queued, recorded, or set aside by a source.
LEMMA AskedLives ==
    ASSUME NEW j \in Jobs,
           \/ job'[j].status = "pending" /\ job'[j].attempts = 0 /\ produced'[j] = 0
           \/ /\ job[j].status \in {"absent", "pending", "running"} /\ job'[j].status = "skipped"
              /\ job'[j].attempts = job[j].attempts /\ produced'[j] = produced[j]
    PROVE  Life(j)!Asked
BY DEF Life!Asked, Life!Queue, Life!Record, Life!SetAside, Phase

\* The job left its holder's hands, or never came into any.
LEMMA LeftLives ==
    ASSUME NEW j \in Jobs, job'[j].attempts = job[j].attempts, produced'[j] = produced[j],
           \/ job[j].status \in {"pending", "running"} /\ job'[j].status = "skipped"
           \/ job[j].status = "running" /\ job'[j].status = "pending" /\ job[j].attempts < MaxAttempts
           \/ job[j].status = "running" /\ job'[j].status = "dead" /\ job[j].attempts = MaxAttempts
    PROVE  Life(j)!Handled
BY DEF Life!Handled, Life!SetAside, Life!Retry, Life!GiveUp, Phase

\* The job was claimed, finished or handed back.
LEMMA HeldLives ==
    ASSUME NEW j \in Jobs,
           \/ /\ job[j].status = "pending" /\ job'[j].status = "running" /\ job[j].attempts < MaxAttempts
              /\ job'[j].attempts = job[j].attempts + 1 /\ produced'[j] = produced[j]
           \/ /\ job[j].status = "running" /\ job'[j].status = "succeeded" /\ produced[j] = 0
              /\ job'[j].attempts = job[j].attempts /\ produced'[j] = 1
           \/ /\ job[j].status = "running" /\ job'[j].status = "pending"
              /\ job'[j].attempts = job[j].attempts - 1 /\ produced'[j] = produced[j]
    PROVE  Life(j)!Handled
BY DEF Life!Handled, Life!Take, Life!Finish, Life!HandBack, Phase

\* What a slot does to a row is a step in the life of its job.
LEMMA SlotLives ==
    ASSUME Tidy, Counted, NEW w \in Slots, Poll(w) \/ Work(w) \/ Stop(w), NEW j \in Jobs
    PROVE  Resting(j) \/ Life(j)!Handled
<1>0. /\ Core /\ TypeInv /\ NoneBroken /\ TypeOK /\ job[j] \in JobRow
      /\ job[j].attempts \in Nat /\ job[j].attempts <= MaxAttempts /\ MaxAttempts \in Nat
      /\ {"dead", "pending", "succeeded"} \subseteq Statuses
      /\ "superseded_content_hash" \in Reasons
  BY Rows, ConstantsAssumption DEF Tidy, Core, TypeInv, RetryBudget, JobRow, Statuses, Reasons
<1>1. CASE job'[j] = job[j]
  BY <1>0, <1>1, CountStays DEF Resting
<1>2. CASE job'[j] # job[j]
  <2>1. CASE /\ Expired(j) /\ produced' = produced
             /\ job'[j] = Released(job[j], "dead") /\ Exhausted(job[j].attempts)
    BY <1>0, <2>1, RowFields, LeftLives DEF Expired, Exhausted
  <2>2. CASE /\ Expired(j) /\ produced' = produced
             /\ job'[j] = Released(job[j], "pending") /\ ~Exhausted(job[j].attempts)
    BY <1>0, <2>2, RowFields, LeftLives DEF Expired, Exhausted
  <2>3. CASE /\ job[j].status = "pending" \/ Owns(w, j)
             /\ job'[j] = Skipped(job[j], "superseded_content_hash") /\ produced' = produced
    BY <1>0, <2>3, RowFields, LeftLives DEF Owns
  <2>4. CASE /\ job[j].status = "pending" /\ produced' = produced
             /\ job'[j] = ClaimedRow(job[j], w) /\ ~Exhausted(job[j].attempts)
    BY <1>0, <2>4, RowFields, HeldLives DEF Exhausted
  <2>5. CASE /\ slot[w].pc = "classifying" /\ slot[w].job = j /\ Owns(w, j)
             /\ job'[j] = FailedRow(job[j], slot[w].attempts) /\ produced' = produced
    <3>1. slot[w].attempts = job[j].attempts
      BY <1>0, <2>5 DEF Core, ClaimedCopyIsFresh
    <3>2. /\ job'[j].attempts = job[j].attempts
          /\ job'[j].status = (IF Exhausted(job[j].attempts) THEN "dead" ELSE "pending")
      BY <1>0, <2>5, <3>1, RowFields
    <3> QED BY <1>0, <2>5, <3>2, LeftLives DEF Exhausted, Owns
  <2>6. CASE Owns(w, j) /\ job'[j] = TransientRow(job[j]) /\ produced' = produced
    <3>1. job'[j].status = "pending" /\ job'[j].attempts = AttemptsReturned(job[j].attempts)
      BY <1>0, <2>6, RowFields
    <3>2. job[j].status = "running" /\ job[j].attempts > 0
      BY <2>6 DEF Owns, Counted
    <3> QED BY <1>0, <2>6, <3>1, <3>2, HeldLives DEF AttemptsReturned
  <2>7. CASE Finalize(w) /\ slot[w].job = j /\ Owns(w, j) /\ job'[j] = Released(job[j], "succeeded")
    <3>1. job[j].status = "running" /\ produced[j] = 0
      BY <2>7 DEF Owns, Tidy, OneResultPerQueueing
    <3>2. produced'[j] = 1
      BY <1>0, <2>7, <3>1 DEF Finalize, TypeOK
    <3>3. job'[j].status = "succeeded" /\ job'[j].attempts = job[j].attempts
      BY <1>0, <2>7, RowFields
    <3> QED BY <3>1, <3>2, <3>3, HeldLives
  <2> QED BY <1>0, <1>2, <2>1, <2>2, <2>3, <2>4, <2>5, <2>6, <2>7, SlotActs
<1> QED BY <1>1, <1>2

\* What a source does to a row is a step in the life of its job.
LEMMA SourceLives ==
    ASSUME Tidy, Counted, NEW i \in Items, Ingest(i), NEW j \in Jobs
    PROVE  Resting(j) \/ Life(j)!Asked
<1>0. TypeInv /\ job[j] \in JobRow /\ "source_suppressed" \in Reasons
  BY Rows DEF Tidy, Core, Reasons
<1>1. CASE job'[j].status = "pending" /\ job'[j].attempts = 0 /\ produced'[j] = 0
  BY <1>1, AskedLives
<1>2. CASE /\ job[j].status = "absent"
           /\ job'[j].status = "skipped" /\ job'[j].attempts = 0 /\ produced'[j] = produced[j]
  BY <1>2, AskedLives DEF Counted
<1>3. CASE /\ Unfinished(job[j])
           /\ job'[j] = Skipped(job[j], "source_suppressed") /\ produced'[j] = produced[j]
  BY <1>0, <1>3, RowFields, AskedLives DEF Unfinished
<1> QED BY <1>0, <1>1, <1>2, <1>3, SourceActs DEF Resting

\* What the operator, the clock and the senders do to a row is a step in the
\* life of its job.
LEMMA OthersLive ==
    ASSUME Tidy, Time \/ Requeue \/ (\E k \in Jobs : NotesSettle(k)) \/ UNCHANGED vars, NEW j \in Jobs
    PROVE  Resting(j) \/ Life(j)!Asked
<1>0. TypeInv /\ job[j] \in JobRow
  BY Rows DEF Tidy, Core
<1>1. CASE Kept(job[j], job'[j]) /\ produced'[j] = produced[j]
  BY <1>1 DEF Kept, Resting
<1>2. CASE job'[j] = Queued(job[j]) /\ produced'[j] = 0
  BY <1>0, <1>2, RowFields, AskedLives
<1> QED BY <1>0, <1>1, <1>2, OtherActs

\* If the database refuses no result, every job lives as JobLifecycle says.
THEOREM JobsKeepToLife == ASSUME PersistErrors = FALSE PROVE Spec => KeepsToLife
<1>1. ASSUME Init, NEW j \in Jobs PROVE Life(j)!Init
  BY <1>1 DEF Init, AbsentRow, Life!Init, Phase
<1>2. Init => \A j \in Jobs : Life(j)!Init
  BY <1>1
<1>3. Tidy /\ Counted /\ [Next]_vars =>
        [\A j \in Jobs : \/ UNCHANGED Life(j)!vars
                         \/ slot' = slot /\ Life(j)!Asked
                         \/ slot' # slot /\ Life(j)!Handled]_vars
  <2> SUFFICES ASSUME Tidy, Counted, [Next]_vars, NEW j \in Jobs
               PROVE  \/ UNCHANGED Life(j)!vars
                      \/ slot' = slot /\ Life(j)!Asked
                      \/ slot' # slot /\ Life(j)!Handled
    OBVIOUS
  <2>1. ASSUME NEW w \in Slots, Poll(w) \/ Work(w) \/ Stop(w)
        PROVE  UNCHANGED Life(j)!vars \/ (slot' # slot /\ Life(j)!Handled)
    <3>1. slot' # slot
      BY <2>1, SlotsMove DEF Tidy, Core
    <3> QED BY <2>1, <3>1, SlotLives, RestIsUnseen
  <2>2. ASSUME NEW i \in Items, Ingest(i)
        PROVE  UNCHANGED Life(j)!vars \/ (slot' = slot /\ Life(j)!Asked)
    <3>1. slot' = slot
      BY <2>2 DEF Ingest, IngestOpen, IngestQuiet, IngestSuppressed
    <3> QED BY <2>2, <3>1, SourceLives, RestIsUnseen
  <2>3. ASSUME Time \/ Requeue \/ (\E k \in Jobs : NotesSettle(k)) \/ UNCHANGED vars
        PROVE  UNCHANGED Life(j)!vars \/ (slot' = slot /\ Life(j)!Asked)
    <3>1. slot' = slot
      BY <2>3 DEF Time, LeaseExpires, DelayElapses, Requeue, RequeueJobs, NotesSettle, vars
    <3> QED BY <2>3, <3>1, OthersLive, RestIsUnseen
  <2> QED BY <2>1, <2>2, <2>3 DEF Next
<1>4. Tidy /\ Counted /\ [Next]_vars => Counted'
  BY CountedStep DEF Tidy, Core
<1> QED BY <1>2, <1>3, <1>4, CountedInit, TidyAlways, PTL DEF Spec, KeepsToLife
=============================================================================
