--------------------------- MODULE JobQueueTypes ---------------------------
(***************************************************************************)
(* Type correctness of JobQueue, and what its row updates yield.           *)
(***************************************************************************)
EXTENDS JobQueue, TLAPS

\* A slot that is at work has a job, and jobs are never deleted.
Busy == {"classifying", "broken", "overwriting"}

WorkHasJob == \A w \in Slots : slot[w].pc \in Busy =>
    /\ slot[w].job \in Jobs
    /\ job[slot[w].job].status # "absent"

TypeInv == TypeOK /\ WorkHasJob

\* Every row an update can leave behind is a row.
LEMMA RowTypes ==
    ASSUME NEW row \in JobRow
    PROVE  /\ \A s \in Statuses : Released(row, s) \in JobRow
           /\ Queued(row) \in JobRow
           /\ [Queued(row) EXCEPT !.quiet = FALSE] \in JobRow
           /\ \A r \in Reasons : Skipped(row, r) \in JobRow
           /\ \A n \in Nat : FailedRow(row, n) \in JobRow
<1>1. \A s \in Statuses : Released(row, s) \in JobRow
  BY DEF JobRow, Released
<1>2. Queued(row) \in JobRow
  BY DEF JobRow, Released, Queued, Statuses, Reasons
<1>3. [Queued(row) EXCEPT !.quiet = FALSE] \in JobRow
  BY <1>2 DEF JobRow
<1>4. \A r \in Reasons : Skipped(row, r) \in JobRow
  BY DEF JobRow, Released, Skipped, Statuses, Reasons
<1>5. ASSUME NEW n \in Nat PROVE FailedRow(row, n) \in JobRow
  BY DEF JobRow, Released, FailedRow, Statuses, Reasons
<1> QED BY <1>1, <1>2, <1>3, <1>4, <1>5

\* The rows a transient failure, a claim and the clock leave are rows.
LEMMA MoreRowTypes ==
    ASSUME NEW row \in JobRow
    PROVE  /\ TransientRow(row) \in JobRow
           /\ \A w \in Slots : ClaimedRow(row, w) \in JobRow
           /\ \A b \in BOOLEAN : [row EXCEPT !.expired = b] \in JobRow
           /\ \A b \in BOOLEAN : [row EXCEPT !.delayed = b] \in JobRow
           /\ HydratedRow \in JobRow
<1>1. TransientRow(row) \in JobRow
  <2>1. AttemptsReturned(row.attempts) \in Nat
    BY DEF AttemptsReturned, JobRow
  <2> QED BY <2>1 DEF TransientRow, JobRow, Released, Statuses, Reasons
<1>2. ASSUME NEW w \in Slots PROVE ClaimedRow(row, w) \in JobRow
  <2>1. row.attempts + 1 \in Nat
    BY DEF JobRow
  <2> QED BY <2>1 DEF ClaimedRow, JobRow, Statuses, Reasons
<1>3. \A b \in BOOLEAN : [row EXCEPT !.expired = b] \in JobRow
  BY DEF JobRow
<1>4. \A b \in BOOLEAN : [row EXCEPT !.delayed = b] \in JobRow
  BY DEF JobRow
<1>5. HydratedRow \in JobRow
  BY DEF HydratedRow, AbsentRow, JobRow, Statuses, Reasons
<1> QED BY <1>1, <1>2, <1>3, <1>4, <1>5

\* What the updates leave in the columns the invariants are about.
LEMMA RowFields ==
    ASSUME NEW row \in JobRow
    PROVE  /\ \A s \in Statuses :
                 /\ Released(row, s).status = s
                 /\ Released(row, s).lease = NoSlot
                 /\ Released(row, s).attempts = row.attempts
                 /\ Released(row, s).reason = row.reason
                 /\ Released(row, s).quiet = row.quiet
           /\ /\ Queued(row).status = "pending"
              /\ Queued(row).lease = NoSlot
              /\ Queued(row).attempts = 0
              /\ Queued(row).reason = "none"
              /\ Queued(row).quiet = row.quiet
           /\ \A r \in Reasons :
                 /\ Skipped(row, r).status = "skipped"
                 /\ Skipped(row, r).lease = NoSlot
                 /\ Skipped(row, r).attempts = row.attempts
                 /\ Skipped(row, r).reason = r
                 /\ Skipped(row, r).quiet = row.quiet
           /\ \A n \in Nat :
                 /\ FailedRow(row, n).status = (IF Exhausted(n) THEN "dead" ELSE "pending")
                 /\ FailedRow(row, n).lease = NoSlot
                 /\ FailedRow(row, n).attempts = row.attempts
                 /\ FailedRow(row, n).reason = "error"
                 /\ FailedRow(row, n).quiet = row.quiet
           /\ /\ TransientRow(row).status = "pending"
              /\ TransientRow(row).lease = NoSlot
              /\ TransientRow(row).attempts = AttemptsReturned(row.attempts)
              /\ TransientRow(row).reason = "error"
              /\ TransientRow(row).quiet = row.quiet
           /\ \A w \in Slots :
                 /\ ClaimedRow(row, w).status = "running"
                 /\ ClaimedRow(row, w).lease = w
                 /\ ClaimedRow(row, w).attempts = row.attempts + 1
                 /\ ClaimedRow(row, w).reason = "none"
                 /\ ClaimedRow(row, w).quiet = row.quiet
<1>1. \A s \in Statuses :
         /\ Released(row, s).status = s
         /\ Released(row, s).lease = NoSlot
         /\ Released(row, s).attempts = row.attempts
         /\ Released(row, s).reason = row.reason
         /\ Released(row, s).quiet = row.quiet
  BY DEF Released, JobRow
<1>2. /\ Queued(row).status = "pending"
      /\ Queued(row).lease = NoSlot
      /\ Queued(row).attempts = 0
      /\ Queued(row).reason = "none"
      /\ Queued(row).quiet = row.quiet
  BY DEF Queued, Released, JobRow
<1>3. \A r \in Reasons :
         /\ Skipped(row, r).status = "skipped"
         /\ Skipped(row, r).lease = NoSlot
         /\ Skipped(row, r).attempts = row.attempts
         /\ Skipped(row, r).reason = r
         /\ Skipped(row, r).quiet = row.quiet
  BY DEF Skipped, Released, JobRow
<1>4. \A n \in Nat :
         /\ FailedRow(row, n).status = (IF Exhausted(n) THEN "dead" ELSE "pending")
         /\ FailedRow(row, n).lease = NoSlot
         /\ FailedRow(row, n).attempts = row.attempts
         /\ FailedRow(row, n).reason = "error"
         /\ FailedRow(row, n).quiet = row.quiet
  BY DEF FailedRow, Released, JobRow
<1>5. /\ TransientRow(row).status = "pending"
      /\ TransientRow(row).lease = NoSlot
      /\ TransientRow(row).attempts = AttemptsReturned(row.attempts)
      /\ TransientRow(row).reason = "error"
      /\ TransientRow(row).quiet = row.quiet
  BY DEF TransientRow, Released, JobRow
<1>6. \A w \in Slots :
         /\ ClaimedRow(row, w).status = "running"
         /\ ClaimedRow(row, w).lease = w
         /\ ClaimedRow(row, w).attempts = row.attempts + 1
         /\ ClaimedRow(row, w).reason = "none"
         /\ ClaimedRow(row, w).quiet = row.quiet
  BY DEF ClaimedRow, JobRow
<1> QED BY <1>1, <1>2, <1>3, <1>4, <1>5, <1>6

\* The empty database and idle slots are well typed.
LEMMA TypeInit == Init => TypeInv
BY ConstantsAssumption DEF Init, TypeInv, TypeOK, WorkHasJob, Busy, AbsentRow, IdleSlot, JobRow, SlotState,
   Statuses, Reasons, Pcs

\* What an ingest does to the item and to the histories is well typed.
LEMMA ObserveTypes ==
    ASSUME TypeOK, NEW i \in Items, NEW h \in Hashes, NEW u \in 1..MaxUpdate,
           NEW kind \in {"open", "quiet", "closed"}, Observe(i, h, u, kind)
    PROVE  /\ item' \in [Items -> [hash: Hashes \cup {NoHash}, updated: Nat]]
           /\ seen' \in [Items -> {"nothing", "open", "quiet", "closed", "requeued"}]
           /\ newest' \in [Items -> [updated: Nat, hashes: SUBSET Hashes]]
<1>1. u \in Nat
  BY ConstantsAssumption
<1>2. Upserted(i, h, u) \in [hash: Hashes \cup {NoHash}, updated: Nat]
  BY <1>1 DEF Upserted, TypeOK
<1>3. item' \in [Items -> [hash: Hashes \cup {NoHash}, updated: Nat]]
  BY <1>2 DEF Observe, TypeOK
<1>4. seen' \in [Items -> {"nothing", "open", "quiet", "closed", "requeued"}]
  BY DEF Observe, TypeOK
<1>5. newest' \in [Items -> [updated: Nat, hashes: SUBSET Hashes]]
  <2>1. newest[i] \in [updated: Nat, hashes: SUBSET Hashes]
    BY DEF TypeOK
  <2>2. [updated |-> u, hashes |-> {h}] \in [updated: Nat, hashes: SUBSET Hashes]
    BY <1>1
  <2>3. [newest[i] EXCEPT !.hashes = newest[i].hashes \cup {h}] \in [updated: Nat, hashes: SUBSET Hashes]
    BY <2>1
  <2> DEFINE Entry == CASE u > newest[i].updated -> [updated |-> u, hashes |-> {h}]
                        [] u = newest[i].updated -> [newest[i] EXCEPT !.hashes = newest[i].hashes \cup {h}]
                        [] OTHER -> newest[i]
  <2>4. Entry \in [updated: Nat, hashes: SUBSET Hashes]
    BY <2>1, <2>2, <2>3
  <2>5. newest' = [newest EXCEPT ![i] = Entry]
    BY DEF Observe
  <2> QED BY <2>4, <2>5 DEF TypeOK
<1> QED BY <1>3, <1>4, <1>5

\* An ingest keeps the types.
LEMMA IngestTypes ==
    ASSUME TypeInv, NEW i \in Items, Ingest(i)
    PROVE  TypeInv'
<1>0. TypeOK
  BY DEF TypeInv
<1>1. PICK h \in Hashes, u \in 1..MaxUpdate :
          IngestOpen(i, h, u) \/ IngestQuiet(i, h, u) \/ IngestSuppressed(i, h, u)
  BY DEF Ingest
<1>2. <<i, h>> \in Jobs
  BY DEF Jobs
<1>3. CASE IngestOpen(i, h, u)
  <2>1. /\ item' \in [Items -> [hash: Hashes \cup {NoHash}, updated: Nat]]
        /\ seen' \in [Items -> {"nothing", "open", "quiet", "closed", "requeued"}]
        /\ newest' \in [Items -> [updated: Nat, hashes: SUBSET Hashes]]
    BY <1>0, <1>3, ObserveTypes DEF IngestOpen
  <2>2. job' \in [Jobs -> JobRow]
    <3>1. [Queued(job[<<i, h>>]) EXCEPT !.quiet = FALSE] \in JobRow
      BY <1>0, <1>2, RowTypes DEF TypeOK
    <3> QED BY <1>0, <1>3, <3>1 DEF IngestOpen, TypeOK
  <2>3. produced' \in [Jobs -> 0..2] /\ wanted' \subseteq Jobs
    <3>1. wanted' \subseteq Jobs
      BY <1>0, <1>2, <1>3 DEF IngestOpen, TypeOK
    <3>2. produced' = [produced EXCEPT ![<<i, h>>] = 0] \/ produced' = produced
      BY <1>3 DEF IngestOpen
    <3>3. produced \in [Jobs -> 0..2] /\ 0 \in 0..2
      BY <1>0 DEF TypeOK
    <3>4. produced' \in [Jobs -> 0..2]
      BY <3>2, <3>3, Zenon
    <3> QED BY <3>1, <3>4
  <2>4. \A j \in Jobs : job[j].status # "absent" => job'[j].status # "absent"
    BY <1>0, <1>2, <1>3 DEF IngestOpen, TypeOK, Queued, Released, JobRow
  <2> QED BY <1>0, <1>3, <2>1, <2>2, <2>3, <2>4 DEF IngestOpen, TypeInv, TypeOK, WorkHasJob
<1>4. CASE IngestQuiet(i, h, u)
  <2>1. /\ item' \in [Items -> [hash: Hashes \cup {NoHash}, updated: Nat]]
        /\ seen' \in [Items -> {"nothing", "open", "quiet", "closed", "requeued"}]
        /\ newest' \in [Items -> [updated: Nat, hashes: SUBSET Hashes]]
    BY <1>0, <1>4, ObserveTypes DEF IngestQuiet
  <2>2. HydratedRow \in JobRow
    BY <1>0, <1>2, MoreRowTypes DEF TypeOK
  <2>3. job' \in [Jobs -> JobRow]
    BY <1>0, <1>4, <2>2 DEF IngestQuiet, TypeOK
  <2>4. \A j \in Jobs : job[j].status # "absent" => job'[j].status # "absent"
    BY <1>0, <1>2, <1>4 DEF IngestQuiet, TypeOK
  <2> QED BY <1>0, <1>4, <2>1, <2>3, <2>4 DEF IngestQuiet, TypeInv, TypeOK, WorkHasJob
<1>5. CASE IngestSuppressed(i, h, u)
  <2>1. /\ item' \in [Items -> [hash: Hashes \cup {NoHash}, updated: Nat]]
        /\ seen' \in [Items -> {"nothing", "open", "quiet", "closed", "requeued"}]
        /\ newest' \in [Items -> [updated: Nat, hashes: SUBSET Hashes]]
    BY <1>0, <1>5, ObserveTypes DEF IngestSuppressed
  <2>2. \A j \in Jobs : Skipped(job[j], "source_suppressed") \in JobRow
    BY <1>0, RowTypes DEF TypeOK, Reasons
  <2>3. job' \in [Jobs -> JobRow] /\ openNotes' \subseteq Jobs
    BY <1>0, <1>5, <2>2 DEF IngestSuppressed, TypeOK, NotesWithout
  <2>4. \A j \in Jobs : Skipped(job[j], "source_suppressed").status = "skipped"
    BY <1>0 DEF TypeOK, Skipped, Released, JobRow
  <2>5. \A j \in Jobs : job[j].status # "absent" => job'[j].status # "absent"
    BY <1>0, <1>5, <2>4 DEF IngestSuppressed, TypeOK
  <2> QED BY <1>0, <1>5, <2>1, <2>3, <2>5 DEF IngestSuppressed, TypeInv, TypeOK, WorkHasJob
<1> QED BY <1>1, <1>3, <1>4, <1>5

\* What the slots may become.
LEMMA SlotTypes ==
    ASSUME TypeInv, NEW w \in Slots
    PROVE  /\ IdleSlot \in SlotState /\ IdleSlot.pc = "idle"
           /\ \A pc \in Pcs : [slot[w] EXCEPT !.pc = pc] \in SlotState
           /\ \A j \in Jobs : ClaimedJob(j) \in SlotState
<1>1. IdleSlot \in SlotState /\ IdleSlot.pc = "idle"
  BY DEF IdleSlot, SlotState, Pcs
<1>2. \A pc \in Pcs : [slot[w] EXCEPT !.pc = pc] \in SlotState
  BY DEF TypeInv, TypeOK, SlotState
<1>3. ASSUME NEW j \in Jobs PROVE ClaimedJob(j) \in SlotState
  <2>1. job[j].attempts + 1 \in Nat /\ job[j].quiet \in BOOLEAN
    BY DEF TypeInv, TypeOK, JobRow
  <2> QED BY <2>1 DEF ClaimedJob, SlotState, Pcs
<1> QED BY <1>1, <1>2, <1>3

\* Rows change only into rows, and no row is deleted.
RowsGrow ==
    /\ job' \in [Jobs -> JobRow]
    /\ \A j \in Jobs : job[j].status # "absent" => job'[j].status # "absent"

\* A slot goes to work only on a job that has a row.
SlotsWork ==
    /\ slot' \in [Slots -> SlotState]
    /\ \A w \in Slots : slot'[w].pc \in Busy =>
          slot'[w].job \in Jobs /\ job[slot'[w].job].status # "absent"

\* A slot that goes on without a job, and one that goes to rest.
LEMMA GoWorks ==
    ASSUME TypeInv, NEW w \in Slots, NEW pc \in Pcs \ Busy, Go(w, pc) \/ Rest(w)
    PROVE  SlotsWork
<1>1. TypeOK /\ WorkHasJob
  BY DEF TypeInv
<1>2. PICK s \in SlotState : slot' = [slot EXCEPT ![w] = s] /\ s.pc \notin Busy
  <2>1. CASE Go(w, pc)
    <3>1. slot' = [slot EXCEPT ![w] = [slot[w] EXCEPT !.pc = pc]]
      BY <2>1 DEF Go
    <3>2. [slot[w] EXCEPT !.pc = pc] \in SlotState
      BY SlotTypes
    <3>3. [slot[w] EXCEPT !.pc = pc].pc = pc
      BY <1>1 DEF TypeOK, SlotState
    <3> QED BY <3>1, <3>2, <3>3
  <2>2. CASE Rest(w)
    BY <2>2, SlotTypes DEF Rest, Busy
  <2> QED BY <2>1, <2>2
<1> QED BY <1>1, <1>2 DEF SlotsWork, TypeOK, WorkHasJob

\* The four statements of claimJobs keep the types.
LEMMA PollTypes ==
    ASSUME TypeInv, NEW w \in Slots, Poll(w)
    PROVE  TypeInv'
<1>0. TypeOK /\ {"reaping", "sweeping", "claiming"} \subseteq Pcs \ Busy
  BY DEF TypeInv, Pcs, Busy
<1>1. \A s \in {"dead", "pending"}, j \in Jobs :
          Released(job[j], s) \in JobRow /\ Released(job[j], s).status = s
  <2>1. {"dead", "pending"} \subseteq Statuses /\ \A j \in Jobs : job[j] \in JobRow
    BY <1>0 DEF TypeOK, Statuses
  <2> QED BY <2>1, RowTypes, RowFields
<1>2. CASE ReapDead(w)
  <2>1. RowsGrow
    BY <1>0, <1>1, <1>2 DEF RowsGrow, ReapDead, TypeOK
  <2>2. SlotsWork
    BY <1>0, <1>2, GoWorks DEF ReapDead
  <2> QED BY <1>0, <1>2, <2>1, <2>2 DEF ReapDead, RowsGrow, SlotsWork, TypeInv, TypeOK, WorkHasJob, history
<1>3. CASE ReapPending(w)
  <2>1. RowsGrow
    BY <1>0, <1>1, <1>3 DEF RowsGrow, ReapPending, TypeOK
  <2>2. SlotsWork
    BY <1>0, <1>3, GoWorks DEF ReapPending
  <2> QED BY <1>0, <1>3, <2>1, <2>2 DEF ReapPending, RowsGrow, SlotsWork, TypeInv, TypeOK, WorkHasJob, history
<1>4. CASE Sweep(w)
  <2>0. \A j \in Jobs : /\ Skipped(job[j], "superseded_content_hash") \in JobRow
                       /\ Skipped(job[j], "superseded_content_hash").status = "skipped"
    BY <1>0, RowTypes, RowFields DEF TypeOK, Reasons
  <2>1. RowsGrow
    BY <1>0, <2>0, <1>4 DEF RowsGrow, Sweep, TypeOK
  <2>2. SlotsWork
    BY <1>0, <1>4, GoWorks DEF Sweep
  <2> QED BY <1>0, <1>4, <2>1, <2>2 DEF Sweep, RowsGrow, SlotsWork, TypeInv, TypeOK, WorkHasJob, history
<1>5. CASE ClaimNothing(w)
  <2>1. SlotsWork
    BY <1>0, <1>5, GoWorks DEF ClaimNothing
  <2> QED BY <1>0, <1>5, <2>1 DEF ClaimNothing, SlotsWork, TypeInv, TypeOK, WorkHasJob, dbVars, history
<1>6. ASSUME NEW j \in Jobs, Claim(w, j) PROVE TypeInv'
  <2>0. ClaimedRow(job[j], w) \in JobRow /\ ClaimedRow(job[j], w).status = "running"
    BY <1>0, MoreRowTypes, RowFields DEF TypeOK
  <2>1. RowsGrow
    BY <1>0, <1>6, <2>0 DEF RowsGrow, Claim, TypeOK
  <2>2. SlotsWork
    <3>1. job[j].status # "absent" /\ slot' = [slot EXCEPT ![w] = ClaimedJob(j)]
      BY <1>6 DEF Claim, Claimable
    <3>2. ClaimedJob(j) \in SlotState /\ ClaimedJob(j).job = j
      BY SlotTypes DEF ClaimedJob
    <3> QED BY <1>0, <3>1, <3>2 DEF SlotsWork, TypeInv, TypeOK, WorkHasJob
  <2> QED BY <1>0, <1>6, <2>1, <2>2 DEF Claim, RowsGrow, SlotsWork, TypeInv, TypeOK, WorkHasJob, history
<1> QED BY <1>2, <1>3, <1>4, <1>5, <1>6 DEF Poll

\* So do the ways a slot finishes, fails, loses or abandons its job.
LEMMA WorkTypes ==
    ASSUME TypeInv, NEW w \in Slots, Work(w) \/ Stop(w)
    PROVE  TypeInv'
<1>0. TypeOK /\ "idle" \in Pcs \ Busy
  BY DEF TypeInv, Pcs, Busy
<1> DEFINE k == slot[w].job
<1>1. slot[w].pc \in Busy => k \in Jobs /\ job[k].status # "absent"
  BY DEF TypeInv, WorkHasJob
<1>2. ASSUME NEW row \in JobRow, k \in Jobs, row.status # "absent", job' = [job EXCEPT ![k] = row]
      PROVE  RowsGrow
  BY <1>0, <1>2 DEF RowsGrow, TypeOK
<1>3. ASSUME RowsGrow, SlotsWork, UNCHANGED <<item, openNotes, history>> PROVE TypeInv'
  BY <1>0, <1>3 DEF RowsGrow, SlotsWork, TypeInv, TypeOK, WorkHasJob, history
<1>4. ASSUME SlotsWork, UNCHANGED <<dbVars, history>> PROVE TypeInv'
  BY <1>0, <1>4 DEF SlotsWork, TypeInv, TypeOK, WorkHasJob, history, dbVars
<1>5. ASSUME k \in Jobs, NEW n \in Nat
      PROVE  /\ Released(job[k], "succeeded") \in JobRow
             /\ Released(job[k], "succeeded").status # "absent"
             /\ Skipped(job[k], "superseded_content_hash") \in JobRow
             /\ Skipped(job[k], "superseded_content_hash").status # "absent"
             /\ FailedRow(job[k], n) \in JobRow
             /\ FailedRow(job[k], n).status # "absent"
             /\ TransientRow(job[k]) \in JobRow
             /\ TransientRow(job[k]).status # "absent"
  <2>1. /\ "succeeded" \in Statuses /\ "superseded_content_hash" \in Reasons
        /\ job[k] \in JobRow
    BY <1>0, <1>5 DEF TypeOK, Statuses, Reasons
  <2>2. /\ Released(job[k], "succeeded") \in JobRow
        /\ Skipped(job[k], "superseded_content_hash") \in JobRow
        /\ FailedRow(job[k], n) \in JobRow
        /\ TransientRow(job[k]) \in JobRow
    BY <1>5, <2>1, RowTypes, MoreRowTypes
  <2>3. /\ Released(job[k], "succeeded").status = "succeeded"
        /\ Skipped(job[k], "superseded_content_hash").status = "skipped"
        /\ FailedRow(job[k], n).status \in {"dead", "pending"}
        /\ TransientRow(job[k]).status = "pending"
    BY <1>5, <2>1, RowFields
  <2> QED BY <2>2, <2>3
<1>6. slot[w].attempts \in Nat
  BY <1>0 DEF TypeOK, SlotState
<1>7. CASE Finalize(w)
  <2>1. k \in Jobs /\ RowsGrow
    BY <1>1, <1>2, <1>5, <1>6, <1>7 DEF Finalize, Busy
  <2>2. SlotsWork
    BY <1>0, <1>7, GoWorks DEF Finalize
  <2>3. openNotes' \subseteq Jobs
    BY <1>0, <1>7, <2>1 DEF Finalize, OpenNote, TypeOK
  <2>4. produced' \in [Jobs -> 0..2]
    BY <1>0, <1>7, <2>1 DEF Finalize, TypeOK
  <2> QED BY <1>0, <1>7, <2>1, <2>2, <2>3, <2>4 DEF Finalize, RowsGrow, SlotsWork, TypeInv, TypeOK, WorkHasJob
<1>8. CASE SkipSuperseded(w)
  <2>1. k \in Jobs /\ RowsGrow
    BY <1>1, <1>2, <1>5, <1>6, <1>8 DEF SkipSuperseded, Busy
  <2> QED BY <1>0, <1>3, <1>8, <2>1, GoWorks DEF SkipSuperseded
<1>9. CASE DropStale(w)
  BY <1>0, <1>4, <1>9, GoWorks DEF DropStale
<1>10. CASE ClassifierFails(w)
  <2>1. k \in Jobs /\ RowsGrow
    BY <1>1, <1>2, <1>5, <1>6, <1>10 DEF ClassifierFails, Busy
  <2> QED BY <1>0, <1>3, <1>10, <2>1, GoWorks DEF ClassifierFails
<1>11. CASE ModelUnavailable(w)
  <2>1. k \in Jobs /\ RowsGrow
    BY <1>1, <1>2, <1>5, <1>6, <1>11 DEF ModelUnavailable, Busy
  <2> QED BY <1>0, <1>3, <1>11, <2>1, GoWorks DEF ModelUnavailable
<1>12. CASE PersistFails(w)
  <2>1. SlotsWork
    <3>1. slot' = [slot EXCEPT ![w] = [slot[w] EXCEPT !.pc = "broken"]]
      BY <1>12 DEF PersistFails, Go
    <3>2. [slot[w] EXCEPT !.pc = "broken"] \in SlotState
      BY SlotTypes DEF Pcs
    <3>3. [slot[w] EXCEPT !.pc = "broken"].job = k
      BY <1>0 DEF TypeOK, SlotState
    <3>4. k \in Jobs /\ job[k].status # "absent"
      BY <1>1, <1>12 DEF PersistFails, Busy
    <3> QED BY <1>0, <3>1, <3>2, <3>3, <3>4 DEF SlotsWork, TypeInv, TypeOK, WorkHasJob
  <2> QED BY <1>4, <1>12, <2>1 DEF PersistFails
<1>13. CASE ReadAttempts(w)
  <2>0. k \in Jobs /\ job[k].status # "absent"
    BY <1>1, <1>13 DEF ReadAttempts, Busy
  <2>1. SlotsWork
    <3> DEFINE s == [slot[w] EXCEPT !.pc = "overwriting", !.attempts = job[k].attempts]
    <3>1. slot' = [slot EXCEPT ![w] = s]
      BY <1>0, <1>13 DEF ReadAttempts, TypeOK
    <3>2. job[k].attempts \in Nat
      BY <1>0, <2>0 DEF TypeOK, JobRow
    <3>3. s \in SlotState /\ s.job = k
      BY <1>0, <3>2 DEF TypeOK, SlotState, Pcs
    <3> HIDE DEF s
    <3> QED BY <1>0, <2>0, <3>1, <3>3 DEF SlotsWork, TypeInv, TypeOK, WorkHasJob
  <2> QED BY <1>4, <1>13, <2>1 DEF ReadAttempts
<1>14. CASE MarkJobFailed(w)
  <2>1. k \in Jobs /\ RowsGrow
    BY <1>1, <1>2, <1>5, <1>6, <1>14 DEF MarkJobFailed, Busy
  <2> QED BY <1>0, <1>3, <1>14, <2>1, GoWorks DEF MarkJobFailed
<1>15. CASE Stop(w)
  BY <1>0, <1>4, <1>15, GoWorks DEF Stop
<1> QED BY <1>7, <1>8, <1>9, <1>10, <1>11, <1>12, <1>13, <1>14, <1>15 DEF Work

\* So does the operator's requeue-jobs.
LEMMA RequeueTypes ==
    ASSUME TypeInv, Requeue
    PROVE  TypeInv'
<1>0. TypeOK
  BY DEF TypeInv
<1>1. PICK s \in RequeueStatuses, reasons \in {Reasons} \cup {{r} : r \in Reasons \ {"none"}} :
          RequeueJobs({s}, reasons)
  BY DEF Requeue
<1>2. \A j \in Jobs : Queued(job[j]) \in JobRow /\ Queued(job[j]).status = "pending"
  BY <1>0, RowTypes, RowFields DEF TypeOK
<1>3. RowsGrow
  BY <1>0, <1>1, <1>2 DEF RequeueJobs, RowsGrow, TypeOK
<1>4. produced' \in [Jobs -> 0..2]
  BY <1>0, <1>1 DEF RequeueJobs, TypeOK
<1>5. seen' \in [Items -> {"nothing", "open", "quiet", "closed", "requeued"}]
  BY <1>0, <1>1 DEF RequeueJobs, TypeOK
<1> QED BY <1>0, <1>1, <1>3, <1>4, <1>5 DEF RequeueJobs, RowsGrow, TypeInv, TypeOK, WorkHasJob

\* So do the clock and the senders.
LEMMA ClockTypes ==
    ASSUME TypeInv, NEW j \in Jobs, LeaseExpires(j) \/ DelayElapses(j) \/ NotesSettle(j)
    PROVE  TypeInv'
<1>0. TypeOK
  BY DEF TypeInv
<1>1. CASE LeaseExpires(j)
  <2>1. job' = [job EXCEPT ![j] = [job[j] EXCEPT !.expired = TRUE]]
    BY <1>1 DEF LeaseExpires
  <2>2. [job[j] EXCEPT !.expired = TRUE] \in JobRow
    BY <1>0, MoreRowTypes DEF TypeOK
  <2>3. [job[j] EXCEPT !.expired = TRUE].status = job[j].status
    BY <1>0 DEF TypeOK, JobRow
  <2>4. RowsGrow
    BY <1>0, <2>1, <2>2, <2>3 DEF RowsGrow, TypeOK
  <2> QED BY <1>0, <1>1, <2>4 DEF LeaseExpires, RowsGrow, TypeInv, TypeOK, WorkHasJob, history
<1>2. CASE DelayElapses(j)
  <2>1. job' = [job EXCEPT ![j] = [job[j] EXCEPT !.delayed = FALSE]]
    BY <1>2 DEF DelayElapses
  <2>2. [job[j] EXCEPT !.delayed = FALSE] \in JobRow
    BY <1>0, MoreRowTypes DEF TypeOK
  <2>3. [job[j] EXCEPT !.delayed = FALSE].status = job[j].status
    BY <1>0 DEF TypeOK, JobRow
  <2>4. RowsGrow
    BY <1>0, <2>1, <2>2, <2>3 DEF RowsGrow, TypeOK
  <2> QED BY <1>0, <1>2, <2>4 DEF DelayElapses, RowsGrow, TypeInv, TypeOK, WorkHasJob, history
<1>3. CASE NotesSettle(j)
  BY <1>0, <1>3 DEF NotesSettle, TypeInv, TypeOK, WorkHasJob, history
<1> QED BY <1>1, <1>2, <1>3

\* Every step keeps the types.
LEMMA TypeStep == TypeInv /\ [Next]_vars => TypeInv'
<1> SUFFICES ASSUME TypeInv, [Next]_vars PROVE TypeInv'
  OBVIOUS
<1>1. CASE Next
  BY <1>1, IngestTypes, PollTypes, WorkTypes, RequeueTypes, ClockTypes DEF Next, Time
<1>2. CASE UNCHANGED vars
  BY <1>2 DEF vars, TypeInv, TypeOK, WorkHasJob
<1> QED BY <1>1, <1>2

\* Every variable keeps its type, and a slot at work holds a job that has a row.
THEOREM TypeCorrect == Spec => []TypeOK
<1>1. TypeInv => TypeOK
  BY DEF TypeInv
<1> QED BY <1>1, TypeInit, TypeStep, PTL DEF Spec
=============================================================================
