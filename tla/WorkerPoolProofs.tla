-------------------------- MODULE WorkerPoolProofs --------------------------
(***************************************************************************)
(* WorkerPool keeps its types, its limit and its accounts, and reports the *)
(* error that ended it, for any number of slots and jobs and any bounds.   *)
(***************************************************************************)
EXTENDS WorkerPool, FiniteSetTheorems, TLAPS

\* A slot holds a job only from its claim to its outcome, and has an error in
\* hand on its way out.
Hands == \A w \in Slots :
    /\ slot[w].pc \notin {"claimed", "working"} => slot[w].job = NoJob
    /\ slot[w].pc = "working" => slot[w].job \in Jobs
    /\ slot[w].pc \in {"unclaimed", "failing"} => slot[w].error # "none"

Typed == TypeOK /\ Hands

\* What each kind of step does to the slots: one of them moves, and goes on,
\* fails, puts its job down or takes one.
Moved(w) == slot' \in [Slots -> SlotState] /\ \A v \in Slots \ {w} : slot'[v] = slot[v]

Went(w, pc) == Moved(w) /\ slot'[w].pc = pc /\ slot'[w].job = slot[w].job /\ slot'[w].error = slot[w].error

Failed(w, pc) ==
    /\ Moved(w) /\ slot'[w].pc = pc /\ slot'[w].job = slot[w].job
    /\ slot'[w].error \in Errors \ {"none"}
    /\ slot'[w].error = "canceled" => canceled

Put(w, pc) == Moved(w) /\ slot'[w].pc = pc /\ slot'[w].job = NoJob /\ slot'[w].error = slot[w].error

Took(w, j) == Moved(w) /\ slot'[w].pc = "claimed" /\ slot'[w].job = j /\ slot'[w].error = slot[w].error

LEMMA GoMoves == ASSUME TypeOK, NEW w \in Slots, NEW pc \in Pcs, Go(w, pc) PROVE Went(w, pc)
BY DEF TypeOK, SlotState, Go, Went, Moved

LEMMA FailsMoves == ASSUME TypeOK, NEW w \in Slots, NEW pc \in Pcs, Fails(w, pc) PROVE Failed(w, pc)
<1>1. PICK e \in {"failure"} \cup (IF canceled THEN {"canceled"} ELSE {}) :
        slot' = [slot EXCEPT ![w].pc = pc, ![w].tries = 0, ![w].error = e]
  BY DEF Fails
<1>2. e \in Errors \ {"none"} /\ (e = "canceled" => canceled)
  BY DEF Errors
<1> DEFINE next == [slot[w] EXCEPT !.pc = pc, !.tries = 0, !.error = e]
<1>3. slot \in [Slots -> SlotState] /\ slot[w] \in SlotState
  BY DEF TypeOK
<1>4. next \in SlotState /\ next.pc = pc /\ next.job = slot[w].job /\ next.error = e
  BY <1>2, <1>3 DEF SlotState
<1>5. slot' = [slot EXCEPT ![w] = next]
  BY <1>1
<1> HIDE DEF next
<1>6. Moved(w) /\ slot'[w] = next
  BY <1>3, <1>4, <1>5 DEF Moved
<1> QED BY <1>2, <1>4, <1>6 DEF Failed

LEMMA PutMoves == ASSUME TypeOK, NEW w \in Slots, NEW pc \in Pcs, NEW place, PutDown(w, place, pc) PROVE Put(w, pc)
BY DEF TypeOK, SlotState, PutDown, Put, Moved

LEMMA BusyMoves == ASSUME TypeOK, NEW w \in Slots, Busy(w) PROVE Went(w, slot[w].pc)
BY DEF TypeOK, SlotState, Busy, Went, Moved

LEMMA ClaimMoves == ASSUME TypeOK, NEW w \in Slots, NEW j \in Jobs, Claim(w, j) PROVE Took(w, j)
<1>1. slot' = [slot EXCEPT ![w].pc = "claimed", ![w].tries = 0, ![w].job = j]
  BY DEF Claim
<1>2. slot[w] \in SlotState
  BY DEF TypeOK
<1>3. [slot[w] EXCEPT !.pc = "claimed", !.tries = 0, !.job = j] \in SlotState
  BY <1>2 DEF SlotState, Pcs
<1>4. slot' \in [Slots -> SlotState] /\ slot'[w] = [slot[w] EXCEPT !.pc = "claimed", !.tries = 0, !.job = j]
  BY <1>1, <1>3 DEF TypeOK
<1>5. \A v \in Slots \ {w} : slot'[v] = slot[v]
  BY <1>1 DEF TypeOK
<1>6. slot'[w].pc = "claimed" /\ slot'[w].job = j /\ slot'[w].error = slot[w].error
  BY <1>2, <1>4 DEF SlotState
<1> QED BY <1>4, <1>5, <1>6 DEF Took, Moved

LEMMA PlaceType == ASSUME TypeOK, NEW w, NEW pc, NEW place \in {"leased", "away"}, PutDown(w, place, pc)
    PROVE job' \in [Jobs -> {"waiting", "held", "leased", "away"}]
BY DEF TypeOK, PutDown

LEMMA TypedInit == Init => Typed
<1> SUFFICES ASSUME Init PROVE Typed
  OBVIOUS
<1>1. slot \in [Slots -> SlotState] /\ \A w \in Slots : slot[w].pc = "starting" /\ slot[w].job = NoJob
  BY DEF Init, SlotState, Pcs, Errors
<1>2. job \in [Jobs -> {"waiting", "held", "leased", "away"}]
  BY DEF Init
<1>3. stats \in [claimed: Nat, succeeded: Nat, failed: Nat] /\ stored \in Nat /\ reserved \in Nat
  BY DEF Init
<1>4. arrivals \in 0..MaxArrivals
  BY PoolAssumption DEF Init
<1>5. Hands
  BY <1>1 DEF Hands
<1> QED BY <1>1, <1>2, <1>3, <1>4, <1>5 DEF Init, Typed, TypeOK, Errors

LEMMA TypedStep == Typed /\ [Next]_vars => Typed'
<1> SUFFICES ASSUME Typed, [Next]_vars PROVE Typed'
  OBVIOUS
<1> USE PoolAssumption DEF Typed, TypeOK, Hands, Went, Failed, Put, Took, Moved, Errors, At, FinishClaim, shared, history
<1>1. ASSUME NEW w \in Slots, Leave(w) PROVE Typed'
  <2>1. Went(w, "ended")
    BY <1>1, GoMoves DEF Leave, Pcs, Typed, At
  <2> QED BY <1>1, <2>1 DEF Leave
<1>2. ASSUME NEW w \in Slots, ReserveClaim(w) PROVE Typed'
  <2>1. Went(w, "claiming")
    BY <1>2, GoMoves DEF ReserveClaim, Pcs, Typed, At
  <2> QED BY <1>2, <2>1 DEF ReserveClaim
<1>3. ASSUME NEW w \in Slots, Busy(w) PROVE Typed'
  <2>1. Went(w, slot[w].pc)
    BY <1>3, BusyMoves DEF Typed
  <2> QED BY <1>3, <2>1 DEF Busy
<1>4. ASSUME NEW w \in Slots, ClaimNothing(w) PROVE Typed'
  <2>1. Went(w, "claimed")
    BY <1>4, GoMoves DEF ClaimNothing, Pcs, Typed, At
  <2> QED BY <1>4, <2>1 DEF ClaimNothing
<1>5. ASSUME NEW w \in Slots, ClaimFails(w) PROVE Typed'
  <2>1. Failed(w, "unclaimed")
    BY <1>5, FailsMoves DEF ClaimFails, Pcs, Typed, At
  <2> QED BY <1>5, <2>1 DEF ClaimFails
<1>6. ASSUME NEW w \in Slots, CountClaim(w) PROVE Typed'
  <2>1. Went(w, IF slot[w].job = NoJob THEN "sending" ELSE "working")
    BY <1>6, GoMoves DEF CountClaim, Pcs, Typed, At
  <2>2. stats' \in [claimed: Nat, succeeded: Nat, failed: Nat] /\ reserved' \in Nat
    BY <1>6 DEF CountClaim
  <2>3. slot[w].job \in Jobs \cup {NoJob}
    BY DEF SlotState
  <2>4. Hands'
    <3>1. CASE slot[w].job = NoJob
      BY <2>1, <3>1
    <3>2. CASE slot[w].job # NoJob
      BY <2>1, <2>3, <3>2
    <3> QED BY <3>1, <3>2
  <2> QED BY <1>6, <2>1, <2>2, <2>4 DEF CountClaim
<1>7. ASSUME NEW w \in Slots, ReturnClaim(w) PROVE Typed'
  <2>1. Went(w, "failing")
    BY <1>7, GoMoves DEF ReturnClaim, Pcs, Typed, At
  <2> QED BY <1>7, <2>1 DEF ReturnClaim
<1>8. ASSUME NEW w \in Slots, SendPending(w) PROVE Typed'
  <2>1. Went(w, IF Stays THEN "sleeping" ELSE "ended")
    BY <1>8, GoMoves DEF SendPending, Pcs, Typed, At
  <2> QED BY <1>8, <2>1 DEF SendPending
<1>9. ASSUME NEW w \in Slots, SendFails(w) PROVE Typed'
  <2>1. Failed(w, "failing")
    BY <1>9, FailsMoves DEF SendFails, Pcs, Typed, At
  <2> QED BY <1>9, <2>1 DEF SendFails
<1>10. ASSUME NEW w \in Slots, Wake(w) PROVE Typed'
  <2>1. Went(w, "starting") \/ (canceled /\ Went(w, "ended"))
    BY <1>10, GoMoves DEF Wake, Pcs, Typed, At
  <2> QED BY <1>10, <2>1 DEF Wake
<1>11. ASSUME NEW w \in Slots, SetError(w) PROVE Typed'
  <2>1. Went(w, "cancelling")
    BY <1>11, GoMoves DEF SetError, Pcs, Typed, At
  <2>2. firstError' \in Errors
    BY <1>11 DEF SetError, SlotState
  <2> QED BY <1>11, <2>1, <2>2 DEF SetError
<1>12. ASSUME NEW w \in Slots, Cancel(w) PROVE Typed'
  <2>1. Went(w, "ended")
    BY <1>12, GoMoves DEF Cancel, Pcs, Typed, At
  <2> QED BY <1>12, <2>1 DEF Cancel
<1>13. ASSUME NEW w \in Slots, Finalize(w) PROVE Typed'
  <2>1. Put(w, "following")
    BY <1>13, PutMoves DEF Finalize, Pcs, Typed, At
  <2>2. job' \in [Jobs -> {"waiting", "held", "leased", "away"}]
    BY <1>13, PlaceType DEF Finalize, Typed
  <2> QED BY <1>13, <2>1, <2>2 DEF Finalize
<1>14. ASSUME NEW w \in Slots, SendAfterFinalize(w) PROVE Typed'
  <2>1. Went(w, "starting")
    BY <1>14, GoMoves DEF SendAfterFinalize, Pcs, Typed, At
  <2> QED BY <1>14, <2>1 DEF SendAfterFinalize
<1>15. ASSUME NEW w \in Slots, Reject(w) PROVE Typed'
  <2>1. Put(w, "starting")
    BY <1>15, PutMoves DEF Reject, Pcs, Typed, At
  <2>2. job' \in [Jobs -> {"waiting", "held", "leased", "away"}]
    BY <1>15, PlaceType DEF Reject, Typed
  <2> QED BY <1>15, <2>1, <2>2 DEF Reject
<1>16. ASSUME NEW w \in Slots, Drop(w) PROVE Typed'
  <2>1. Put(w, "starting")
    BY <1>16, PutMoves DEF Drop, Pcs, Typed, At
  <2>2. job' \in [Jobs -> {"waiting", "held", "leased", "away"}]
    BY <1>16, PlaceType DEF Drop, Typed
  <2> QED BY <1>16, <2>1, <2>2 DEF Drop
<1>17. ASSUME NEW w \in Slots, Abandon(w) PROVE Typed'
  <2>1. Put(w, "starting")
    BY <1>17, PutMoves DEF Abandon, Pcs, Typed, At
  <2>2. job' \in [Jobs -> {"waiting", "held", "leased", "away"}]
    BY <1>17, PlaceType DEF Abandon, Typed
  <2> QED BY <1>17, <2>1, <2>2 DEF Abandon
<1>18. ASSUME NEW w \in Slots, PersistFails(w) PROVE Typed'
  <2>1. Put(w, "starting")
    BY <1>18, PutMoves DEF PersistFails, Pcs, Typed, At
  <2>2. job' \in [Jobs -> {"waiting", "held", "leased", "away"}]
    BY <1>18, PlaceType DEF PersistFails, Typed
  <2> QED BY <1>18, <2>1, <2>2 DEF PersistFails
<1>19. ASSUME NEW w \in Slots, NEW j \in Jobs, Claim(w, j) PROVE Typed'
  <2>1. Took(w, j)
    BY <1>19, ClaimMoves DEF Typed
  <2> QED BY <1>19, <2>1 DEF Claim
<1>20. ASSUME NEW j \in Jobs, Arrive(j) PROVE Typed'
  BY <1>20 DEF Arrive
<1>21. ASSUME NEW j \in Jobs, Vanish(j) PROVE Typed'
  BY <1>21 DEF Vanish
<1>22. ASSUME CallerCancels PROVE Typed'
  BY <1>22 DEF CallerCancels
<1>23. CASE UNCHANGED vars
  BY <1>23 DEF vars
<1> QED BY <1>1, <1>2, <1>3, <1>4, <1>5, <1>6, <1>7, <1>8, <1>9, <1>10, <1>11, <1>12, <1>13, <1>14, <1>15, <1>16, <1>17, <1>18, <1>19, <1>20, <1>21, <1>22, <1>23 DEF Next, Loop, Work

\* Types of everything WorkerPool keeps.
THEOREM TypeCorrect == Spec => []TypeOK
<1>1. Spec => []Typed
  BY TypedInit, TypedStep, PTL DEF Spec
<1> QED BY <1>1, PTL DEF Typed

\* Who has an error in hand, and what the first one says.
Cause ==
    /\ firstError = "canceled" => byCaller
    /\ canceled /\ ~byCaller => firstError = "failure"
    /\ \A w \in Slots :
         /\ At(w, "cancelling") => firstError # "none"
         /\ slot[w].pc \in {"unclaimed", "failing"} /\ slot[w].error = "canceled" => canceled

LEMMA CauseStep == Typed /\ Cause /\ [Next]_vars => Cause'
<1> SUFFICES ASSUME Typed /\ Cause, [Next]_vars PROVE Cause'
  OBVIOUS
<1> USE PoolAssumption DEF Typed, TypeOK, Hands, Went, Failed, Put, Took, Moved, At, shared, history, Cause, Errors, SlotState
<1>1. ASSUME NEW w \in Slots, Leave(w) PROVE Cause'
  <2>1. Went(w, "ended")
    BY <1>1, GoMoves DEF Leave, Pcs, Typed, At
  <2> QED BY <1>1, <2>1 DEF Leave
<1>2. ASSUME NEW w \in Slots, ReserveClaim(w) PROVE Cause'
  <2>1. Went(w, "claiming")
    BY <1>2, GoMoves DEF ReserveClaim, Pcs, Typed, At
  <2> QED BY <1>2, <2>1 DEF ReserveClaim
<1>3. ASSUME NEW w \in Slots, Busy(w) PROVE Cause'
  <2>1. Went(w, slot[w].pc)
    BY <1>3, BusyMoves DEF Typed
  <2> QED BY <1>3, <2>1 DEF Busy
<1>4. ASSUME NEW w \in Slots, ClaimNothing(w) PROVE Cause'
  <2>1. Went(w, "claimed")
    BY <1>4, GoMoves DEF ClaimNothing, Pcs, Typed, At
  <2> QED BY <1>4, <2>1 DEF ClaimNothing
<1>5. ASSUME NEW w \in Slots, ClaimFails(w) PROVE Cause'
  <2>1. Failed(w, "unclaimed")
    BY <1>5, FailsMoves DEF ClaimFails, Pcs, Typed, At
  <2> QED BY <1>5, <2>1 DEF ClaimFails
<1>6. ASSUME NEW w \in Slots, CountClaim(w) PROVE Cause'
  <2>1. Went(w, IF slot[w].job = NoJob THEN "sending" ELSE "working")
    BY <1>6, GoMoves DEF CountClaim, Pcs, Typed, At
  <2> QED BY <1>6, <2>1 DEF CountClaim
<1>7. ASSUME NEW w \in Slots, ReturnClaim(w) PROVE Cause'
  <2>1. Went(w, "failing")
    BY <1>7, GoMoves DEF ReturnClaim, Pcs, Typed, At
  <2> QED BY <1>7, <2>1 DEF ReturnClaim
<1>8. ASSUME NEW w \in Slots, SendPending(w) PROVE Cause'
  <2>1. Went(w, IF Stays THEN "sleeping" ELSE "ended")
    BY <1>8, GoMoves DEF SendPending, Pcs, Typed, At
  <2> QED BY <1>8, <2>1 DEF SendPending
<1>9. ASSUME NEW w \in Slots, SendFails(w) PROVE Cause'
  <2>1. Failed(w, "failing")
    BY <1>9, FailsMoves DEF SendFails, Pcs, Typed, At
  <2> QED BY <1>9, <2>1 DEF SendFails
<1>10. ASSUME NEW w \in Slots, Wake(w) PROVE Cause'
  <2>1. Went(w, "starting") \/ (canceled /\ Went(w, "ended"))
    BY <1>10, GoMoves DEF Wake, Pcs, Typed, At
  <2> QED BY <1>10, <2>1 DEF Wake
<1>11. ASSUME NEW w \in Slots, SetError(w) PROVE Cause'
  <2>1. Went(w, "cancelling")
    BY <1>11, GoMoves DEF SetError, Pcs, Typed, At
  <2> QED BY <1>11, <2>1 DEF SetError
<1>12. ASSUME NEW w \in Slots, Cancel(w) PROVE Cause'
  <2>1. Went(w, "ended")
    BY <1>12, GoMoves DEF Cancel, Pcs, Typed, At
  <2> QED BY <1>12, <2>1 DEF Cancel
<1>13. ASSUME NEW w \in Slots, Finalize(w) PROVE Cause'
  <2>1. Put(w, "following")
    BY <1>13, PutMoves DEF Finalize, Pcs, Typed, At
  <2> QED BY <1>13, <2>1 DEF Finalize
<1>14. ASSUME NEW w \in Slots, SendAfterFinalize(w) PROVE Cause'
  <2>1. Went(w, "starting")
    BY <1>14, GoMoves DEF SendAfterFinalize, Pcs, Typed, At
  <2> QED BY <1>14, <2>1 DEF SendAfterFinalize
<1>15. ASSUME NEW w \in Slots, Reject(w) PROVE Cause'
  <2>1. Put(w, "starting")
    BY <1>15, PutMoves DEF Reject, Pcs, Typed, At
  <2> QED BY <1>15, <2>1 DEF Reject
<1>16. ASSUME NEW w \in Slots, Drop(w) PROVE Cause'
  <2>1. Put(w, "starting")
    BY <1>16, PutMoves DEF Drop, Pcs, Typed, At
  <2> QED BY <1>16, <2>1 DEF Drop
<1>17. ASSUME NEW w \in Slots, Abandon(w) PROVE Cause'
  <2>1. Put(w, "starting")
    BY <1>17, PutMoves DEF Abandon, Pcs, Typed, At
  <2> QED BY <1>17, <2>1 DEF Abandon
<1>18. ASSUME NEW w \in Slots, PersistFails(w) PROVE Cause'
  <2>1. Put(w, "starting")
    BY <1>18, PutMoves DEF PersistFails, Pcs, Typed, At
  <2> QED BY <1>18, <2>1 DEF PersistFails
<1>19. ASSUME NEW w \in Slots, NEW j \in Jobs, Claim(w, j) PROVE Cause'
  <2>1. Took(w, j)
    BY <1>19, ClaimMoves DEF Typed
  <2> QED BY <1>19, <2>1 DEF Claim
<1>20. ASSUME NEW j \in Jobs, Arrive(j) PROVE Cause'
  BY <1>20 DEF Arrive
<1>21. ASSUME NEW j \in Jobs, Vanish(j) PROVE Cause'
  BY <1>21 DEF Vanish
<1>22. ASSUME CallerCancels PROVE Cause'
  BY <1>22 DEF CallerCancels
<1>23. CASE UNCHANGED vars
  BY <1>23 DEF vars
<1> QED BY <1>1, <1>2, <1>3, <1>4, <1>5, <1>6, <1>7, <1>8, <1>9, <1>10, <1>11, <1>12, <1>13, <1>14, <1>15, <1>16, <1>17, <1>18, <1>19, <1>20, <1>21, <1>22, <1>23 DEF Next, Loop, Work

\* The error that is reported is what ended the run.
THEOREM CauseReported == Spec => []FirstErrorIsTheCause
<1>1. Init => Cause
  BY DEF Init, Cause, At
<1>2. Spec => [](Typed /\ Cause)
  BY <1>1, TypedInit, TypedStep, CauseStep, PTL DEF Spec
<1>3. Cause => FirstErrorIsTheCause
  BY DEF Cause, FirstErrorIsTheCause
<1> QED BY <1>2, <1>3, PTL

\* A result is counted, or its slot is about to count it.
Followers == {w \in Slots : At(w, "following")}

Accounts == stats.succeeded + Cardinality(Followers) = stored

LEMMA FollowersFinite == IsFiniteSet(Followers) /\ Cardinality(Followers) \in Nat
BY PoolAssumption, FS_Subset, FS_CardinalityType DEF Followers

LEMMA AccountsStep == Typed /\ Accounts /\ [Next]_vars => Accounts'
<1> SUFFICES ASSUME Typed /\ Accounts, [Next]_vars PROVE Accounts'
  OBVIOUS
<1> USE PoolAssumption DEF Typed, TypeOK, Hands, Went, Failed, Put, Took, Moved, At, shared, history
<1>1. ASSUME NEW w \in Slots, Leave(w) PROVE Accounts'
  <2>1. Went(w, "ended")
    BY <1>1, GoMoves DEF Leave, Pcs, At, Typed
  <2>2. Followers' = Followers
    BY <1>1, <2>1 DEF Leave, Followers
  <2> QED BY <1>1, <2>1, <2>2, FollowersFinite DEF Leave, Accounts, FinishClaim
<1>2. ASSUME NEW w \in Slots, ReserveClaim(w) PROVE Accounts'
  <2>1. Went(w, "claiming")
    BY <1>2, GoMoves DEF ReserveClaim, Pcs, At, Typed
  <2>2. Followers' = Followers
    BY <1>2, <2>1 DEF ReserveClaim, Followers
  <2> QED BY <1>2, <2>1, <2>2, FollowersFinite DEF ReserveClaim, Accounts, FinishClaim
<1>3. ASSUME NEW w \in Slots, Busy(w) PROVE Accounts'
  <2>1. Went(w, slot[w].pc)
    BY <1>3, BusyMoves DEF Typed
  <2>2. Followers' = Followers
    BY <1>3, <2>1 DEF Busy, Followers
  <2> QED BY <1>3, <2>1, <2>2, FollowersFinite DEF Busy, Accounts, FinishClaim
<1>4. ASSUME NEW w \in Slots, ClaimNothing(w) PROVE Accounts'
  <2>1. Went(w, "claimed")
    BY <1>4, GoMoves DEF ClaimNothing, Pcs, At, Typed
  <2>2. Followers' = Followers
    BY <1>4, <2>1 DEF ClaimNothing, Followers
  <2> QED BY <1>4, <2>1, <2>2, FollowersFinite DEF ClaimNothing, Accounts, FinishClaim
<1>5. ASSUME NEW w \in Slots, ClaimFails(w) PROVE Accounts'
  <2>1. Failed(w, "unclaimed")
    BY <1>5, FailsMoves DEF ClaimFails, Pcs, At, Typed
  <2>2. Followers' = Followers
    BY <1>5, <2>1 DEF ClaimFails, Followers
  <2> QED BY <1>5, <2>1, <2>2, FollowersFinite DEF ClaimFails, Accounts, FinishClaim
<1>6. ASSUME NEW w \in Slots, CountClaim(w) PROVE Accounts'
  <2>1. Went(w, IF slot[w].job = NoJob THEN "sending" ELSE "working")
    BY <1>6, GoMoves DEF CountClaim, Pcs, At, Typed
  <2>2. Followers' = Followers
    BY <1>6, <2>1 DEF CountClaim, Followers
  <2> QED BY <1>6, <2>1, <2>2, FollowersFinite DEF CountClaim, Accounts, FinishClaim
<1>7. ASSUME NEW w \in Slots, ReturnClaim(w) PROVE Accounts'
  <2>1. Went(w, "failing")
    BY <1>7, GoMoves DEF ReturnClaim, Pcs, At, Typed
  <2>2. Followers' = Followers
    BY <1>7, <2>1 DEF ReturnClaim, Followers
  <2> QED BY <1>7, <2>1, <2>2, FollowersFinite DEF ReturnClaim, Accounts, FinishClaim
<1>8. ASSUME NEW w \in Slots, SendPending(w) PROVE Accounts'
  <2>1. Went(w, IF Stays THEN "sleeping" ELSE "ended")
    BY <1>8, GoMoves DEF SendPending, Pcs, At, Typed
  <2>2. Followers' = Followers
    BY <1>8, <2>1 DEF SendPending, Followers
  <2> QED BY <1>8, <2>1, <2>2, FollowersFinite DEF SendPending, Accounts, FinishClaim
<1>9. ASSUME NEW w \in Slots, SendFails(w) PROVE Accounts'
  <2>1. Failed(w, "failing")
    BY <1>9, FailsMoves DEF SendFails, Pcs, At, Typed
  <2>2. Followers' = Followers
    BY <1>9, <2>1 DEF SendFails, Followers
  <2> QED BY <1>9, <2>1, <2>2, FollowersFinite DEF SendFails, Accounts, FinishClaim
<1>10. ASSUME NEW w \in Slots, Wake(w) PROVE Accounts'
  <2>1. Went(w, "starting") \/ (canceled /\ Went(w, "ended"))
    BY <1>10, GoMoves DEF Wake, Pcs, At, Typed
  <2>2. Followers' = Followers
    BY <1>10, <2>1 DEF Wake, Followers
  <2> QED BY <1>10, <2>1, <2>2, FollowersFinite DEF Wake, Accounts, FinishClaim
<1>11. ASSUME NEW w \in Slots, SetError(w) PROVE Accounts'
  <2>1. Went(w, "cancelling")
    BY <1>11, GoMoves DEF SetError, Pcs, At, Typed
  <2>2. Followers' = Followers
    BY <1>11, <2>1 DEF SetError, Followers
  <2> QED BY <1>11, <2>1, <2>2, FollowersFinite DEF SetError, Accounts, FinishClaim
<1>12. ASSUME NEW w \in Slots, Cancel(w) PROVE Accounts'
  <2>1. Went(w, "ended")
    BY <1>12, GoMoves DEF Cancel, Pcs, At, Typed
  <2>2. Followers' = Followers
    BY <1>12, <2>1 DEF Cancel, Followers
  <2> QED BY <1>12, <2>1, <2>2, FollowersFinite DEF Cancel, Accounts, FinishClaim
<1>13. ASSUME NEW w \in Slots, Finalize(w) PROVE Accounts'
  <2>1. Put(w, "following")
    BY <1>13, PutMoves DEF Finalize, Pcs, At, Typed
  <2>2. Followers' = Followers \cup {w} /\ w \notin Followers
    BY <1>13, <2>1 DEF Finalize, Followers
  <2>3. Cardinality(Followers') = Cardinality(Followers) + 1
    BY <2>2, FS_AddElement, FollowersFinite
  <2> QED BY <1>13, <2>1, <2>3, FollowersFinite DEF Finalize, Accounts, FinishClaim
<1>14. ASSUME NEW w \in Slots, SendAfterFinalize(w) PROVE Accounts'
  <2>1. Went(w, "starting")
    BY <1>14, GoMoves DEF SendAfterFinalize, Pcs, At, Typed
  <2>2. Followers' = Followers \ {w} /\ w \in Followers
    BY <1>14, <2>1 DEF SendAfterFinalize, Followers
  <2>3. Cardinality(Followers') = Cardinality(Followers) - 1
    BY <2>2, FS_RemoveElement, FollowersFinite
  <2> QED BY <1>14, <2>1, <2>3, FollowersFinite DEF SendAfterFinalize, Accounts, FinishClaim
<1>15. ASSUME NEW w \in Slots, Reject(w) PROVE Accounts'
  <2>1. Put(w, "starting")
    BY <1>15, PutMoves DEF Reject, Pcs, At, Typed
  <2>2. Followers' = Followers
    BY <1>15, <2>1 DEF Reject, Followers
  <2> QED BY <1>15, <2>1, <2>2, FollowersFinite DEF Reject, Accounts, FinishClaim
<1>16. ASSUME NEW w \in Slots, Drop(w) PROVE Accounts'
  <2>1. Put(w, "starting")
    BY <1>16, PutMoves DEF Drop, Pcs, At, Typed
  <2>2. Followers' = Followers
    BY <1>16, <2>1 DEF Drop, Followers
  <2> QED BY <1>16, <2>1, <2>2, FollowersFinite DEF Drop, Accounts, FinishClaim
<1>17. ASSUME NEW w \in Slots, Abandon(w) PROVE Accounts'
  <2>1. Put(w, "starting")
    BY <1>17, PutMoves DEF Abandon, Pcs, At, Typed
  <2>2. Followers' = Followers
    BY <1>17, <2>1 DEF Abandon, Followers
  <2> QED BY <1>17, <2>1, <2>2, FollowersFinite DEF Abandon, Accounts, FinishClaim
<1>18. ASSUME NEW w \in Slots, PersistFails(w) PROVE Accounts'
  <2>1. Put(w, "starting")
    BY <1>18, PutMoves DEF PersistFails, Pcs, At, Typed
  <2>2. Followers' = Followers
    BY <1>18, <2>1 DEF PersistFails, Followers
  <2> QED BY <1>18, <2>1, <2>2, FollowersFinite DEF PersistFails, Accounts, FinishClaim
<1>19. ASSUME NEW w \in Slots, NEW j \in Jobs, Claim(w, j) PROVE Accounts'
  <2>1. Took(w, j)
    BY <1>19, ClaimMoves DEF Typed
  <2>2. Followers' = Followers
    BY <1>19, <2>1 DEF Claim, Followers
  <2> QED BY <1>19, <2>1, <2>2, FollowersFinite DEF Claim, Accounts, FinishClaim
<1>20. ASSUME NEW j \in Jobs, Arrive(j) PROVE Accounts'
  BY <1>20 DEF Arrive, Followers, Accounts, FinishClaim
<1>21. ASSUME NEW j \in Jobs, Vanish(j) PROVE Accounts'
  BY <1>21 DEF Vanish, Followers, Accounts, FinishClaim
<1>22. ASSUME CallerCancels PROVE Accounts'
  BY <1>22 DEF CallerCancels, Followers, Accounts, FinishClaim
<1>23. CASE UNCHANGED vars
  BY <1>23 DEF vars, Accounts, Followers
<1> QED BY <1>1, <1>2, <1>3, <1>4, <1>5, <1>6, <1>7, <1>8, <1>9, <1>10, <1>11, <1>12, <1>13, <1>14, <1>15, <1>16, <1>17, <1>18, <1>19, <1>20, <1>21, <1>22, <1>23 DEF Next, Loop, Work

\* When the run returns, every result it stored is counted.
THEOREM ResultsCounted == Spec => []StoredIsCounted
<1>1. Init => Accounts
  <2> SUFFICES ASSUME Init PROVE Accounts
    OBVIOUS
  <2>1. Followers = {}
    BY DEF Init, Followers, At
  <2> QED BY <2>1, FS_EmptySet DEF Init, Accounts
<1>2. Spec => [](Typed /\ Accounts)
  BY <1>1, TypedInit, TypedStep, AccountsStep, PTL DEF Spec
<1>3. Typed /\ Accounts => StoredIsCounted
  <2> SUFFICES ASSUME Typed, Accounts, Ended PROVE stats.succeeded = stored
    BY DEF StoredIsCounted
  <2>1. Followers = {}
    BY DEF Ended, Followers, At
  <2> QED BY <2>1, FS_EmptySet DEF Accounts, Typed, TypeOK
<1> QED BY <1>2, <1>3, PTL

\* With a limit, reserved counts the slots between their reservation and their
\* count: the two together never pass the limit.
Reservations ==
    /\ opts.limit = 0 => reserved = 0
    /\ opts.limit > 0 => /\ reserved = Cardinality(Reserving)
                         /\ stats.claimed + reserved <= opts.limit

LEMMA ReservingFinite == IsFiniteSet(Reserving) /\ Cardinality(Reserving) \in Nat
BY PoolAssumption, FS_Subset, FS_CardinalityType DEF Reserving

LEMMA ReservationsStep == Typed /\ Reservations /\ [Next]_vars => Reservations'
<1> SUFFICES ASSUME Typed /\ Reservations, [Next]_vars PROVE Reservations'
  OBVIOUS
<1> USE PoolAssumption DEF Typed, TypeOK, Hands, Went, Failed, Put, Took, Moved, At, shared, history
<1>1. ASSUME NEW w \in Slots, Leave(w) PROVE Reservations'
  <2>1. Went(w, "ended")
    BY <1>1, GoMoves DEF Leave, Pcs, At, Typed
  <2>2. Reserving' = Reserving
    BY <1>1, <2>1 DEF Leave, Reserving
  <2> QED BY <1>1, <2>1, <2>2, ReservingFinite DEF Leave, Reservations, FinishClaim, Room
<1>2. ASSUME NEW w \in Slots, ReserveClaim(w) PROVE Reservations'
  <2>1. Went(w, "claiming")
    BY <1>2, GoMoves DEF ReserveClaim, Pcs, At, Typed
  <2>2. Reserving' = Reserving \cup {w} /\ w \notin Reserving
    BY <1>2, <2>1 DEF ReserveClaim, Reserving
  <2>3. Cardinality(Reserving') = Cardinality(Reserving) + 1
    BY <2>2, FS_AddElement, ReservingFinite
  <2> QED BY <1>2, <2>1, <2>3, ReservingFinite DEF ReserveClaim, Reservations, FinishClaim, Room
<1>3. ASSUME NEW w \in Slots, Busy(w) PROVE Reservations'
  <2>1. Went(w, slot[w].pc)
    BY <1>3, BusyMoves DEF Typed
  <2>2. Reserving' = Reserving
    BY <1>3, <2>1 DEF Busy, Reserving
  <2> QED BY <1>3, <2>1, <2>2, ReservingFinite DEF Busy, Reservations, FinishClaim, Room
<1>4. ASSUME NEW w \in Slots, ClaimNothing(w) PROVE Reservations'
  <2>1. Went(w, "claimed")
    BY <1>4, GoMoves DEF ClaimNothing, Pcs, At, Typed
  <2>2. Reserving' = Reserving
    BY <1>4, <2>1 DEF ClaimNothing, Reserving
  <2> QED BY <1>4, <2>1, <2>2, ReservingFinite DEF ClaimNothing, Reservations, FinishClaim, Room
<1>5. ASSUME NEW w \in Slots, ClaimFails(w) PROVE Reservations'
  <2>1. Failed(w, "unclaimed")
    BY <1>5, FailsMoves DEF ClaimFails, Pcs, At, Typed
  <2>2. Reserving' = Reserving
    BY <1>5, <2>1 DEF ClaimFails, Reserving
  <2> QED BY <1>5, <2>1, <2>2, ReservingFinite DEF ClaimFails, Reservations, FinishClaim, Room
<1>6. ASSUME NEW w \in Slots, CountClaim(w) PROVE Reservations'
  <2>1. Went(w, IF slot[w].job = NoJob THEN "sending" ELSE "working")
    BY <1>6, GoMoves DEF CountClaim, Pcs, At, Typed
  <2>2. Reserving' = Reserving \ {w} /\ w \in Reserving
    BY <1>6, <2>1 DEF CountClaim, Reserving
  <2>3. Cardinality(Reserving') = Cardinality(Reserving) - 1
    BY <2>2, FS_RemoveElement, ReservingFinite
  <2>4. opts' = opts /\ stats'.claimed = stats.claimed + (IF slot[w].job = NoJob THEN 0 ELSE 1)
    BY <1>6 DEF CountClaim, FinishClaim
  <2>5. reserved' = IF reserved > 0 THEN reserved - 1 ELSE 0
    BY <1>6 DEF CountClaim, FinishClaim
  <2>6. stats.claimed \in Nat /\ reserved \in Nat /\ opts.limit \in Nat
    OBVIOUS
  <2>7. CASE opts.limit = 0
    BY <2>4, <2>5, <2>7 DEF Reservations
  <2>8. CASE opts.limit > 0
    <3>1. reserved = Cardinality(Reserving) /\ Cardinality(Reserving') = Cardinality(Reserving) - 1
      BY <2>3, <2>8 DEF Reservations
    <3>2. Cardinality(Reserving) > 0
      BY <2>2, ReservingFinite, FS_EmptySet
    <3>3. reserved' = Cardinality(Reserving')
      BY <2>5, <3>1, <3>2, ReservingFinite
    <3>4. stats'.claimed + reserved' <= opts.limit
      BY <2>4, <2>5, <2>6, <2>8, <3>1, <3>2 DEF Reservations
    <3> QED BY <2>4, <2>8, <3>3, <3>4 DEF Reservations
  <2> QED BY <2>6, <2>7, <2>8
<1>7. ASSUME NEW w \in Slots, ReturnClaim(w) PROVE Reservations'
  <2>1. Went(w, "failing")
    BY <1>7, GoMoves DEF ReturnClaim, Pcs, At, Typed
  <2>2. Reserving' = Reserving \ {w} /\ w \in Reserving
    BY <1>7, <2>1 DEF ReturnClaim, Reserving
  <2>3. Cardinality(Reserving') = Cardinality(Reserving) - 1
    BY <2>2, FS_RemoveElement, ReservingFinite
  <2>4. opts' = opts /\ stats'.claimed = stats.claimed + 0
    BY <1>7 DEF ReturnClaim, FinishClaim
  <2>5. reserved' = IF reserved > 0 THEN reserved - 1 ELSE 0
    BY <1>7 DEF ReturnClaim, FinishClaim
  <2>6. stats.claimed \in Nat /\ reserved \in Nat /\ opts.limit \in Nat
    OBVIOUS
  <2>7. CASE opts.limit = 0
    BY <2>4, <2>5, <2>7 DEF Reservations
  <2>8. CASE opts.limit > 0
    <3>1. reserved = Cardinality(Reserving) /\ Cardinality(Reserving') = Cardinality(Reserving) - 1
      BY <2>3, <2>8 DEF Reservations
    <3>2. Cardinality(Reserving) > 0
      BY <2>2, ReservingFinite, FS_EmptySet
    <3>3. reserved' = Cardinality(Reserving')
      BY <2>5, <3>1, <3>2, ReservingFinite
    <3>4. stats'.claimed + reserved' <= opts.limit
      BY <2>4, <2>5, <2>6, <2>8, <3>1, <3>2 DEF Reservations
    <3> QED BY <2>4, <2>8, <3>3, <3>4 DEF Reservations
  <2> QED BY <2>6, <2>7, <2>8
<1>8. ASSUME NEW w \in Slots, SendPending(w) PROVE Reservations'
  <2>1. Went(w, IF Stays THEN "sleeping" ELSE "ended")
    BY <1>8, GoMoves DEF SendPending, Pcs, At, Typed
  <2>2. Reserving' = Reserving
    BY <1>8, <2>1 DEF SendPending, Reserving
  <2> QED BY <1>8, <2>1, <2>2, ReservingFinite DEF SendPending, Reservations, FinishClaim, Room
<1>9. ASSUME NEW w \in Slots, SendFails(w) PROVE Reservations'
  <2>1. Failed(w, "failing")
    BY <1>9, FailsMoves DEF SendFails, Pcs, At, Typed
  <2>2. Reserving' = Reserving
    BY <1>9, <2>1 DEF SendFails, Reserving
  <2> QED BY <1>9, <2>1, <2>2, ReservingFinite DEF SendFails, Reservations, FinishClaim, Room
<1>10. ASSUME NEW w \in Slots, Wake(w) PROVE Reservations'
  <2>1. Went(w, "starting") \/ (canceled /\ Went(w, "ended"))
    BY <1>10, GoMoves DEF Wake, Pcs, At, Typed
  <2>2. Reserving' = Reserving
    BY <1>10, <2>1 DEF Wake, Reserving
  <2> QED BY <1>10, <2>1, <2>2, ReservingFinite DEF Wake, Reservations, FinishClaim, Room
<1>11. ASSUME NEW w \in Slots, SetError(w) PROVE Reservations'
  <2>1. Went(w, "cancelling")
    BY <1>11, GoMoves DEF SetError, Pcs, At, Typed
  <2>2. Reserving' = Reserving
    BY <1>11, <2>1 DEF SetError, Reserving
  <2> QED BY <1>11, <2>1, <2>2, ReservingFinite DEF SetError, Reservations, FinishClaim, Room
<1>12. ASSUME NEW w \in Slots, Cancel(w) PROVE Reservations'
  <2>1. Went(w, "ended")
    BY <1>12, GoMoves DEF Cancel, Pcs, At, Typed
  <2>2. Reserving' = Reserving
    BY <1>12, <2>1 DEF Cancel, Reserving
  <2> QED BY <1>12, <2>1, <2>2, ReservingFinite DEF Cancel, Reservations, FinishClaim, Room
<1>13. ASSUME NEW w \in Slots, Finalize(w) PROVE Reservations'
  <2>1. Put(w, "following")
    BY <1>13, PutMoves DEF Finalize, Pcs, At, Typed
  <2>2. Reserving' = Reserving
    BY <1>13, <2>1 DEF Finalize, Reserving
  <2> QED BY <1>13, <2>1, <2>2, ReservingFinite DEF Finalize, Reservations, FinishClaim, Room
<1>14. ASSUME NEW w \in Slots, SendAfterFinalize(w) PROVE Reservations'
  <2>1. Went(w, "starting")
    BY <1>14, GoMoves DEF SendAfterFinalize, Pcs, At, Typed
  <2>2. Reserving' = Reserving
    BY <1>14, <2>1 DEF SendAfterFinalize, Reserving
  <2> QED BY <1>14, <2>1, <2>2, ReservingFinite DEF SendAfterFinalize, Reservations, FinishClaim, Room
<1>15. ASSUME NEW w \in Slots, Reject(w) PROVE Reservations'
  <2>1. Put(w, "starting")
    BY <1>15, PutMoves DEF Reject, Pcs, At, Typed
  <2>2. Reserving' = Reserving
    BY <1>15, <2>1 DEF Reject, Reserving
  <2> QED BY <1>15, <2>1, <2>2, ReservingFinite DEF Reject, Reservations, FinishClaim, Room
<1>16. ASSUME NEW w \in Slots, Drop(w) PROVE Reservations'
  <2>1. Put(w, "starting")
    BY <1>16, PutMoves DEF Drop, Pcs, At, Typed
  <2>2. Reserving' = Reserving
    BY <1>16, <2>1 DEF Drop, Reserving
  <2> QED BY <1>16, <2>1, <2>2, ReservingFinite DEF Drop, Reservations, FinishClaim, Room
<1>17. ASSUME NEW w \in Slots, Abandon(w) PROVE Reservations'
  <2>1. Put(w, "starting")
    BY <1>17, PutMoves DEF Abandon, Pcs, At, Typed
  <2>2. Reserving' = Reserving
    BY <1>17, <2>1 DEF Abandon, Reserving
  <2> QED BY <1>17, <2>1, <2>2, ReservingFinite DEF Abandon, Reservations, FinishClaim, Room
<1>18. ASSUME NEW w \in Slots, PersistFails(w) PROVE Reservations'
  <2>1. Put(w, "starting")
    BY <1>18, PutMoves DEF PersistFails, Pcs, At, Typed
  <2>2. Reserving' = Reserving
    BY <1>18, <2>1 DEF PersistFails, Reserving
  <2> QED BY <1>18, <2>1, <2>2, ReservingFinite DEF PersistFails, Reservations, FinishClaim, Room
<1>19. ASSUME NEW w \in Slots, NEW j \in Jobs, Claim(w, j) PROVE Reservations'
  <2>1. Took(w, j)
    BY <1>19, ClaimMoves DEF Typed
  <2>2. Reserving' = Reserving
    BY <1>19, <2>1 DEF Claim, Reserving
  <2> QED BY <1>19, <2>1, <2>2, ReservingFinite DEF Claim, Reservations, FinishClaim, Room
<1>20. ASSUME NEW j \in Jobs, Arrive(j) PROVE Reservations'
  BY <1>20 DEF Arrive, Reserving, Reservations, FinishClaim, Room
<1>21. ASSUME NEW j \in Jobs, Vanish(j) PROVE Reservations'
  BY <1>21 DEF Vanish, Reserving, Reservations, FinishClaim, Room
<1>22. ASSUME CallerCancels PROVE Reservations'
  BY <1>22 DEF CallerCancels, Reserving, Reservations, FinishClaim, Room
<1>23. CASE UNCHANGED vars
  BY <1>23 DEF vars, Reservations, Reserving
<1> QED BY <1>1, <1>2, <1>3, <1>4, <1>5, <1>6, <1>7, <1>8, <1>9, <1>10, <1>11, <1>12, <1>13, <1>14, <1>15, <1>16, <1>17, <1>18, <1>19, <1>20, <1>21, <1>22, <1>23 DEF Next, Loop, Work

\* The jobs claimed, those still to be counted included, stay below the limit.
THEOREM LimitHolds == Spec => []LimitKept
<1>1. Init => Reservations
  <2> SUFFICES ASSUME Init PROVE Reservations
    OBVIOUS
  <2>1. Reserving = {}
    BY DEF Init, Reserving
  <2> QED BY <2>1, FS_EmptySet, PoolAssumption DEF Init, Reservations
<1>2. Spec => [](Typed /\ Reservations)
  BY <1>1, TypedInit, TypedStep, ReservationsStep, PTL DEF Spec
<1>3. Typed /\ Reservations => LimitKept
  <2> SUFFICES ASSUME Typed, Reservations, opts.limit > 0
               PROVE  stats.claimed + Cardinality(Uncounted) <= opts.limit
    BY DEF LimitKept
  <2>1. Uncounted \subseteq Reserving
    BY DEF Uncounted, Reserving, At
  <2>2. Cardinality(Uncounted) <= Cardinality(Reserving) /\ Cardinality(Uncounted) \in Nat
    BY <2>1, ReservingFinite, FS_Subset, FS_CardinalityType
  <2> QED BY <2>2, ReservingFinite DEF Reservations, Typed, TypeOK
<1> QED BY <1>2, <1>3, PTL

\* Why slots may have ended: their claim found nothing, the limit is used up or
\* reserved, or an error is on its way to the context.
Ends ==
    /\ ~(opts.limit = 0 /\ ~opts.once) => \A w \in foundEmpty :
         /\ slot[w].pc \in {"claimed", "sending", "failing", "cancelling", "ended"}
         /\ slot[w].pc = "claimed" => slot[w].job = NoJob
    /\ \A w \in Slots : slot[w].pc = "sending" \/ (slot[w].pc = "claimed" /\ slot[w].job = NoJob)
                         => w \in foundEmpty
    /\ ~canceled /\ (\E w \in Slots : At(w, "ended")) =>
         \/ opts.limit > 0 /\ stats.claimed + reserved >= opts.limit
         \/ (opts.once \/ opts.limit > 0) /\ foundEmpty # {}
         \/ \E w \in Slots : slot[w].pc \in {"failing", "cancelling"}

LEMMA EndsStep == Typed /\ Reservations /\ Ends /\ [Next]_vars => Ends'
<1> SUFFICES ASSUME Typed /\ Reservations /\ Ends, [Next]_vars PROVE Ends'
  OBVIOUS
<1> USE PoolAssumption DEF Typed, TypeOK, Hands, Went, Failed, Put, Took, Moved, At, shared, history, Ends, Reservations, FinishClaim, Room, Stays
<1>1. ASSUME NEW w \in Slots, Leave(w) PROVE Ends'
  <2>1. Went(w, "ended")
    BY <1>1, GoMoves DEF Leave, Pcs, Typed, At
  <2> QED BY <1>1, <2>1 DEF Leave
<1>2. ASSUME NEW w \in Slots, ReserveClaim(w) PROVE Ends'
  <2>1. Went(w, "claiming")
    BY <1>2, GoMoves DEF ReserveClaim, Pcs, Typed, At
  <2> QED BY <1>2, <2>1 DEF ReserveClaim
<1>3. ASSUME NEW w \in Slots, Busy(w) PROVE Ends'
  <2>1. Went(w, slot[w].pc)
    BY <1>3, BusyMoves DEF Typed
  <2> QED BY <1>3, <2>1 DEF Busy
<1>4. ASSUME NEW w \in Slots, ClaimNothing(w) PROVE Ends'
  <2>1. Went(w, "claimed")
    BY <1>4, GoMoves DEF ClaimNothing, Pcs, Typed, At
  <2> QED BY <1>4, <2>1 DEF ClaimNothing
<1>5. ASSUME NEW w \in Slots, ClaimFails(w) PROVE Ends'
  <2>1. Failed(w, "unclaimed")
    BY <1>5, FailsMoves DEF ClaimFails, Pcs, Typed, At
  <2> QED BY <1>5, <2>1 DEF ClaimFails
<1>6. ASSUME NEW w \in Slots, CountClaim(w) PROVE Ends'
  <2>1. Went(w, IF slot[w].job = NoJob THEN "sending" ELSE "working")
    BY <1>6, GoMoves DEF CountClaim, Pcs, Typed, At
  <2> QED BY <1>6, <2>1 DEF CountClaim
<1>7. ASSUME NEW w \in Slots, ReturnClaim(w) PROVE Ends'
  <2>1. Went(w, "failing")
    BY <1>7, GoMoves DEF ReturnClaim, Pcs, Typed, At
  <2> QED BY <1>7, <2>1 DEF ReturnClaim
<1>8. ASSUME NEW w \in Slots, SendPending(w) PROVE Ends'
  <2>1. Went(w, IF Stays THEN "sleeping" ELSE "ended")
    BY <1>8, GoMoves DEF SendPending, Pcs, Typed, At
  <2> QED BY <1>8, <2>1 DEF SendPending
<1>9. ASSUME NEW w \in Slots, SendFails(w) PROVE Ends'
  <2>1. Failed(w, "failing")
    BY <1>9, FailsMoves DEF SendFails, Pcs, Typed, At
  <2> QED BY <1>9, <2>1 DEF SendFails
<1>10. ASSUME NEW w \in Slots, Wake(w) PROVE Ends'
  <2>1. Went(w, "starting") \/ (canceled /\ Went(w, "ended"))
    BY <1>10, GoMoves DEF Wake, Pcs, Typed, At
  <2> QED BY <1>10, <2>1 DEF Wake
<1>11. ASSUME NEW w \in Slots, SetError(w) PROVE Ends'
  <2>1. Went(w, "cancelling")
    BY <1>11, GoMoves DEF SetError, Pcs, Typed, At
  <2> QED BY <1>11, <2>1 DEF SetError
<1>12. ASSUME NEW w \in Slots, Cancel(w) PROVE Ends'
  <2>1. Went(w, "ended")
    BY <1>12, GoMoves DEF Cancel, Pcs, Typed, At
  <2> QED BY <1>12, <2>1 DEF Cancel
<1>13. ASSUME NEW w \in Slots, Finalize(w) PROVE Ends'
  <2>1. Put(w, "following")
    BY <1>13, PutMoves DEF Finalize, Pcs, Typed, At
  <2> QED BY <1>13, <2>1 DEF Finalize
<1>14. ASSUME NEW w \in Slots, SendAfterFinalize(w) PROVE Ends'
  <2>1. Went(w, "starting")
    BY <1>14, GoMoves DEF SendAfterFinalize, Pcs, Typed, At
  <2> QED BY <1>14, <2>1 DEF SendAfterFinalize
<1>15. ASSUME NEW w \in Slots, Reject(w) PROVE Ends'
  <2>1. Put(w, "starting")
    BY <1>15, PutMoves DEF Reject, Pcs, Typed, At
  <2> QED BY <1>15, <2>1 DEF Reject
<1>16. ASSUME NEW w \in Slots, Drop(w) PROVE Ends'
  <2>1. Put(w, "starting")
    BY <1>16, PutMoves DEF Drop, Pcs, Typed, At
  <2> QED BY <1>16, <2>1 DEF Drop
<1>17. ASSUME NEW w \in Slots, Abandon(w) PROVE Ends'
  <2>1. Put(w, "starting")
    BY <1>17, PutMoves DEF Abandon, Pcs, Typed, At
  <2> QED BY <1>17, <2>1 DEF Abandon
<1>18. ASSUME NEW w \in Slots, PersistFails(w) PROVE Ends'
  <2>1. Put(w, "starting")
    BY <1>18, PutMoves DEF PersistFails, Pcs, Typed, At
  <2> QED BY <1>18, <2>1 DEF PersistFails
<1>19. ASSUME NEW w \in Slots, NEW j \in Jobs, Claim(w, j) PROVE Ends'
  <2>1. Took(w, j)
    BY <1>19, ClaimMoves DEF Typed
  <2> QED BY <1>19, <2>1 DEF Claim
<1>20. ASSUME NEW j \in Jobs, Arrive(j) PROVE Ends'
  BY <1>20 DEF Arrive
<1>21. ASSUME NEW j \in Jobs, Vanish(j) PROVE Ends'
  BY <1>21 DEF Vanish
<1>22. ASSUME CallerCancels PROVE Ends'
  BY <1>22 DEF CallerCancels
<1>23. CASE UNCHANGED vars
  BY <1>23 DEF vars
<1> QED BY <1>1, <1>2, <1>3, <1>4, <1>5, <1>6, <1>7, <1>8, <1>9, <1>10, <1>11, <1>12, <1>13, <1>14, <1>15, <1>16, <1>17, <1>18, <1>19, <1>20, <1>21, <1>22, <1>23 DEF Next, Loop, Work

\* A run that is not cancelled ends with its limit used up, or after a claim
\* that found nothing.
THEOREM EndsForCause == Spec => []EndsForAReason
<1>1. Init => Ends /\ Reservations
  <2> SUFFICES ASSUME Init PROVE Ends /\ Reservations
    OBVIOUS
  <2>1. Reserving = {}
    BY DEF Init, Reserving
  <2>2. Reservations
    BY <2>1, FS_EmptySet, PoolAssumption DEF Init, Reservations
  <2>3. Ends
    BY DEF Init, Ends, At
  <2> QED BY <2>2, <2>3
<1>2. Spec => [](Typed /\ Reservations /\ Ends)
  BY <1>1, TypedInit, TypedStep, ReservationsStep, EndsStep, PTL DEF Spec
<1>3. Typed /\ Reservations /\ Ends => EndsForAReason
  <2> SUFFICES ASSUME Typed, Reservations, Ends, Ended, ~canceled
               PROVE  \/ opts.limit > 0 /\ stats.claimed = opts.limit
                      \/ (opts.once \/ opts.limit > 0) /\ foundEmpty # {}
    BY DEF EndsForAReason
  <2>1. Reserving = {}
    BY DEF Ended, Reserving, At
  <2>2. opts.limit > 0 => reserved = 0
    BY <2>1, FS_EmptySet DEF Reservations
  <2>3. \A w \in Slots : slot[w].pc \notin {"failing", "cancelling"}
    BY DEF Ended, At
  <2>4. \E w \in Slots : At(w, "ended")
    BY PoolAssumption DEF Ended
  <2>5. \/ opts.limit > 0 /\ stats.claimed + reserved >= opts.limit
        \/ (opts.once \/ opts.limit > 0) /\ foundEmpty # {}
    BY <2>3, <2>4 DEF Ends
  <2>6. stats.claimed \in Nat /\ reserved \in Nat /\ opts.limit \in Nat
    BY DEF Typed, TypeOK
  <2>7. opts.limit > 0 => stats.claimed + reserved <= opts.limit
    BY DEF Reservations
  <2> QED BY <2>2, <2>5, <2>6, <2>7
<1> QED BY <1>2, <1>3, PTL
=============================================================================
