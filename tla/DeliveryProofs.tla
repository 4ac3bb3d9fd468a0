--------------------------- MODULE DeliveryProofs ---------------------------
(***************************************************************************)
(* Delivery keeps its types, its safety properties and the promise of      *)
(* Outbox, for any items, contents, slots, batch sizes and bounds.         *)
(***************************************************************************)
EXTENDS Delivery, TLAPS

\* A slot that works on a batch has come to a notification of it; one that does
\* not has none in hand.
Working == {"reading", "posting", "posted", "refused", "retreating"}

Hands == \A w \in Slots :
    /\ sender[w].pc \in Working => sender[w].at \in sender[w].batch
    /\ sender[w].pc \notin Working => sender[w].batch = {}
    /\ sender[w].pc = "posted" => posts[sender[w].at] > 0

Rows == \A n \in Notes :
    /\ row[n].status = "absent" <=> n > created
    /\ row[n].status = "absent" => posts[n] = 0
    /\ row[n].withdrawn => row[n].status = "sent"
    /\ row[n].old => n \in aged

\* What a slot has in hand has a row, and was reopened only for its age.
InHand == \A n \in Notes, w \in Slots : n \in sender[w].batch =>
    /\ row[n].status # "absent"
    /\ row[n].status = "pending" => n \in aged

\* What reached the channel, for no cause to post it again, is in the hands of
\* the slot that posted it or of nobody.
Clean(n) == n \notin aged \cup unclear

PostedOnce == \A n \in Notes : Clean(n) =>
    /\ posts[n] # 2
    /\ posts[n] > 0 =>
         /\ row[n].status # "pending"
         /\ \A w \in Slots : n \in sender[w].batch => At(w, "posted") /\ sender[w].at = n

SafeIsSent == \A n \in safe : row[n].status = "sent" /\ \A w \in Slots : ~Posting(w, n)

\* The inductive invariant: nothing weaker keeps two slots off the same row,
\* which does not say who is sending it.
IInv == TypeOK /\ Hands /\ Rows /\ InHand /\ OneSender /\ PostedOnce /\ SafeIsSent

Moved(w, s) == sender' = [sender EXCEPT ![w] = s]

\* A slot that goes on with a set of notifications holds exactly those.
LEMMA WorkingOn ==
    ASSUME TypeOK, NEW w \in Slots, NEW N \in SUBSET Notes, WorkOn(w, N)
    PROVE  \E s \in Sender :
             /\ Moved(w, s)
             /\ s.batch = N
             /\ s.pc \in {"idle", "reading"}
             /\ s.pc = "reading" => s.at \in N
             /\ s.pc = "idle" => N = {}
<1>1. CASE N = {} /\ sender' = [sender EXCEPT ![w] = Idle]
  <2>1. Idle \in Sender /\ Idle.batch = N /\ Idle.pc = "idle"
    BY <1>1 DEF Idle, Sender, Pcs
  <2> QED BY <1>1, <2>1 DEF Moved
<1>2. ASSUME NEW n \in N,
             sender' = [sender EXCEPT ![w] = [pc |-> "reading", batch |-> N, at |-> n]]
      PROVE  \E s \in Sender :
               /\ Moved(w, s)
               /\ s.batch = N
               /\ s.pc \in {"idle", "reading"}
               /\ s.pc = "reading" => s.at \in N
               /\ s.pc = "idle" => N = {}
  <2> DEFINE s == [pc |-> "reading", batch |-> N, at |-> n]
  <2>1. s \in Sender /\ s.batch = N /\ s.pc = "reading" /\ s.at = n
    BY DEF Sender, Pcs
  <2>2. Moved(w, s)
    BY <1>2 DEF Moved
  <2> HIDE DEF s
  <2> QED BY <2>1, <2>2
<1> QED BY <1>1, <1>2 DEF WorkOn

\* A slot that only goes to its next statement keeps what it holds.
LEMMA GoingOn ==
    ASSUME TypeOK, NEW w \in Slots, NEW pc \in Pcs, Go(w, pc)
    PROVE  \E s \in Sender :
             /\ Moved(w, s)
             /\ s.pc = pc
             /\ s.batch = sender[w].batch
             /\ s.at = sender[w].at
<1>1. [sender[w] EXCEPT !.pc = pc] \in Sender
  BY DEF TypeOK, Sender
<1>2. Moved(w, [sender[w] EXCEPT !.pc = pc])
  BY DEF Go, Moved
<1> QED BY <1>1, <1>2 DEF TypeOK, Sender

\* The rows the updates leave are rows.
LEMMA RowsTyped ==
    ASSUME TypeOK, NEW N \in SUBSET Notes
    PROVE  /\ Reopened(N) \in [Notes -> NoteRow]
           /\ \A s \in {"sending", "sent", "failed"}, n \in Notes :
                [row[n] EXCEPT !.status = s, !.old = FALSE] \in NoteRow
           /\ \A n \in Notes :
                /\ [row[n] EXCEPT !.status = "sent", !.withdrawn = TRUE, !.old = FALSE] \in NoteRow
                /\ [row[n] EXCEPT !.old = TRUE] \in NoteRow
BY DEF TypeOK, NoteRow, Reopened
-----------------------------------------------------------------------------
(* The environment *)

Resting(s) == s.batch = {} /\ s.pc \notin Working

\* Closing a set of open notifications keeps the invariant, whoever does it: the
\* slots keep what they hold.
LEMMA WithdrawKeeps ==
    ASSUME DeliveryAssumption, IInv, NEW N \in SUBSET Notes, \A n \in N : Open(n), Withdraw(N),
           UNCHANGED <<latest, created, posts, aged, unclear>>,
           sender' \in [Slots -> Sender],
           \A v \in Slots : sender'[v] = sender[v] \/ (Resting(sender[v]) /\ Resting(sender'[v]))
    PROVE  IInv'
<1> USE DEF IInv
<1>1. row' \in [Notes -> NoteRow]
  BY RowsTyped DEF Withdraw, TypeOK
<1>2. \A n \in Notes : /\ n \in N => row'[n].status = "sent" /\ ~row'[n].old
                       /\ n \notin N => row'[n] = row[n]
  BY DEF Withdraw, TypeOK, NoteRow
<1>3. TypeOK'
  BY <1>1 DEF TypeOK, Withdraw
<1>4. Hands' /\ OneSender'
  BY DEF Hands, OneSender, Resting, Working
<1>5. Rows'
  BY <1>2 DEF Rows, Open, TypeOK, NoteRow
<1>6. InHand'
  BY <1>2 DEF InHand, Resting
<1>7. PostedOnce'
  BY <1>2 DEF PostedOnce, Clean, At, Resting
<1>8. SafeIsSent'
  <2>1. \A v \in Slots, n \in Notes : Posting(v, n)' => Posting(v, n)
    BY DEF Posting, Resting, Working
  <2> QED BY <1>2, <2>1 DEF SafeIsSent, Withdraw, TypeOK
<1> QED BY <1>3, <1>4, <1>5, <1>6, <1>7, <1>8

\* A new row is in nobody's hands.
LEMMA InsertKeeps ==
    ASSUME DeliveryAssumption, IInv, NEW i \in Items, NEW quiet \in BOOLEAN, Insert(i, quiet)
    PROVE  IInv'
<1> USE DEF IInv
<1> DEFINE k == created + 1
           r == [job |-> <<i, latest[i]>>, status |-> IF quiet THEN "sent" ELSE "pending",
                 withdrawn |-> quiet, old |-> FALSE]
<1>1. k \in Notes /\ created \in Nat
  BY DEF Insert, Notes, TypeOK, DeliveryAssumption
<1>2. r \in NoteRow
  BY DEF NoteRow, Jobs, TypeOK
<1>3. row' = [row EXCEPT ![k] = r]
  BY DEF Insert
<1>4. /\ row'[k] = r
      /\ \A n \in Notes : n # k => row'[n] = row[n]
  BY <1>1, <1>3 DEF TypeOK
<1>5. row[k].status = "absent" /\ posts[k] = 0 /\ \A w \in Slots : k \notin sender[w].batch
  BY <1>1 DEF Rows, InHand
<1>6. r.status \in {"sent", "pending"} /\ r.withdrawn = quiet /\ r.old = FALSE
      /\ (quiet => r.status = "sent")
  OBVIOUS
<1> HIDE DEF r
<1>7. TypeOK'
  BY <1>1, <1>2, <1>3 DEF TypeOK, Insert, Notes
<1>8. Hands' /\ OneSender'
  BY DEF Hands, OneSender, Insert
<1>9. Rows'
  <2> SUFFICES ASSUME NEW n \in Notes
               PROVE  /\ row'[n].status = "absent" <=> n > created'
                      /\ row'[n].status = "absent" => posts'[n] = 0
                      /\ row'[n].withdrawn => row'[n].status = "sent"
                      /\ row'[n].old => n \in aged'
    BY DEF Rows
  <2>1. created' = k /\ posts' = posts /\ aged' = aged /\ n \in Int
    BY DEF Insert, Notes
  <2>2. CASE n = k
    BY <1>1, <1>4, <1>6, <2>1, <2>2
  <2>3. CASE n # k
    <3>1. row'[n] = row[n] /\ (n > k <=> n > created)
      BY <1>1, <1>4, <2>1, <2>3
    <3> QED BY <2>1, <3>1 DEF Rows
  <2> QED BY <2>2, <2>3
<1>10. InHand'
  BY <1>4, <1>5 DEF InHand, Insert
<1>11. PostedOnce'
  BY <1>4, <1>5 DEF PostedOnce, Clean, At, Insert
<1>12. SafeIsSent'
  <2>1. \A w \in Slots : ~Posting(w, k)
    BY <1>5 DEF Hands, Posting, Working
  <2>2. \A w \in Slots, n \in Notes : Posting(w, n)' <=> Posting(w, n)
    BY DEF Posting, Insert
  <2>3. SafeIsSent /\ safe \subseteq Notes
    BY DEF TypeOK
  <2>4. \A n \in safe : n # k
    BY <1>5, <2>3 DEF SafeIsSent
  <2>5. safe' = IF quiet THEN safe \cup {k} ELSE safe
    BY DEF Insert
  <2> QED BY <1>1, <1>4, <1>6, <2>1, <2>2, <2>3, <2>4, <2>5 DEF SafeIsSent
<1> QED BY <1>7, <1>8, <1>9, <1>10, <1>11, <1>12

\* Time and new content concern no slot.
LEMMA TimeKeeps ==
    ASSUME DeliveryAssumption, IInv,
           \/ \E i \in Items, h \in Hashes : NewContent(i, h)
           \/ \E n \in Notes : TenMinutesPass(n)
    PROVE  IInv'
<1> USE DEF IInv
<1>1. ASSUME NEW i \in Items, NEW h \in Hashes, NewContent(i, h) PROVE IInv'
  BY <1>1 DEF NewContent, TypeOK, Hands, Rows, InHand, OneSender, PostedOnce, SafeIsSent, Clean,
              At, Posting
<1>2. ASSUME NEW n \in Notes, TenMinutesPass(n) PROVE IInv'
  <2>1. /\ row' \in [Notes -> NoteRow]
        /\ \A m \in Notes : /\ m # n => row'[m] = row[m]
                            /\ row'[m].status = row[m].status
                            /\ row'[m].withdrawn = row[m].withdrawn
    <3>1. row' = [row EXCEPT ![n] = [row[n] EXCEPT !.old = TRUE]]
      BY <1>2 DEF TenMinutesPass
    <3>2. [row[n] EXCEPT !.old = TRUE] \in NoteRow
      BY RowsTyped
    <3>3. row \in [Notes -> NoteRow]
      BY DEF TypeOK
    <3>4. row' \in [Notes -> NoteRow] /\ \A m \in Notes : m # n => row'[m] = row[m]
      BY <3>1, <3>2, <3>3
    <3>5. row'[n].status = row[n].status /\ row'[n].withdrawn = row[n].withdrawn
      BY <3>1, <3>3 DEF NoteRow
    <3> QED BY <3>4, <3>5
  <2>2. aged' = aged \cup {n} /\ UNCHANGED <<latest, created, sender, posts, unclear, safe>>
    BY <1>2 DEF TenMinutesPass
  <2> QED BY <2>1, <2>2 DEF TypeOK, Hands, Rows, InHand, OneSender, PostedOnce, SafeIsSent, Clean,
              At, Posting
<1> QED BY <1>1, <1>2
-----------------------------------------------------------------------------
(* The senders *)

\* A slot that goes on, with the rows, what it holds or has posted unchanged,
\* keeps the invariant: it has not come to a row that is closed.
LEMMA StepKeeps ==
    ASSUME IInv, NEW w \in Slots, NEW s \in Sender, Moved(w, s),
           s.batch \subseteq sender[w].batch,
           s.pc \in Working => s.at \in s.batch,
           s.pc \notin Working => s.batch = {},
           s.pc = "posted" => posts[s.at] > 0,
           At(w, "posted") => sender[w].at \notin s.batch \/ s = sender[w],
           s.pc = "posting" => row[s.at].status = "sending",
           UNCHANGED <<latest, created, row, posts, aged, unclear, safe>>
    PROVE  IInv'
<1> USE DEF IInv
<1>1. /\ sender' \in [Slots -> Sender]
      /\ sender'[w] = s
      /\ \A v \in Slots : v # w => sender'[v] = sender[v]
      /\ \A v \in Slots : sender'[v].batch \subseteq sender[v].batch
  BY DEF Moved, TypeOK
<1>2. TypeOK' /\ Rows'
  BY <1>1 DEF TypeOK, Rows
<1>3. Hands'
  BY <1>1 DEF Hands
<1>4. InHand' /\ OneSender'
  BY <1>1 DEF InHand, OneSender
<1>5. PostedOnce'
  BY <1>1 DEF PostedOnce, Clean, At
<1>6. SafeIsSent'
  BY <1>1 DEF SafeIsSent, Posting
<1> QED BY <1>2, <1>3, <1>4, <1>5, <1>6

\* A slot that settles the row it has come to, or leaves it, keeps the invariant.
LEMMA SettleKeeps ==
    ASSUME DeliveryAssumption, IInv, NEW w \in Slots, NEW n \in Notes, sender[w].at = n,
           NEW pc \in {"posted", "refused"},
           NEW st \in {"sent", "failed"}, At(w, pc), Settle(w, st)
    PROVE  IInv'
<1> USE DEF IInv
<1>1. n \in Notes /\ n \in sender[w].batch /\ sender[w].batch \subseteq Notes
  BY DEF Hands, Working, At, TypeOK, Sender
<1>2. PICK s \in Sender :
        /\ Moved(w, s)
        /\ s.batch = sender[w].batch \ {n}
        /\ s.pc \in {"idle", "reading"}
        /\ s.pc = "reading" => s.at \in s.batch
        /\ s.pc = "idle" => s.batch = {}
  BY <1>1, WorkingOn DEF Settle, Advance
<1>3. /\ sender' \in [Slots -> Sender]
      /\ sender'[w] = s
      /\ \A v \in Slots : v # w => sender'[v] = sender[v]
      /\ \A v \in Slots : sender'[v].batch \subseteq sender[v].batch
  <2>1. sender' = [sender EXCEPT ![w] = s] /\ sender \in [Slots -> Sender]
    BY <1>2 DEF Moved, TypeOK
  <2>2. s.batch \subseteq sender[w].batch
    BY <1>2
  <2> QED BY <2>1, <2>2
<1>4. /\ row' \in [Notes -> NoteRow]
      /\ \A m \in Notes : row'[m] = row[m] \/ (m = n /\ row[m].status = "sending"
             /\ row'[m].status = st /\ row'[m].withdrawn = row[m].withdrawn /\ ~row'[m].old)
  <2>1. row \in [Notes -> NoteRow]
    BY DEF TypeOK
  <2>2. CASE row[n].status = "sending"
    <3>1. row' = [row EXCEPT ![n] = [row[n] EXCEPT !.status = st, !.old = FALSE]]
      BY <2>2 DEF Settle
    <3>2. [row[n] EXCEPT !.status = st, !.old = FALSE] \in NoteRow
      BY <1>1, RowsTyped
    <3> QED BY <1>1, <2>1, <2>2, <3>1, <3>2 DEF NoteRow
  <2>3. CASE row[n].status # "sending"
    BY <2>1, <2>3 DEF Settle
  <2> QED BY <2>2, <2>3
<1>5. UNCHANGED <<latest, created, posts, aged, unclear, safe>>
  BY DEF Settle
<1>6. TypeOK' /\ OneSender'
  BY <1>3, <1>4, <1>5 DEF TypeOK, OneSender
<1>7. Rows'
  BY <1>4, <1>5 DEF Rows
<1>8. Hands'
  <2> SUFFICES ASSUME NEW v \in Slots
               PROVE  /\ sender'[v].pc \in Working => sender'[v].at \in sender'[v].batch
                      /\ sender'[v].pc \notin Working => sender'[v].batch = {}
                      /\ sender'[v].pc = "posted" => posts'[sender'[v].at] > 0
    BY DEF Hands
  <2>1. CASE v = w
    BY <1>2, <1>3, <2>1 DEF Working
  <2>2. CASE v # w
    BY <1>3, <1>5, <2>2 DEF Hands
  <2> QED BY <2>1, <2>2
<1>9. InHand'
  BY <1>3, <1>4, <1>5 DEF InHand
<1>10. PostedOnce'
  <2> SUFFICES ASSUME NEW m \in Notes, Clean(m)', posts'[m] > 0 \/ posts'[m] = 2
               PROVE  /\ posts'[m] # 2
                      /\ row'[m].status # "pending"
                      /\ \A v \in Slots : m \in sender'[v].batch => At(v, "posted")' /\ sender'[v].at = m
    BY DEF PostedOnce
  <2>1. Clean(m) /\ posts'[m] = posts[m] /\ posts[m] \in 0..2
    BY <1>5 DEF Clean, TypeOK
  <2>2. posts[m] # 2 /\ posts[m] > 0 /\ row[m].status # "pending"
    BY <2>1 DEF PostedOnce
  <2>3. \A v \in Slots : m \in sender[v].batch => At(v, "posted") /\ sender[v].at = m
    BY <2>1, <2>2 DEF PostedOnce
  <2>4. m \notin sender'[w].batch
    BY <1>2, <1>3, <2>3 
  <2>5. \A v \in Slots : m \in sender'[v].batch => At(v, "posted")' /\ sender'[v].at = m
    BY <1>3, <2>3, <2>4 DEF At
  <2> QED BY <1>4, <2>1, <2>2, <2>5
<1>11. SafeIsSent'
  <2>1. \A v \in Slots, m \in Notes : Posting(v, m)' => Posting(v, m)
    BY <1>2, <1>3 DEF Posting
  <2> QED BY <1>4, <1>5, <2>1 DEF SafeIsSent, TypeOK
<1> QED BY <1>6, <1>7, <1>8, <1>9, <1>10, <1>11

\* The reset of what has been sending for ten minutes keeps the invariant: all of
\* it has aged.
LEMMA ResetAbandonedKeeps ==
    ASSUME DeliveryAssumption, IInv, NEW w \in Slots, ResetAbandoned(w)
    PROVE  IInv'
<1> USE DEF IInv
<1> DEFINE N == {n \in Notes : Abandoned(n)}
<1>1. PICK s \in Sender :
        Moved(w, s) /\ s.pc = "claiming" /\ s.batch = sender[w].batch /\ s.at = sender[w].at
  BY GoingOn DEF ResetAbandoned, Pcs
<1>2. s.batch = {} /\ sender[w].batch = {}
  BY <1>1 DEF ResetAbandoned, At, Hands, Working
<1>3. /\ sender' \in [Slots -> Sender]
      /\ sender'[w] = s
      /\ \A v \in Slots : v # w => sender'[v] = sender[v]
      /\ \A v \in Slots : sender'[v].batch = sender[v].batch
  BY <1>1 DEF Moved, TypeOK
<1>4. row' \in [Notes -> NoteRow]
  BY RowsTyped DEF ResetAbandoned
<1>5. \A n \in Notes :
        \/ row'[n] = row[n]
        \/ /\ row[n].status = "sending" /\ n \in aged
           /\ row'[n].status = "pending" /\ row'[n].withdrawn = row[n].withdrawn /\ ~row'[n].old
  BY DEF ResetAbandoned, Reopened, Abandoned, TypeOK, NoteRow, Rows
<1>6. UNCHANGED <<latest, created, posts, aged, unclear, safe>>
  BY DEF ResetAbandoned
<1>7. TypeOK' /\ OneSender'
  BY <1>3, <1>4, <1>6 DEF TypeOK, OneSender
<1>8. Rows'
  BY <1>5, <1>6 DEF Rows
<1>9. Hands'
  BY <1>1, <1>2, <1>3, <1>6 DEF Hands, Working
<1>10. InHand'
  BY <1>3, <1>5, <1>6 DEF InHand
<1>11. PostedOnce'
  BY <1>2, <1>3, <1>5, <1>6 DEF PostedOnce, Clean, At
<1>12. SafeIsSent'
  BY <1>1, <1>3, <1>5, <1>6 DEF SafeIsSent, Posting, TypeOK
<1> QED BY <1>7, <1>8, <1>9, <1>10, <1>11, <1>12

\* A slot that gives up reopens rows that it alone holds, or that have aged.
LEMMA ResetUnsentKeeps ==
    ASSUME DeliveryAssumption, IInv, NEW w \in Slots, ResetUnsent(w)
    PROVE  IInv'
<1> USE DEF IInv
<1>1. /\ sender' \in [Slots -> Sender]
      /\ sender'[w] = Idle
      /\ \A v \in Slots : v # w => sender'[v] = sender[v]
  BY DEF ResetUnsent, TypeOK, Idle, Sender, Pcs
<1>2. row' \in [Notes -> NoteRow]
  <2>1. Unsent(w) \subseteq Notes
    BY DEF Unsent, TypeOK, Sender
  <2> QED BY <2>1, RowsTyped DEF ResetUnsent
<1>3. \A n \in Notes :
        \/ row'[n] = row[n]
        \/ /\ row[n].status = "sending" /\ n \in sender[w].batch
           /\ row'[n].status = "pending" /\ row'[n].withdrawn = row[n].withdrawn /\ ~row'[n].old
  BY DEF ResetUnsent, Reopened, Unsent, TypeOK, NoteRow
<1>4. UNCHANGED <<latest, created, posts, aged, unclear, safe>>
  BY DEF ResetUnsent
<1>5. TypeOK' /\ OneSender'
  BY <1>1, <1>2, <1>4 DEF TypeOK, OneSender, Idle
<1>6. Rows'
  BY <1>3, <1>4 DEF Rows
<1>7. Hands'
  BY <1>1, <1>4 DEF Hands, Working, Idle
<1>8. InHand'
  BY <1>1, <1>3, <1>4 DEF InHand, OneSender, Idle
<1>9. PostedOnce'
  <2>1. \A n \in Notes : Clean(n) /\ posts[n] > 0 => n \notin sender[w].batch
    BY DEF PostedOnce, ResetUnsent, At
  <2> QED BY <1>1, <1>3, <1>4, <2>1 DEF PostedOnce, Clean, At, Idle
<1>10. SafeIsSent'
  BY <1>1, <1>3, <1>4 DEF SafeIsSent, Posting, TypeOK, Idle
<1> QED BY <1>5, <1>6, <1>7, <1>8, <1>9, <1>10

\* A slot claims pending rows: whoever still holds one has let it age.
LEMMA ClaimRowsKeeps ==
    ASSUME DeliveryAssumption, IInv, NEW w \in Slots, ClaimRows(w)
    PROVE  IInv'
<1> USE DEF IInv
<1> DEFINE N == FirstOf(Waiting)
<1>1. N \subseteq Notes /\ \A n \in N : row[n].status = "pending"
  BY DEF FirstOf, Waiting
<1>2. row' = [n \in Notes |-> IF n \in N THEN [row[n] EXCEPT !.status = "sending", !.old = FALSE]
                                         ELSE row[n]]
  BY DEF ClaimRows
<1>3. WorkOn(w, N)
  BY DEF ClaimRows
<1> HIDE DEF N
<1>4. PICK s \in Sender :
        /\ Moved(w, s)
        /\ s.batch = N
        /\ s.pc \in {"idle", "reading"}
        /\ s.pc = "reading" => s.at \in N
        /\ s.pc = "idle" => N = {}
  BY <1>1, <1>3, WorkingOn
<1>5. /\ sender' \in [Slots -> Sender]
      /\ sender'[w] = s
      /\ \A v \in Slots : v # w => sender'[v] = sender[v]
  BY <1>4 DEF Moved, TypeOK
<1>6. /\ row' \in [Notes -> NoteRow]
      /\ \A n \in Notes :
           /\ n \notin N => row'[n] = row[n]
           /\ n \in N => /\ row'[n].status = "sending" /\ ~row'[n].old
                         /\ row'[n].withdrawn = row[n].withdrawn
  BY <1>1, <1>2, RowsTyped DEF TypeOK, NoteRow
<1>7. UNCHANGED <<latest, created, posts, aged, unclear, safe>>
  BY DEF ClaimRows
<1>8. TypeOK'
  BY <1>5, <1>6, <1>7 DEF TypeOK
<1>9. Hands'
  BY <1>4, <1>5, <1>7 DEF Hands, Working
<1>10. Rows'
  BY <1>1, <1>6, <1>7 DEF Rows
<1>11. InHand'
  BY <1>4, <1>5, <1>6, <1>7 DEF InHand
<1>12. OneSender'
  BY <1>1, <1>4, <1>5, <1>7 DEF OneSender, InHand
<1>13. PostedOnce'
  <2>1. \A n \in Notes : Clean(n) /\ posts[n] > 0 => n \notin N
    BY <1>1 DEF PostedOnce
  <2> QED BY <1>4, <1>5, <1>6, <1>7, <2>1 DEF PostedOnce, Clean, At
<1>14. SafeIsSent'
  BY <1>1, <1>4, <1>5, <1>6, <1>7 DEF SafeIsSent, Posting, TypeOK
<1> QED BY <1>8, <1>9, <1>10, <1>11, <1>12, <1>13, <1>14

\* A message that reaches the channel was posted by the only slot that holds it,
\* unless it has aged; if it may be posted again, Discord's answer failed.
LEMMA PostKeeps ==
    ASSUME DeliveryAssumption, IInv, NEW w \in Slots, NEW pc \in {"posted", "retreating"},
           At(w, "posting"), Reaches(sender[w].at), Go(w, pc),
           unclear' = unclear \cup (IF pc = "posted" THEN {} ELSE {sender[w].at}),
           UNCHANGED <<latest, created, row, aged, safe>>
    PROVE  IInv'
<1> USE DEF IInv
<1> DEFINE n == sender[w].at
<1>1. n \in Notes /\ n \in sender[w].batch
  BY DEF Hands, Working, At, TypeOK, Sender
<1>2. /\ posts' \in [Notes -> 0..2]
      /\ posts'[n] > 0
      /\ posts[n] = 0 => posts'[n] = 1
      /\ \A m \in Notes : m # n => posts'[m] = posts[m]
      /\ \A m \in Notes : posts[m] > 0 => posts'[m] > 0
  BY <1>1 DEF Reaches, TypeOK
<1>3. unclear' \subseteq Notes /\ unclear \subseteq unclear' /\ (pc = "retreating" => n \in unclear')
  BY <1>1 DEF TypeOK
<1> HIDE DEF n
<1>4. PICK s \in Sender :
        Moved(w, s) /\ s.pc = pc /\ s.batch = sender[w].batch /\ s.at = n
  BY GoingOn DEF Pcs, n
<1>5. /\ sender' \in [Slots -> Sender]
      /\ sender'[w] = s
      /\ \A v \in Slots : v # w => sender'[v] = sender[v]
      /\ \A v \in Slots : sender'[v].batch = sender[v].batch /\ sender'[v].at = sender[v].at
  BY <1>4 DEF Moved, TypeOK, n
<1>6. TypeOK' /\ OneSender'
  BY <1>2, <1>3, <1>5 DEF TypeOK, OneSender
<1>7. Rows'
  BY <1>1, <1>2 DEF Rows, InHand
<1>8. Hands'
  <2> SUFFICES ASSUME NEW v \in Slots
               PROVE  /\ sender'[v].pc \in Working => sender'[v].at \in sender'[v].batch
                      /\ sender'[v].pc \notin Working => sender'[v].batch = {}
                      /\ sender'[v].pc = "posted" => posts'[sender'[v].at] > 0
    BY DEF Hands
  <2>1. CASE v = w
    BY <1>1, <1>2, <1>4, <1>5, <2>1 DEF Working
  <2>2. CASE v # w
    <3>1. sender[v].pc = "posted" => sender[v].at \in Notes
      BY DEF Hands, Working, TypeOK, Sender
    <3> QED BY <1>2, <1>5, <2>2, <3>1 DEF Hands
  <2> QED BY <2>1, <2>2
<1>9. InHand'
  BY <1>5 DEF InHand
<1>10. PostedOnce'
  <2> SUFFICES ASSUME NEW m \in Notes, Clean(m)', posts'[m] > 0
               PROVE  /\ posts'[m] # 2
                      /\ row[m].status # "pending"
                      /\ \A v \in Slots : m \in sender[v].batch => At(v, "posted")' /\ sender'[v].at = m
    BY <1>2, <1>5 DEF PostedOnce
  <2>1. Clean(m)
    BY <1>3 DEF Clean
  <2>2. CASE m = n
    <3>1. pc = "posted" /\ n \notin aged
      BY <1>3, <2>2 DEF Clean
    <3>2. posts[n] = 0
      BY <1>1, <2>1, <2>2 DEF PostedOnce, At, TypeOK
    <3>3. \A v \in Slots : n \in sender[v].batch => v = w
      BY <1>1, <3>1 DEF OneSender
    <3>4. row[n].status # "pending"
      BY <1>1, <3>1 DEF InHand
    <3> QED BY <1>2, <1>4, <1>5, <2>2, <3>1, <3>2, <3>3, <3>4 DEF At
  <2>3. CASE m # n
    <3>1. posts[m] > 0 /\ posts'[m] = posts[m]
      BY <1>2, <2>3
    <3>2. m \notin sender[w].batch
      BY <2>1, <2>3, <3>1 DEF PostedOnce, At
    <3> QED BY <1>5, <2>1, <3>1, <3>2 DEF PostedOnce, At
  <2> QED BY <2>2, <2>3
<1>11. SafeIsSent'
  BY <1>4, <1>5 DEF SafeIsSent, Posting
<1> QED BY <1>6, <1>7, <1>8, <1>9, <1>10, <1>11

\* A slot that reads, stops, or gets an answer that posts nothing.
LEMMA QuietKeeps ==
    ASSUME DeliveryAssumption, IInv, NEW w \in Slots,
           \/ ReadRow(w) \/ DiscordRefuses(w) \/ Stop(w)
           \/ DiscordFails(w) /\ UNCHANGED <<posts, unclear>>
    PROVE  IInv'
<1> USE DEF IInv
<1>1. CASE ReadRow(w) /\ StillSending(sender[w].at)
  <2>1. PICK s \in Sender :
          Moved(w, s) /\ s.pc = "posting" /\ s.batch = sender[w].batch /\ s.at = sender[w].at
    BY <1>1, GoingOn DEF ReadRow, Pcs
  <2> QED BY <1>1, <2>1, StepKeeps DEF ReadRow, At, Hands, Working, StillSending
<1>2. CASE ReadRow(w) /\ ~StillSending(sender[w].at)
  <2> DEFINE N == sender[w].batch \ {sender[w].at}
  <2>1. WorkOn(w, N) /\ N \subseteq Notes /\ N \subseteq sender[w].batch
    BY <1>2 DEF ReadRow, Advance, TypeOK, Sender
  <2>2. UNCHANGED <<latest, created, row, posts, aged, unclear, safe>> /\ ~At(w, "posted")
    BY <1>2 DEF ReadRow, At
  <2> HIDE DEF N
  <2>3. PICK s \in Sender :
          /\ Moved(w, s)
          /\ s.batch = N
          /\ s.pc \in {"idle", "reading"}
          /\ s.pc = "reading" => s.at \in N
          /\ s.pc = "idle" => N = {}
    BY <2>1, WorkingOn
  <2> QED BY <2>1, <2>2, <2>3, StepKeeps DEF Working
<1>3. CASE DiscordRefuses(w)
  <2>1. PICK s \in Sender :
          Moved(w, s) /\ s.pc = "refused" /\ s.batch = sender[w].batch /\ s.at = sender[w].at
    BY <1>3, GoingOn DEF DiscordRefuses, Pcs
  <2> QED BY <1>3, <2>1, StepKeeps DEF DiscordRefuses, At, Hands, Working
<1>4. CASE DiscordFails(w) /\ UNCHANGED <<posts, unclear>>
  <2>1. PICK s \in Sender :
          Moved(w, s) /\ s.pc = "retreating" /\ s.batch = sender[w].batch /\ s.at = sender[w].at
    BY <1>4, GoingOn DEF DiscordFails, Pcs
  <2> QED BY <1>4, <2>1, StepKeeps DEF DiscordFails, At, Hands, Working
<1>5. CASE Stop(w)
  <2>1. Idle \in Sender /\ Moved(w, Idle) /\ Idle.batch = {} /\ Idle.pc = "idle"
    BY <1>5 DEF Idle, Sender, Pcs, Stop, Moved
  <2>2. UNCHANGED <<latest, created, row, posts, aged, unclear, safe>>
    BY <1>5 DEF Stop
  <2> QED BY <2>1, <2>2, StepKeeps DEF Working
<1> QED BY <1>1, <1>2, <1>3, <1>4, <1>5
-----------------------------------------------------------------------------
(* The theorems *)

\* Every step keeps the invariant.
LEMMA StepKeepsIInv == ASSUME DeliveryAssumption, IInv, [Next]_vars PROVE IInv'
<1>1. ASSUME NEW i \in Items, CloseItem(i) PROVE IInv'
  <2> DEFINE N == {n \in Notes : Open(n) /\ row[n].job[1] = i}
  <2>1. Withdraw(N) /\ UNCHANGED <<latest, created, sender, posts, aged, unclear>>
    BY <1>1 DEF CloseItem
  <2>2. N \subseteq Notes /\ \A n \in N : Open(n)
    OBVIOUS
  <2> HIDE DEF N
  <2>3. sender' \in [Slots -> Sender]
    BY <2>1 DEF IInv, TypeOK
  <2> QED BY <2>1, <2>2, <2>3, WithdrawKeeps
<1>2. ASSUME NEW i \in Items, NEW quiet \in BOOLEAN, Insert(i, quiet) PROVE IInv'
  BY <1>2, InsertKeeps
<1>3. CASE \/ \E i \in Items, h \in Hashes : NewContent(i, h)
           \/ \E n \in Notes : TenMinutesPass(n)
  BY <1>3, TimeKeeps
<1>4. ASSUME NEW w \in Slots, SuppressSuperseded(w) PROVE IInv'
  <2> DEFINE N == {n \in Notes : Open(n) /\ ~Current(n)}
  <2>1. /\ Withdraw(N) /\ UNCHANGED <<latest, created, posts, aged, unclear>>
        /\ At(w, "idle") /\ Go(w, "resetting")
    BY <1>4 DEF SuppressSuperseded
  <2>2. N \subseteq Notes /\ \A n \in N : Open(n)
    OBVIOUS
  <2> HIDE DEF N
  <2>3. PICK s \in Sender :
          Moved(w, s) /\ s.pc = "resetting" /\ s.batch = sender[w].batch /\ s.at = sender[w].at
    BY <2>1, GoingOn DEF IInv, Pcs
  <2>4. Resting(sender[w]) /\ Resting(s)
    BY <2>1, <2>3 DEF IInv, Hands, At, Resting, Working
  <2>5. /\ sender' \in [Slots -> Sender]
        /\ \A v \in Slots : sender'[v] = sender[v] \/ (Resting(sender[v]) /\ Resting(sender'[v]))
    BY <2>3, <2>4 DEF Moved, IInv, TypeOK
  <2> QED BY <2>1, <2>2, <2>5, WithdrawKeeps
<1>5. ASSUME NEW w \in Slots, ResetAbandoned(w) \/ ClaimRows(w) \/ ResetUnsent(w) PROVE IInv'
  BY <1>5, ResetAbandonedKeeps, ClaimRowsKeeps, ResetUnsentKeeps
<1>6. ASSUME NEW w \in Slots, ReadRow(w) \/ DiscordRefuses(w) \/ Stop(w) PROVE IInv'
  BY <1>6, QuietKeeps
<1>7. ASSUME NEW w \in Slots, DiscordFails(w) PROVE IInv'
  <2>1. CASE UNCHANGED <<posts, unclear>>
    BY <1>7, <2>1, QuietKeeps
  <2>2. CASE Reaches(sender[w].at) /\ unclear' = unclear \cup {sender[w].at}
    <3>1. unclear' = unclear \cup (IF "retreating" = "posted" THEN {} ELSE {sender[w].at})
      BY <2>2
    <3>2. /\ At(w, "posting") /\ Go(w, "retreating")
          /\ UNCHANGED <<latest, created, row, aged, safe>>
      BY <1>7 DEF DiscordFails
    <3> QED BY <2>2, <3>1, <3>2, PostKeeps
  <2> QED BY <1>7, <2>1, <2>2 DEF DiscordFails
<1>8. ASSUME NEW w \in Slots, DiscordAccepts(w) PROVE IInv'
  <2>1. unclear' = unclear \cup (IF "posted" = "posted" THEN {} ELSE {sender[w].at})
    BY <1>8 DEF DiscordAccepts
  <2>2. /\ At(w, "posting") /\ Go(w, "posted") /\ Reaches(sender[w].at)
        /\ UNCHANGED <<latest, created, row, aged, safe>>
    BY <1>8 DEF DiscordAccepts
  <2> QED BY <2>1, <2>2, PostKeeps
<1>9. ASSUME NEW w \in Slots, MarkSent(w) \/ MarkFailed(w) PROVE IInv'
  <2>1. sender[w].pc \in {"posted", "refused"}
    BY <1>9 DEF MarkSent, MarkFailed, At
  <2>2. sender[w].at \in Notes
    BY <2>1 DEF IInv, Hands, Working, TypeOK, Sender
  <2>3. CASE MarkSent(w)
    BY <2>2, <2>3, SettleKeeps DEF MarkSent
  <2>4. CASE MarkFailed(w)
    BY <2>2, <2>4, SettleKeeps DEF MarkFailed
  <2> QED BY <1>9, <2>3, <2>4
<1>10. CASE UNCHANGED vars
  BY <1>10 DEF vars, IInv, TypeOK, Hands, Rows, InHand, OneSender, PostedOnce, SafeIsSent, Clean,
               At, Posting
<1> QED BY <1>1, <1>2, <1>3, <1>4, <1>5, <1>6, <1>7, <1>8, <1>9, <1>10 DEF Next, Send

\* The invariant holds at the start, too.
LEMMA IInvHolds == ASSUME DeliveryAssumption PROVE Spec => []IInv
<1>1. Init => IInv
  BY DEF Init, IInv, TypeOK, Hands, Rows, InHand, OneSender, PostedOnce, SafeIsSent, Clean, At,
         Posting, Idle, Sender, Pcs, AbsentRow, NoteRow, Notes, Working, DeliveryAssumption
<1>2. IInv /\ [Next]_vars => IInv'
  BY StepKeepsIInv
<1> QED BY <1>1, <1>2, PTL DEF Spec

\* Delivery keeps its types.
THEOREM DeliveryTypes == Spec => []TypeOK
<1>1. IInv => TypeOK
  BY DEF IInv
<1> QED BY <1>1, IInvHolds, DeliveryAssumption, PTL

\* No two slots hold the same notification before it has been sending for ten
\* minutes, although rows name no sender (notification_delivery.go:156-207).
THEOREM SendersAreAlone == Spec => []OneSender
<1>1. IInv => OneSender
  BY DEF IInv
<1> QED BY <1>1, IInvHolds, DeliveryAssumption, PTL

\* A message reaches the channel twice only for one of two causes: ten minutes
\* in status sending, or an answer that failed although Discord had posted it.
THEOREM DuplicatesHaveCauses == Spec => []DuplicateNeedsCause
<1>1. IInv => DuplicateNeedsCause
  BY DEF IInv, PostedOnce, Clean, DuplicateNeedsCause
<1> QED BY <1>1, IInvHolds, DeliveryAssumption, PTL

\* What was withdrawn before a slot came to it is never posted: the row is read
\* again before every post (notification_delivery.go:60).
THEOREM WithdrawnStayUnposted == Spec => []WithdrawnIsNotPosted
<1>1. IInv => WithdrawnIsNotPosted
  BY DEF IInv, SafeIsSent, Posting, At, WithdrawnIsNotPosted
<1> QED BY <1>1, IInvHolds, DeliveryAssumption, PTL
-----------------------------------------------------------------------------
(* The promise *)

State(n) == CASE row[n].status = "absent" -> "none"
              [] Open(n) -> "open"
              [] row[n].status = "failed" -> "refused"
              [] OTHER -> IF row[n].withdrawn THEN "withdrawn" ELSE "delivered"

Flight == {n \in Notes : \E w \in Slots : Posting(w, n)}
Posted == {n \in Notes : posts[n] > 0}

\* What Outbox sees of a row, one status at a time.
LEMMA StateOf ==
    ASSUME IInv, NEW n \in Notes
    PROVE  /\ row[n].status = "absent" => State(n) = "none"
           /\ Open(n) <=> State(n) = "open"
           /\ row[n].status = "failed" => State(n) = "refused"
           /\ row[n].status = "sent" =>
                State(n) = IF row[n].withdrawn THEN "withdrawn" ELSE "delivered"
<1>1. row[n].status \in {"absent", "pending", "sending", "sent", "failed"}
  BY DEF IInv, TypeOK, NoteRow
<1> QED BY <1>1 DEF State, Open

\* A step that leaves rows open or closed as they were, and has no slot post, is
\* none that Outbox sees.
LEMMA Unseen ==
    ASSUME IInv, IInv',
           \A n \in Notes : row'[n] = row[n] \/ (Open(n) /\ Open(n)'),
           Flight' = Flight, UNCHANGED posts
    PROVE  UNCHANGED Promise!vars
<1>1. \A n \in Notes : State(n)' = State(n)
  <2> SUFFICES ASSUME NEW n \in Notes PROVE State(n)' = State(n)
    OBVIOUS
  <2>1. CASE row'[n] = row[n]
    BY <2>1 DEF State, Open
  <2>2. CASE Open(n) /\ Open(n)'
    BY <2>2 DEF State, Open
  <2> QED BY <2>1, <2>2
<1> QED BY <1>1 DEF Promise!vars, State, Flight

\* What a slot's move means for the messages being posted.
LEMMA Flights ==
    ASSUME IInv, NEW w \in Slots, NEW s \in Sender, Moved(w, s)
    PROVE  /\ sender[w].pc # "posting" /\ s.pc # "posting" => Flight' = Flight
           /\ sender[w].pc # "posting" /\ s.pc = "posting" => Flight' = Flight \cup ({s.at} \cap Notes)
           /\ sender[w].pc = "posting" /\ s.pc # "posting" =>
                /\ sender[w].at \in Flight
                /\ Flight' \in {Flight, Flight \ {sender[w].at}}
<1>1. /\ sender'[w] = s
      /\ \A v \in Slots : v # w => sender'[v] = sender[v]
  BY DEF Moved, IInv, TypeOK
<1>2. sender[w].pc = "posting" => sender[w].at \in Notes
  BY DEF IInv, Hands, Working, TypeOK, Sender
<1>3. \A n \in Notes, v \in Slots : v # w => (Posting(v, n)' <=> Posting(v, n))
  BY <1>1 DEF Posting
<1>4. CASE sender[w].pc # "posting" /\ s.pc # "posting"
  BY <1>1, <1>3, <1>4 DEF Flight, Posting
<1>5. CASE sender[w].pc # "posting" /\ s.pc = "posting"
  BY <1>1, <1>3, <1>5 DEF Flight, Posting
<1>6. CASE sender[w].pc = "posting" /\ s.pc # "posting"
  BY <1>1, <1>2, <1>3, <1>6 DEF Flight, Posting
<1> QED BY <1>4, <1>5, <1>6

\* An answer of Discord, or the end of a slot that was waiting for one, is a
\* landing.
LEMMA Landing ==
    ASSUME IInv, NEW w \in Slots, NEW s \in Sender, Moved(w, s),
           At(w, "posting"), s.pc # "posting", UNCHANGED row,
           UNCHANGED posts \/ Reaches(sender[w].at)
    PROVE  \E m \in Notes : Promise!Land(m)
<1> DEFINE m == sender[w].at
<1>1. m \in Notes
  BY DEF IInv, Hands, Working, TypeOK, Sender, At
<1>2. m \in Flight /\ Flight' \in {Flight, Flight \ {m}}
  BY Flights DEF At
<1>3. Posted' \in {Posted, Posted \cup {m}}
  BY <1>1 DEF Posted, Reaches, IInv, TypeOK
<1>4. \A n \in Notes : State(n)' = State(n)
  BY DEF State, Open
<1> QED BY <1>1, <1>2, <1>3, <1>4 DEF Promise!Land, State, Flight, Posted

\* A slot that settles a row confirms or refuses an open message, or finds it
\* closed and changes nothing.
LEMMA Settling ==
    ASSUME DeliveryAssumption, IInv, IInv', NEW w \in Slots,
           MarkSent(w) \/ MarkFailed(w)
    PROVE  Promise!Next \/ UNCHANGED Promise!vars
<1> USE DEF IInv
<1>1. PICK n \in Notes : n = sender[w].at /\ (MarkSent(w) => n \in Posted)
  BY DEF Hands, Working, TypeOK, Sender, At, MarkSent, MarkFailed, Posted
<1>2. PICK s \in Sender : Moved(w, s) /\ s.pc # "posting"
  <2>1. WorkOn(w, sender[w].batch \ {n}) /\ sender[w].batch \ {n} \subseteq Notes
    BY <1>1 DEF MarkSent, MarkFailed, Settle, Advance, TypeOK, Sender
  <2>2. PICK s \in Sender : Moved(w, s) /\ s.pc \in {"idle", "reading"}
    BY <2>1, WorkingOn
  <2> QED BY <2>2
<1>3. Flight' = Flight
  BY <1>2, Flights DEF MarkSent, MarkFailed, At
<1>4. UNCHANGED posts
  BY DEF MarkSent, MarkFailed, Settle
<1>5. CASE row[n].status # "sending"
  <2>1. row' = row
    BY <1>1, <1>5 DEF MarkSent, MarkFailed, Settle
  <2> QED BY <1>3, <1>4, <2>1, Unseen
<1>6. CASE row[n].status = "sending"
  <2>0. PICK st \in {"sent", "failed"} :
          Settle(w, st) /\ (st = "sent" => MarkSent(w)) /\ (st = "failed" => MarkFailed(w))
    BY DEF MarkSent, MarkFailed
  <2>1. row' = [row EXCEPT ![n] = [row[n] EXCEPT !.status = st, !.old = FALSE]]
    BY <1>1, <1>6, <2>0 DEF Settle
  <2>2. row \in [Notes -> NoteRow] /\ ~row[n].withdrawn
    BY <1>1, <1>6 DEF TypeOK, Rows
  <2>3. row'[n].status = st /\ ~row'[n].withdrawn /\ \A m \in Notes : m # n => row'[m] = row[m]
    BY <1>1, <2>1, <2>2 DEF NoteRow
  <2>4. \A m \in Notes : m # n => State(m)' = State(m)
    BY <2>3 DEF State, Open
  <2>5. State(n) = "open" /\ State(n)' = IF st = "sent" THEN "delivered" ELSE "refused"
    <3>1. State(n) = "open"
      BY <1>1, <1>6, StateOf DEF Open
    <3>2. st = "sent" => State(n)' = "delivered"
      BY <2>3 DEF State, Open
    <3>3. st = "failed" => State(n)' = "refused"
      BY <2>3 DEF State, Open
    <3> QED BY <3>1, <3>2, <3>3
  <2>6. [m \in Notes |-> State(m)]' = [[m \in Notes |-> State(m)] EXCEPT ![n] =
             IF st = "sent" THEN "delivered" ELSE "refused"]
    BY <1>1, <2>4, <2>5
  <2>7. Posted' = Posted
    BY <1>4 DEF Posted
  <2>8. Promise!Confirm(n) \/ Promise!Refuse(n)
    <3>1. CASE st = "sent"
      BY <1>1, <1>3, <2>0, <2>5, <2>6, <2>7, <3>1 DEF Promise!Confirm, State, Flight, Posted
    <3>2. CASE st = "failed"
      BY <1>1, <1>3, <2>5, <2>6, <2>7, <3>2 DEF Promise!Refuse, State, Flight, Posted
    <3> QED BY <3>1, <3>2
  <2> QED BY <1>1, <2>8 DEF Promise!Next
<1> QED BY <1>5, <1>6

\* Closing a set of open notifications withdraws their messages.
LEMMA Withdrawing ==
    ASSUME IInv, NEW N \in SUBSET Notes, \A n \in N : Open(n), Withdraw(N),
           Flight' = Flight, UNCHANGED posts
    PROVE  Promise!Withdraw(N)
<1>1. \A n \in N : State(n) = "open"
  BY StateOf
<1>2. \A n \in Notes : State(n)' = IF n \in N THEN "withdrawn" ELSE State(n)
  <2> SUFFICES ASSUME NEW n \in Notes
               PROVE  State(n)' = IF n \in N THEN "withdrawn" ELSE State(n)
    OBVIOUS
  <2>1. CASE n \in N
    <3>1. row'[n].status = "sent" /\ row'[n].withdrawn
      BY <2>1 DEF Withdraw, IInv, TypeOK, NoteRow
    <3> QED BY <2>1, <3>1 DEF State, Open
  <2>2. CASE n \notin N
    <3>1. row'[n] = row[n]
      BY <2>2 DEF Withdraw
    <3> QED BY <2>2, <3>1 DEF State, Open
  <2> QED BY <2>1, <2>2
<1>3. Posted' = Posted
  BY DEF Posted
<1> QED BY <1>1, <1>2, <1>3 DEF Promise!Withdraw, State, Flight, Posted

\* A new row is a submission.
LEMMA Submitting ==
    ASSUME DeliveryAssumption, IInv, NEW i \in Items, NEW quiet \in BOOLEAN, Insert(i, quiet)
    PROVE  \E m \in Notes : Promise!Submit(m)
<1>1. PICK k \in Notes : k = created + 1
  BY DEF Insert, Notes, IInv, TypeOK, DeliveryAssumption
<1>2. row[k].status = "absent"
  BY <1>1 DEF IInv, TypeOK, Notes, Rows
<1>3. /\ row'[k].status = (IF quiet THEN "sent" ELSE "pending")
      /\ row'[k].withdrawn = quiet
      /\ \A m \in Notes : m # k => row'[m] = row[m]
  BY <1>1 DEF Insert, IInv, TypeOK
<1>4. \A m \in Notes : m # k => State(m)' = State(m)
  BY <1>3 DEF State, Open
<1>5. State(k) = "none"
  BY <1>1, <1>2, StateOf
<1>6. State(k)' = IF quiet THEN "withdrawn" ELSE "open"
  <2>1. CASE quiet
    BY <1>3, <2>1 DEF State, Open
  <2>2. CASE ~quiet
    BY <1>3, <2>2 DEF State, Open
  <2> QED BY <2>1, <2>2
<1>7. [m \in Notes |-> State(m)]' = [[m \in Notes |-> State(m)] EXCEPT ![k] =
           IF quiet THEN "withdrawn" ELSE "open"]
  BY <1>1, <1>4, <1>6
<1>8. Flight' = Flight /\ Posted' = Posted
  BY DEF Insert, Flight, Posted, Posting
<1> QED BY <1>1, <1>5, <1>7, <1>8 DEF Promise!Submit, State, Flight, Posted

\* A slot that finds its row still in status sending lets the message depart.
LEMMA Departing ==
    ASSUME IInv, NEW w \in Slots, ReadRow(w), StillSending(sender[w].at)
    PROVE  \E m \in Notes : Promise!Depart(m)
<1> DEFINE n == sender[w].at
<1>1. n \in Notes
  BY DEF ReadRow, At, IInv, Hands, Working, TypeOK, Sender
<1>2. PICK s \in Sender : Moved(w, s) /\ s.pc = "posting" /\ s.at = n
  BY GoingOn DEF IInv, ReadRow, Pcs
<1>3. Flight' = Flight \cup {n}
  BY <1>1, <1>2, Flights DEF ReadRow, At
<1>4. State(n) = "open"
  BY <1>1, StateOf DEF StillSending, Open
<1>5. \A m \in Notes : State(m)' = State(m)
  BY DEF ReadRow, State, Open
<1>6. Posted' = Posted
  BY DEF ReadRow, Posted
<1> QED BY <1>1, <1>3, <1>4, <1>5, <1>6 DEF Promise!Depart, State, Flight, Posted

\* The invariant turns every step into one of Outbox, or into none.
LEMMA StepsAreSeen ==
    ASSUME DeliveryAssumption, IInv, IInv', [Next]_vars
    PROVE  [Promise!Next]_(Promise!vars)
<1> USE DEF IInv
<1>1. ASSUME NEW i \in Items, CloseItem(i) PROVE Promise!Next
  <2> DEFINE N == {n \in Notes : Open(n) /\ row[n].job[1] = i}
  <2>1. Withdraw(N) /\ UNCHANGED <<sender, posts>>
    BY <1>1 DEF CloseItem
  <2>2. N \in SUBSET Notes /\ \A n \in N : Open(n)
    OBVIOUS
  <2> HIDE DEF N
  <2>3. Flight' = Flight
    BY <2>1 DEF Flight, Posting
  <2> QED BY <2>1, <2>2, <2>3, Withdrawing DEF Promise!Next
<1>2. ASSUME NEW i \in Items, NEW quiet \in BOOLEAN, Insert(i, quiet) PROVE Promise!Next
  BY <1>2, Submitting DEF Promise!Next
<1>3. ASSUME NEW i \in Items, NEW h \in Hashes, NewContent(i, h) PROVE UNCHANGED Promise!vars
  <2>1. Flight' = Flight /\ row' = row /\ posts' = posts
    BY <1>3 DEF NewContent, Flight, Posting
  <2> QED BY <2>1, Unseen
<1>4. ASSUME NEW n \in Notes, TenMinutesPass(n) PROVE UNCHANGED Promise!vars
  <2>1. Flight' = Flight /\ posts' = posts
    BY <1>4 DEF TenMinutesPass, Flight, Posting
  <2>2. \A m \in Notes : row'[m] = row[m] \/ (Open(m) /\ Open(m)')
    BY <1>4 DEF TenMinutesPass, Open, TypeOK, NoteRow
  <2> QED BY <2>1, <2>2, Unseen
<1>5. ASSUME NEW w \in Slots, SuppressSuperseded(w) PROVE Promise!Next
  <2> DEFINE N == {n \in Notes : Open(n) /\ ~Current(n)}
  <2>1. Withdraw(N) /\ UNCHANGED posts /\ At(w, "idle") /\ Go(w, "resetting")
    BY <1>5 DEF SuppressSuperseded
  <2>2. N \in SUBSET Notes /\ \A n \in N : Open(n)
    OBVIOUS
  <2> HIDE DEF N
  <2>3. PICK s \in Sender : Moved(w, s) /\ s.pc = "resetting"
    BY <2>1, GoingOn DEF Pcs
  <2>4. Flight' = Flight
    BY <2>1, <2>3, Flights DEF At
  <2> QED BY <2>1, <2>2, <2>4, Withdrawing DEF Promise!Next
<1>6. ASSUME NEW w \in Slots, ResetAbandoned(w) PROVE UNCHANGED Promise!vars
  <2>1. PICK s \in Sender : Moved(w, s) /\ s.pc = "claiming"
    BY <1>6, GoingOn DEF ResetAbandoned, Pcs
  <2>2. Flight' = Flight /\ UNCHANGED posts
    BY <1>6, <2>1, Flights DEF ResetAbandoned, At
  <2>3. \A n \in Notes : row'[n] = row[n] \/ (Open(n) /\ Open(n)')
    BY <1>6 DEF ResetAbandoned, Reopened, Abandoned, Open, TypeOK, NoteRow
  <2> QED BY <2>2, <2>3, Unseen
<1>7. ASSUME NEW w \in Slots, ClaimRows(w) PROVE UNCHANGED Promise!vars
  <2> DEFINE N == FirstOf(Waiting)
  <2>1. WorkOn(w, N) /\ N \in SUBSET Notes
    BY <1>7 DEF ClaimRows, FirstOf, Waiting
  <2>2. \A n \in Notes : row'[n] = row[n] \/ (Open(n) /\ Open(n)')
    BY <1>7 DEF ClaimRows, FirstOf, Waiting, Open, TypeOK, NoteRow
  <2> HIDE DEF N
  <2>3. PICK s \in Sender : Moved(w, s) /\ s.pc \in {"idle", "reading"}
    BY <2>1, WorkingOn
  <2>4. Flight' = Flight /\ UNCHANGED posts
    BY <1>7, <2>3, Flights DEF ClaimRows, At
  <2> QED BY <2>2, <2>4, Unseen
<1>8. ASSUME NEW w \in Slots, ReadRow(w) PROVE Promise!Next \/ UNCHANGED Promise!vars
  <2>1. CASE StillSending(sender[w].at)
    BY <1>8, <2>1, Departing DEF Promise!Next
  <2>2. CASE ~StillSending(sender[w].at)
    <3> DEFINE N == sender[w].batch \ {sender[w].at}
    <3>1. WorkOn(w, N) /\ N \in SUBSET Notes
      BY <1>8, <2>2 DEF ReadRow, Advance, TypeOK, Sender
    <3> HIDE DEF N
    <3>2. PICK s \in Sender : Moved(w, s) /\ s.pc \in {"idle", "reading"}
      BY <3>1, WorkingOn
    <3>3. Flight' = Flight /\ UNCHANGED <<posts, row>>
      BY <1>8, <3>2, Flights DEF ReadRow, At
    <3> QED BY <3>3, Unseen
  <2> QED BY <2>1, <2>2
<1>9. ASSUME NEW w \in Slots, DiscordAccepts(w) \/ DiscordRefuses(w) \/ DiscordFails(w)
      PROVE  Promise!Next
  <2>1. PICK pc \in {"posted", "refused", "retreating"} : Go(w, pc)
    BY <1>9 DEF DiscordAccepts, DiscordRefuses, DiscordFails
  <2>2. PICK s \in Sender : Moved(w, s) /\ s.pc = pc
    BY <2>1, GoingOn DEF Pcs
  <2>3. At(w, "posting") /\ UNCHANGED row /\ (UNCHANGED posts \/ Reaches(sender[w].at))
    BY <1>9 DEF DiscordAccepts, DiscordRefuses, DiscordFails
  <2> QED BY <2>2, <2>3, Landing DEF Promise!Next
<1>10. ASSUME NEW w \in Slots, MarkSent(w) \/ MarkFailed(w)
       PROVE  Promise!Next \/ UNCHANGED Promise!vars
  BY <1>10, Settling
<1>11. ASSUME NEW w \in Slots, ResetUnsent(w) PROVE UNCHANGED Promise!vars
  <2>1. Idle \in Sender /\ Moved(w, Idle) /\ Idle.pc = "idle"
    BY <1>11 DEF ResetUnsent, Moved, Idle, Sender, Pcs
  <2>2. Flight' = Flight /\ UNCHANGED posts
    BY <1>11, <2>1, Flights DEF ResetUnsent, At
  <2>3. \A n \in Notes : row'[n] = row[n] \/ (Open(n) /\ Open(n)')
    BY <1>11 DEF ResetUnsent, Reopened, Unsent, Open, TypeOK, NoteRow
  <2> QED BY <2>2, <2>3, Unseen
<1>12. ASSUME NEW w \in Slots, Stop(w) PROVE Promise!Next \/ UNCHANGED Promise!vars
  <2>1. Idle \in Sender /\ Moved(w, Idle) /\ Idle.pc = "idle" /\ UNCHANGED <<row, posts>>
    BY <1>12 DEF Stop, Moved, Idle, Sender, Pcs
  <2>2. CASE At(w, "posting")
    BY <2>1, <2>2, Landing DEF Promise!Next
  <2>3. CASE ~At(w, "posting")
    <3>1. Flight' = Flight
      BY <2>1, <2>3, Flights DEF At
    <3> QED BY <2>1, <3>1, Unseen
  <2> QED BY <2>2, <2>3
<1>13. CASE UNCHANGED vars
  <2>1. Flight' = Flight /\ UNCHANGED <<row, posts>>
    BY <1>13 DEF vars, Flight, Posting
  <2> QED BY <2>1, Unseen
<1> QED BY <1>1, <1>2, <1>3, <1>4, <1>5, <1>6, <1>7, <1>8, <1>9, <1>10, <1>11, <1>12, <1>13
        DEF Next, Send

\* Delivery implements Outbox: a notification counts as delivered only if it
\* reached the channel, departs only while it is open, and never opens again.
THEOREM DeliveryKeepsPromise == Spec => KeepsPromise
<1>1. Init => Promise!Init
  <2> SUFFICES ASSUME Init PROVE Promise!Init
    OBVIOUS
  <2>1. \A n \in Notes : State(n) = "none"
    BY DEF Init, AbsentRow, State, Open
  <2>2. Flight = {} /\ Posted = {}
    BY DEF Init, Idle, Flight, Posted, Posting
  <2> QED BY <2>1, <2>2 DEF Promise!Init, State, Flight, Posted
<1>2. IInv /\ IInv' /\ [Next]_vars => [Promise!Next]_(Promise!vars)
  BY StepsAreSeen, DeliveryAssumption
<1>3. Spec => []IInv
  BY IInvHolds, DeliveryAssumption
<1> QED BY <1>1, <1>2, <1>3, PTL DEF Spec, KeepsPromise, Promise!Spec
=============================================================================
