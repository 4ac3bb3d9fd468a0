------------------------------ MODULE Delivery ------------------------------
(***************************************************************************)
(* notification_delivery.go and discord.go: the rows of                    *)
(* localpager_notifications, the worker slots that send them when they     *)
(* have finalized a job or found none, the sources that supersede or close *)
(* items meanwhile, and the Discord channel.  Every action is one SQLite   *)
(* statement or transaction, or one answer of Discord.                     *)
(***************************************************************************)
EXTENDS Integers, FiniteSets

CONSTANTS
    Items,          \* items notifications are about
    Hashes,         \* content hashes an item can have
    Slots,          \* worker slots: goroutines in SendPendingDiscord
    MaxNotes,       \* bound on the notifications created
    BatchSize,      \* pendingDiscordBatchSize
    ChannelSet,     \* is the destination channel id configured?
    NoJob

ASSUME DeliveryAssumption ==
    /\ MaxNotes \in Nat
    /\ BatchSize \in Nat \ {0}
    /\ ChannelSet \in BOOLEAN
    /\ NoJob \notin Items \X Hashes

VARIABLES
    latest,     \* latest_content_hash of each item
    created,    \* number of rows inserted: their ids follow created_at
    row,        \* localpager_notifications, by id
    sender,     \* where each slot is in SendPendingDiscord
    posts,      \* history: how often each message reached the channel, up to 2
    aged,       \* history: notifications once in status sending for ten minutes
    unclear,    \* history: notifications posted although Discord's answer failed
    safe        \* history: withdrawn while no slot was posting them

vars == <<latest, created, row, sender, posts, aged, unclear, safe>>
-----------------------------------------------------------------------------
Notes == 1..MaxNotes
Jobs == Items \X Hashes

NoteRow == [job: Jobs \cup {NoJob},
            status: {"absent", "pending", "sending", "sent", "failed"},
            withdrawn: BOOLEAN, \* suppression_reason is not null
            old: BOOLEAN]       \* updated_at is more than ten minutes ago

AbsentRow == [job |-> NoJob, status |-> "absent", withdrawn |-> FALSE, old |-> FALSE]

Pcs == {"idle", "resetting", "claiming", "reading", "posting", "posted", "refused", "retreating"}

\* batch holds what sendClaimedDiscordNotifications has still to go through, at
\* the one it has come to.
Sender == [pc: Pcs, batch: SUBSET Notes, at: Notes \cup {0}]

Idle == [pc |-> "idle", batch |-> {}, at |-> 0]

Init ==
    /\ latest \in [Items -> Hashes]
    /\ created = 0
    /\ row = [n \in Notes |-> AbsentRow]
    /\ sender = [w \in Slots |-> Idle]
    /\ posts = [n \in Notes |-> 0]
    /\ aged = {}
    /\ unclear = {}
    /\ safe = {}

Open(n) == row[n].status \in {"pending", "sending"}
Current(n) == latest[row[n].job[1]] = row[n].job[2]

Posting(w, n) == sender[w].pc = "posting" /\ sender[w].at = n
-----------------------------------------------------------------------------
(* Rows come and go: the worker's results, the sources, and time. *)

\* Closed with a suppression reason: never to be sent.
Withdraw(N) ==
    /\ row' = [n \in Notes |-> IF n \in N
                THEN [row[n] EXCEPT !.status = "sent", !.withdrawn = TRUE, !.old = FALSE] ELSE row[n]]
    /\ safe' = safe \cup {n \in N : \A w \in Slots : ~Posting(w, n)}

\* persistJobResult stores the notification of a job that is still current.  A
\* job with a suppression reason has it stored as already sent.
Insert(i, quiet) ==
    /\ created < MaxNotes
    /\ created' = created + 1
    /\ row' = [row EXCEPT ![created + 1] =
                [job |-> <<i, latest[i]>>, status |-> IF quiet THEN "sent" ELSE "pending",
                 withdrawn |-> quiet, old |-> FALSE]]
    /\ safe' = IF quiet THEN safe \cup {created + 1} ELSE safe
    /\ UNCHANGED <<latest, sender, posts, aged, unclear>>

\* A source reports other content.
NewContent(i, h) ==
    /\ latest[i] # h
    /\ latest' = [latest EXCEPT ![i] = h]
    /\ UNCHANGED <<created, row, sender, posts, aged, unclear, safe>>

\* A source reports the item closed or suppressed: skipPendingJobsForItem.
CloseItem(i) ==
    /\ \E n \in Notes : Open(n) /\ row[n].job[1] = i
    /\ Withdraw({n \in Notes : Open(n) /\ row[n].job[1] = i})
    /\ UNCHANGED <<latest, created, sender, posts, aged, unclear>>

TenMinutesPass(n) ==
    /\ row[n].status = "sending"
    /\ ~row[n].old
    /\ row' = [row EXCEPT ![n].old = TRUE]
    /\ aged' = aged \cup {n}
    /\ UNCHANGED <<latest, created, sender, posts, unclear, safe>>
-----------------------------------------------------------------------------
(* SendPendingDiscord.  Whether a slot that is done with a batch loops or   *)
(* returns, to come back after its next job or when it finds none, is the   *)
(* same here.                                                               *)

At(w, pc) == sender[w].pc = pc
Go(w, pc) == sender' = [sender EXCEPT ![w].pc = pc]

\* Batches are worked through in order.
WorkOn(w, N) ==
    \/ N = {} /\ sender' = [sender EXCEPT ![w] = Idle]
    \/ \E n \in N :
         /\ \A m \in N : n <= m
         /\ sender' = [sender EXCEPT ![w] = [pc |-> "reading", batch |-> N, at |-> n]]

\* The slot is done with the notification it had come to.
Advance(w) == WorkOn(w, sender[w].batch \ {sender[w].at})

SuppressSuperseded(w) ==
    /\ At(w, "idle")
    /\ Withdraw({n \in Notes : Open(n) /\ ~Current(n)})
    /\ Go(w, "resetting")
    /\ UNCHANGED <<latest, created, posts, aged, unclear>>

\* Faulty variant: updated_at is compared the wrong way round.
AbandonedYoung(n) == row[n].status = "sending" /\ ~row[n].old

Abandoned(n) == row[n].status = "sending" /\ row[n].old

Reopened(N) == [n \in Notes |-> IF n \in N THEN [row[n] EXCEPT !.status = "pending", !.old = FALSE]
                                           ELSE row[n]]

ResetAbandoned(w) ==
    /\ At(w, "resetting")
    /\ row' = Reopened({n \in Notes : Abandoned(n)})
    /\ Go(w, "claiming")
    /\ UNCHANGED <<latest, created, posts, aged, unclear, safe>>

\* Faulty variant: what is being sent can be claimed as well.
WaitingAny == {n \in Notes : Open(n) /\ Current(n)}

Waiting == {n \in Notes : row[n].status = "pending" /\ Current(n)}

\* ORDER BY created_at LIMIT BatchSize
FirstOf(N) == {n \in N : Cardinality({m \in N : m < n}) < BatchSize}

ClaimRows(w) ==
    /\ At(w, "claiming")
    /\ row' = [n \in Notes |-> IF n \in FirstOf(Waiting)
                THEN [row[n] EXCEPT !.status = "sending", !.old = FALSE] ELSE row[n]]
    /\ WorkOn(w, FirstOf(Waiting))
    /\ UNCHANGED <<latest, created, posts, aged, unclear, safe>>

\* Faulty variant: the row is not read again before it is posted.
StillSendingUnread(n) == TRUE

StillSending(n) == row[n].status = "sending"

ReadRow(w) ==
    /\ At(w, "reading")
    /\ IF StillSending(sender[w].at) THEN Go(w, "posting") ELSE Advance(w)
    /\ UNCHANGED <<latest, created, row, posts, aged, unclear, safe>>

Reaches(n) == posts' = [posts EXCEPT ![n] = IF @ = 0 THEN 1 ELSE 2]

DiscordAccepts(w) ==
    /\ ChannelSet
    /\ At(w, "posting")
    /\ Reaches(sender[w].at)
    /\ Go(w, "posted")
    /\ UNCHANGED <<latest, created, row, aged, unclear, safe>>

\* A 4xx other than 429.
DiscordRefuses(w) ==
    /\ At(w, "posting")
    /\ Go(w, "refused")
    /\ UNCHANGED <<latest, created, row, posts, aged, unclear, safe>>

\* No answer, 429, 5xx, or a success without a message id: the message may or
\* may not have reached the channel.
DiscordFails(w) ==
    /\ At(w, "posting")
    /\ Go(w, "retreating")
    /\ \/ UNCHANGED <<posts, unclear>>
       \/ ChannelSet /\ Reaches(sender[w].at) /\ unclear' = unclear \cup {sender[w].at}
    /\ UNCHANGED <<latest, created, row, aged, safe>>

\* The update both outcomes share: WHERE id = ? AND status = 'sending'.
Settle(w, status) ==
    /\ row' = IF row[sender[w].at].status = "sending"
              THEN [row EXCEPT ![sender[w].at].status = status, ![sender[w].at].old = FALSE] ELSE row
    /\ Advance(w)
    /\ UNCHANGED <<latest, created, posts, aged, unclear, safe>>

MarkSent(w) == At(w, "posted") /\ Settle(w, "sent")

\* Faulty variant: another status is written.
MarkFailedMisspelt(w) == At(w, "refused") /\ Settle(w, "error")

MarkFailed(w) == At(w, "refused") /\ Settle(w, "failed")

\* Faulty variant: every notification of the batch is reset, whatever its status.
UnsentAny(w) == sender[w].batch

Unsent(w) == {n \in sender[w].batch : row[n].status = "sending"}

ResetUnsent(w) ==
    /\ At(w, "retreating")
    /\ row' = Reopened(Unsent(w))
    /\ sender' = [sender EXCEPT ![w] = Idle]
    /\ UNCHANGED <<latest, created, posts, aged, unclear, safe>>

\* The process dies, its context is cancelled (also while Discord answers) or
\* the statement the slot was about to run fails: the batch is forgotten.
Stop(w) ==
    /\ ~At(w, "idle")
    /\ sender' = [sender EXCEPT ![w] = Idle]
    /\ UNCHANGED <<latest, created, row, posts, aged, unclear, safe>>
-----------------------------------------------------------------------------
Send(w) ==
    \/ SuppressSuperseded(w) \/ ResetAbandoned(w) \/ ClaimRows(w) \/ ReadRow(w)
    \/ DiscordAccepts(w) \/ DiscordRefuses(w) \/ DiscordFails(w)
    \/ MarkSent(w) \/ MarkFailed(w) \/ ResetUnsent(w)

Next ==
    \/ \E i \in Items : CloseItem(i) \/ \E quiet \in BOOLEAN : Insert(i, quiet)
    \/ \E i \in Items, h \in Hashes : NewContent(i, h)
    \/ \E n \in Notes : TenMinutesPass(n)
    \/ \E w \in Slots : Send(w) \/ Stop(w)

Spec == Init /\ [][Next]_vars

\* Slots finalize a job or find none again and again, Discord answers or the
\* client's thirty seconds run out, and the clock advances.
Fairness ==
    /\ \A w \in Slots : WF_vars(Send(w))
    /\ \A n \in Notes : WF_vars(TenMinutesPass(n))

FairSpec == Spec /\ Fairness
-----------------------------------------------------------------------------
(* Properties *)

TypeOK ==
    /\ latest \in [Items -> Hashes]
    /\ created \in 0..MaxNotes
    /\ row \in [Notes -> NoteRow]
    /\ sender \in [Slots -> Sender]
    /\ posts \in [Notes -> 0..2]
    /\ aged \subseteq Notes /\ unclear \subseteq Notes /\ safe \subseteq Notes

\* Two slots never hold the same notification, although the row does not say
\* whose it is and a slot that fails reopens rows by status alone, unless one of
\* them was so slow, or died, that ten minutes passed.
OneSender == \A n \in Notes, w1, w2 \in Slots :
    w1 # w2 /\ n \in sender[w1].batch /\ n \in sender[w2].batch => n \in aged

\* A channel sees a message twice only if it stayed in status sending for ten
\* minutes, or Discord had posted it and answered with an error.
DuplicateNeedsCause == \A n \in Notes : posts[n] = 2 => n \in aged \cup unclear

\* A notification that is withdrawn before a slot has come to it is never
\* posted, not even by a slot that had claimed it with a batch long before.
WithdrawnIsNotPosted == \A w \in Slots : At(w, "posting") => sender[w].at \notin safe

\* The promise of delivery: see Outbox.
Promise == INSTANCE Outbox WITH
    Messages <- Notes,
    state <- [n \in Notes |->
        CASE row[n].status = "absent" -> "none"
          [] Open(n) -> "open"
          [] row[n].status = "failed" -> "refused"
          [] OTHER -> IF row[n].withdrawn THEN "withdrawn" ELSE "delivered"],
    flight <- {n \in Notes : \E w \in Slots : Posting(w, n)},
    posted <- {n \in Notes : posts[n] > 0}

\* A notification counts as delivered only if it reached the channel, is picked
\* up only while it is open, and never opens again.
KeepsPromise == Promise!Spec

\* The message that is logged when no channel is set (cmd/localpager-worker
\* main.go:74): notifications will remain pending.
UnsetChannelKeepsPending == ~ChannelSet => \A n \in Notes : row[n].status # "failed"

\* A slot ends although it had something to do.
Breaks(w) == Stop(w) /\ ~Send(w)

\* What may keep a notification open: dying slots, a Discord that fails,
\* content that keeps changing, and a slot slower than ten minutes.
Disturbance ==
    \/ \E w \in Slots : Breaks(w) \/ DiscordFails(w)
    \/ \E i \in Items, h \in Hashes : NewContent(i, h)
    \/ \E w \in Slots : \E n \in sender[w].batch : TenMinutesPass(n)

\* Once disturbances end, every open notification is sent, refused or
\* withdrawn, those a dead slot had claimed included.
OpenNotesSettle == <>[][~Disturbance]_vars => \A n \in Notes : Open(n) ~> ~Open(n)
=============================================================================
