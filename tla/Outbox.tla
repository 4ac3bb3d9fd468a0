------------------------------- MODULE Outbox -------------------------------
(***************************************************************************)
(* What notification delivery promises: a message is posted at least once  *)
(* before it counts as delivered, it is picked up for posting only while   *)
(* it is open, and a message that is delivered, withdrawn or refused never *)
(* opens again.  It does not promise that a message is posted only once.   *)
(***************************************************************************)
CONSTANT Messages

VARIABLES
    state,      \* what has become of each message
    flight,     \* messages some sender is posting
    posted      \* messages that reached the channel, once or more often

vars == <<state, flight, posted>>

States == {"none", "open", "delivered", "withdrawn", "refused"}

TypeOK ==
    /\ state \in [Messages -> States]
    /\ flight \subseteq Messages
    /\ posted \subseteq Messages

Init ==
    /\ state = [m \in Messages |-> "none"]
    /\ flight = {}
    /\ posted = {}

\* A message may be withdrawn from the start, to be on record only.
Submit(m) ==
    /\ state[m] = "none"
    /\ \E s \in {"open", "withdrawn"} : state' = [state EXCEPT ![m] = s]
    /\ UNCHANGED <<flight, posted>>

Depart(m) ==
    /\ state[m] = "open"
    /\ flight' = flight \cup {m}
    /\ UNCHANGED <<state, posted>>

\* One of the senders posting m ends, whether or not m reached the channel.
Land(m) ==
    /\ m \in flight
    /\ flight' \in {flight, flight \ {m}}
    /\ posted' \in {posted, posted \cup {m}}
    /\ UNCHANGED state

Confirm(m) ==
    /\ state[m] = "open"
    /\ m \in posted
    /\ state' = [state EXCEPT ![m] = "delivered"]
    /\ UNCHANGED <<flight, posted>>

Refuse(m) ==
    /\ state[m] = "open"
    /\ state' = [state EXCEPT ![m] = "refused"]
    /\ UNCHANGED <<flight, posted>>

Withdraw(M) ==
    /\ \A m \in M : state[m] = "open"
    /\ state' = [m \in Messages |-> IF m \in M THEN "withdrawn" ELSE state[m]]
    /\ UNCHANGED <<flight, posted>>

Next ==
    \/ \E m \in Messages : Submit(m) \/ Depart(m) \/ Land(m) \/ Confirm(m) \/ Refuse(m)
    \/ \E M \in SUBSET Messages : Withdraw(M)

Spec == Init /\ [][Next]_vars
=============================================================================
