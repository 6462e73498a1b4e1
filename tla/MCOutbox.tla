------------------------------ MODULE MCOutbox ------------------------------
(* An instance of Outbox for TLC: batches of two events in some behaviours, *)
(* suspended workers and channels switched on and off in the others.        *)
EXTENDS Outbox, TLC

CONSTANTS w1, w2, apns, webpush, smtp, hook

\* The second event is not a notification: only the connection receives it.
MixedAccepted == [e \in Events |-> IF e = 1 THEN Channels ELSE Channels \ Skippable]

\* A webhook may be redirected once; every notification is one message.
Redirected == [c \in Channels |-> IF c \in Skippable THEN 1 ELSE 2]

\* bounds: once both events exist every channel stays on and nobody is suspended;
\* after a worker died no lease ends in the hands of another
MCNext ==
    /\ Next
    /\ \/ \E e \in Events : row'[e].state = "Absent"
       \/ stalls' = 0 /\ enabled' = Channels /\ steady'[1] = Channels
    /\ \/ crashes' = 0
       \/ stalls' = 0 /\ outlived' = {}

MCSpec == Init /\ [][MCNext]_vars /\ Fairness
=============================================================================
