---------------------------- MODULE EventsServer ----------------------------
(***************************************************************************)
(* The events service: browsers hold streams open, one database connection *)
(* listens for the signals of committed transactions, and each signal is   *)
(* offered to the queues of the streams that watch it.  The handlers and   *)
(* the listener are coroutines of one process: what happens between two    *)
(* awaits is one action.  The answers of the web application, which decides*)
(* who may watch, are external.                                            *)
(***************************************************************************)
EXTENDS Integers, FiniteSets, Sequences, SequencesExt

CONSTANTS
    Browsers,        \* connections that may ask for a stream
    UserOf,          \* whose cookie each of them sends
    Watches,         \* the records each of them watches
    Records,
    QueueSize,       \* maxsize of a stream's queue
    MaxConnections,  \* EVENTS_MAX_CONNECTIONS
    MaxPerUser,      \* EVENTS_MAX_PER_USER
    MaxDelay,        \* the longest pause between two attempts to listen
    MaxSignals,      \* bound: signals sent
    MaxLosses        \* bound: connections to the database that fail

Users == {UserOf[b] : b \in Browsers}

VARIABLES
    pc,          \* where the handler of each connection waits
    queue,       \* the frames each stream still has to send
    due,         \* streams whose recheck_at has passed
    stalled,     \* connections whose client does not read: drain() waits
    allowed,     \* users the web application knows as signed in
    conn,        \* the database connection of listen()
    listening,   \* hub.listening
    delay,
    wire,        \* signals sent on the connection and not read yet
    signals,     \* number of signals sent
    losses,      \* number of connections that failed
    missed,      \* streams that a signal they watch did not reach
    excused      \* streams with a full queue, or opened before the first LISTEN

vars == <<pc, queue, due, stalled, allowed, conn, listening, delay, wire, signals, losses, missed, excused>>

\* Handlers between the addition to hub.streams and its removal.
Streaming == {"open", "rechecking", "known", "unknown"}
Streams == {b \in Browsers : pc[b] \in Streaming}
PerUser(u) == Cardinality({b \in Streams : UserOf[b] = u})

Init ==
    /\ pc = [b \in Browsers |-> "closed"]
    /\ queue = [b \in Browsers |-> <<>>]
    /\ due = {} /\ stalled = {} /\ allowed = Users
    /\ conn = "connecting" /\ listening = FALSE /\ delay = 1
    /\ wire = <<>> /\ signals = 0 /\ losses = 0
    /\ missed = {} /\ excused = {}

-----------------------------------------------------------------------------
\* Stream.offer and broadcast: a frame for each of the streams S; a full queue
\* drops it.
Offer(S, frame) ==
    LET full == {b \in S : Len(queue[b]) = QueueSize}
    IN /\ queue' = [b \in Browsers |-> IF b \in S \ full THEN Append(queue[b], frame) ELSE queue[b]]
       /\ excused' = excused \cup full

Watching(k) == {b \in Streams : k \in Watches[b]}

\* A transaction that changed record k commits, with pg_notify: the listening
\* connection gets the signal, if there is one.
Signal(k) ==
    /\ signals < MaxSignals
    /\ signals' = signals + 1
    /\ IF conn = "up" THEN wire' = Append(wire, k) /\ UNCHANGED missed
       ELSE missed' = missed \cup Watching(k) /\ UNCHANGED wire
    /\ UNCHANGED <<pc, queue, due, stalled, allowed, conn, listening, delay, losses, excused>>

\* Hub.dispatch.
Dispatch ==
    /\ conn = "up" /\ wire # <<>>
    /\ wire' = Tail(wire)
    /\ Offer(Watching(Head(wire)), "signal")
    /\ UNCHANGED <<pc, due, stalled, allowed, conn, listening, delay, signals, losses, missed>>

\* The plausible mistake: one failed attempt is not enough for a resync.
ResyncLater == ~listening /\ delay > 2
ResyncNeeded == ~listening /\ delay > 1

\* listen(): connected and listening; after a failure every browser is told to
\* ask for what it has missed.
Listen ==
    /\ conn = "connecting"
    /\ conn' = "up" /\ listening' = TRUE /\ delay' = 1
    /\ IF ResyncNeeded THEN Offer(Streams, "resync")
       ELSE /\ excused' = IF delay = 1 THEN excused \cup Streams ELSE excused
            /\ UNCHANGED queue
    /\ UNCHANGED <<pc, due, stalled, allowed, wire, signals, losses, missed>>

\* The connection cannot be opened, or the loss of an open one is noticed.
Failed ==
    /\ \/ conn = "connecting" /\ losses < MaxLosses /\ losses' = losses + 1
       \/ conn = "lost" /\ UNCHANGED losses
    /\ conn' = "sleeping" /\ listening' = FALSE
    /\ UNCHANGED <<pc, queue, due, stalled, allowed, delay, wire, signals, missed, excused>>

Slept ==
    /\ conn = "sleeping"
    /\ conn' = "connecting"
    /\ delay' = IF delay * 2 < MaxDelay THEN delay * 2 ELSE MaxDelay
    /\ UNCHANGED <<pc, queue, due, stalled, allowed, listening, wire, signals, losses, missed, excused>>

\* The database restarts or the network breaks: what was on the way is lost.
Lose ==
    /\ conn = "up" /\ losses < MaxLosses
    /\ losses' = losses + 1
    /\ conn' = "lost"
    /\ missed' = missed \cup UNION {Watching(k) : k \in ToSet(wire)}
    /\ wire' = <<>>
    /\ UNCHANGED <<pc, queue, due, stalled, allowed, listening, delay, signals, excused>>

-----------------------------------------------------------------------------
Go(b, place) == pc' = [pc EXCEPT ![b] = place]

\* A request for a stream, while there are fewer than the limit.
Connect(b) ==
    /\ pc[b] = "closed" /\ Cardinality(Streams) < MaxConnections
    /\ Go(b, "asking")
    /\ UNCHANGED <<queue, due, stalled, allowed, conn, listening, delay, wire, signals, losses, missed, excused>>

\* /events/auth answers, or cannot be reached, which counts as a refusal.  (A
\* cookie that has become another user's is refused too.)
Answer(b) ==
    /\ \E known \in {UserOf[b] \in allowed, FALSE} :
          \/ pc[b] = "asking" /\ Go(b, IF known THEN "admitted" ELSE "refused")
          \/ pc[b] = "rechecking" /\ Go(b, IF known THEN "known" ELSE "unknown")
    /\ UNCHANGED <<queue, due, stalled, allowed, conn, listening, delay, wire, signals, losses, missed, excused>>

\* The handler ends: the stream leaves the hub.
Leave(b) ==
    /\ Go(b, "closed")
    /\ queue' = [queue EXCEPT ![b] = <<>>]
    /\ due' = due \ {b} /\ stalled' = stalled \ {b}
    /\ missed' = missed \ {b} /\ excused' = excused \ {b}
    /\ UNCHANGED <<allowed, conn, listening, delay, wire, signals, losses>>

\* After the answer: the limit of the user, and the stream joins the hub.
Open(b) ==
    /\ pc[b] = "admitted" /\ PerUser(UserOf[b]) < MaxPerUser
    /\ Go(b, "open")
    /\ UNCHANGED <<queue, due, stalled, allowed, conn, listening, delay, wire, signals, losses, missed, excused>>

Refuse(b) ==
    /\ pc[b] = "refused" \/ (pc[b] = "admitted" /\ PerUser(UserOf[b]) >= MaxPerUser)
    /\ Leave(b)

\* The plausible mistake: only a frame of a signal is followed by the check.
RecheckAfterSignal(b) == b \in due /\ queue[b] # <<>>
RecheckDue(b) == b \in due

\* The loop: the next frame, or a ping when there is none for a while, is
\* written, and then the account is checked again if it is time.
Write(b) ==
    /\ pc[b] = "open" /\ b \notin stalled
    /\ queue[b] # <<>> \/ b \in due
    /\ Go(b, IF RecheckDue(b) THEN "rechecking" ELSE "open")
    /\ queue' = [queue EXCEPT ![b] = IF @ = <<>> THEN @ ELSE Tail(@)]
    /\ missed' = IF queue[b] # <<>> /\ Head(queue[b]) = "resync" THEN missed \ {b} ELSE missed
    /\ UNCHANGED <<due, stalled, allowed, conn, listening, delay, wire, signals, losses, excused>>

Recheck(b) ==
    \/ pc[b] = "unknown" /\ b \notin stalled /\ Leave(b)
    \/ /\ pc[b] = "known"
       /\ Go(b, "open")
       /\ due' = due \ {b}
       /\ UNCHANGED <<queue, stalled, allowed, conn, listening, delay, wire, signals, losses, missed, excused>>

\* recheck_at passes.
Due(b) ==
    /\ pc[b] = "open" /\ b \notin due
    /\ due' = due \cup {b}
    /\ UNCHANGED <<pc, queue, stalled, allowed, conn, listening, delay, wire, signals, losses, missed, excused>>

\* The client stops reading or reads again.
Pause(b) ==
    /\ b \in Streams
    /\ stalled' = IF b \in stalled THEN stalled \ {b} ELSE stalled \cup {b}
    /\ UNCHANGED <<pc, queue, due, allowed, conn, listening, delay, wire, signals, losses, missed, excused>>

\* The client goes away: ConnectionError in the handler.
Disconnect(b) == b \in Streams /\ Leave(b)

\* The account signs out or is disabled.
SignOut(u) ==
    /\ u \in allowed
    /\ allowed' = allowed \ {u}
    /\ UNCHANGED <<pc, queue, due, stalled, conn, listening, delay, wire, signals, losses, missed, excused>>

-----------------------------------------------------------------------------
Handle(b) == Answer(b) \/ Open(b) \/ Refuse(b) \/ Write(b) \/ Recheck(b)
Listener == Dispatch \/ Listen \/ Failed \/ Slept

Next ==
    \/ \E k \in Records : Signal(k)
    \/ Listener \/ Lose
    \/ \E b \in Browsers : Handle(b) \/ Connect(b) \/ Due(b) \/ Pause(b) \/ Disconnect(b)
    \/ \E u \in Users : SignOut(u)

Spec == Init /\ [][Next]_vars

\* The event loop runs every coroutine that can go on, and time passes.
Fairness == WF_vars(Listener) /\ \A b \in Browsers : WF_vars(Handle(b)) /\ WF_vars(Due(b))

-----------------------------------------------------------------------------
TypeOK ==
    /\ pc \in [Browsers -> {"closed", "asking", "admitted", "refused"} \cup Streaming]
    /\ queue \in [Browsers -> Seq({"signal", "resync"})]
    /\ conn \in {"connecting", "up", "lost", "sleeping"}
    /\ due \cup stalled \cup missed \cup excused \subseteq Streams

(* "On reconnect tell every browser to resync, since signals sent while    *)
(* disconnected were lost": once the service listens again, a stream that  *)
(* a signal did not reach has the resync waiting in its queue, or has sent *)
(* it; only a full queue, or a stream older than the first LISTEN, is      *)
(* excused.                                                                *)
MissedIsResynced ==
    conn = "up" => \A b \in missed \ excused : "resync" \in ToSet(queue[b])

(* "A signed-out or disabled account loses its stream": each of its streams*)
(* ends, also one whose admission was on its way and one without traffic,  *)
(* unless its client does not read, when nothing is sent to it either.     *)
SignedOutIsClosed ==
    \A b \in Browsers :
        (pc[b] # "closed" /\ UserOf[b] \notin allowed) ~> (pc[b] = "closed" \/ b \in stalled)
=============================================================================
