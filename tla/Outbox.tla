------------------------------- MODULE Outbox -------------------------------
(***************************************************************************)
(* The durable integration outbox: rows of outbox_event queued by business *)
(* transactions and drained by process_outbox, which every worker process  *)
(* runs in a loop.  A pass claims due rows in one short transaction,       *)
(* makes the network calls outside of any transaction, and persists the    *)
(* outcome of each event in a transaction of its own.                      *)
(*                                                                         *)
(* Time is relative: a row carries how long until available_at is reached, *)
(* a worker how long its current request may still last.  A delivery makes *)
(* several requests: a webhook is redirected, a push goes to each device.  *)
(***************************************************************************)
EXTENDS Naturals, FiniteSets

CONSTANTS
    Workers,     \* worker processes and replicas running the outbox loop
    Events,      \* primary keys of outbox_event rows, claimed in id order
    Channels,    \* apns, webpush, smtp and the integration connections
    Skippable,   \* apns, webpush and smtp: may find no recipient (Skipped)
    Switchable,  \* bound: the channels an administrator switches on and off
    Accepts,     \* Accepts[e]: the channels whose filters accept event e
    Limit,       \* process_outbox(limit=50)
    Lease,       \* OUTBOX_CLAIM_LEASE_SECONDS
    Timeout,     \* the per-request timeout of every delivery function (10 s)
    Requests,    \* Requests[c]: the most requests of one delivery over channel c:
                 \* four for a webhook, one for each device or subscription
    BaseDelay,   \* the 5 of min(300, 2 ** attempts * 5)
    MaxDelay,    \* the 300 of the same expression
    MaxAttempts, \* attempts after which an event is Dead (5)
    MaxCrashes,  \* bound: worker crashes and aborted passes
    MaxStalls    \* bound: times a worker is suspended for an arbitrary time

ASSUME OutboxAssumption ==
    /\ Events \subseteq Nat \ {0}
    /\ Skippable \subseteq Channels /\ Switchable \subseteq Channels
    /\ Accepts \in [Events -> SUBSET Channels]
    /\ Limit \in Nat \ {0} /\ Lease \in Nat \ {0} /\ MaxAttempts \in Nat \ {0}
    /\ Requests \in [Channels -> Nat \ {0}]
    /\ Timeout \in Nat /\ BaseDelay \in Nat /\ MaxDelay \in Nat
    /\ MaxCrashes \in Nat /\ MaxStalls \in Nat
    /\ "none" \notin Channels

VARIABLES
    row,        \* outbox_event: state, attempts, wait (time to available_at)
    delivered,  \* integration_delivery rows in state Delivered or Skipped
    enabled,    \* channels whose setting is on, or whose connection is active
    batch,      \* events claimed by a worker and not yet started
    cur,        \* the event a worker is processing, or NoEvent
    todo,       \* channels of cur not looked at yet
    chan,       \* the channel of the network call in progress, or NoChannel
    wrote,      \* Delivered or Skipped rows pending in the worker's session
    failed,     \* channels in the pass's failures list
    seen,       \* event.attempts as the worker loaded it
    slack,      \* time the worker's request may still take
    left,       \* requests its delivery may still make after that one
    stalled,    \* workers suspended by their host
    crashes,    \* crashes so far
    stalls,     \* suspensions so far
    outlived,   \* history: events whose lease ended in the hands of a worker,
                \* until nobody holds them any more
    steady      \* history: channels enabled ever since the event was queued

session == <<batch, cur, todo, chan, wrote, failed, seen, slack, left>>
vars == <<row, delivered, enabled, session, stalled, crashes, stalls, outlived, steady>>

NoEvent == 0
NoChannel == "none"
States == {"Absent", "Pending", "Retry", "Processing", "Completed", "Dead"}
Row == [state: States, attempts: Nat, wait: Nat]

TypeOK ==
    /\ row \in [Events -> Row]
    /\ delivered \in [Events -> SUBSET Channels]
    /\ enabled \in SUBSET Channels
    /\ batch \in [Workers -> SUBSET Events]
    /\ cur \in [Workers -> Events \union {NoEvent}]
    /\ todo \in [Workers -> SUBSET Channels]
    /\ chan \in [Workers -> Channels \union {NoChannel}]
    /\ wrote \in [Workers -> SUBSET Channels]
    /\ failed \in [Workers -> SUBSET Channels]
    /\ seen \in [Workers -> Nat]
    /\ slack \in [Workers -> Nat]
    /\ stalled \in SUBSET Workers
    /\ crashes \in Nat
    /\ stalls \in Nat
    /\ left \in [Workers -> Nat]
    /\ outlived \in SUBSET Events
    /\ steady \in [Events -> SUBSET Channels]

Init ==
    /\ row = [e \in Events |-> [state |-> "Absent", attempts |-> 0, wait |-> 0]]
    /\ delivered = [e \in Events |-> {}]
    /\ enabled \in {S \in SUBSET Channels : Channels \ Switchable \subseteq S}
    /\ batch = [w \in Workers |-> {}]
    /\ cur = [w \in Workers |-> NoEvent]
    /\ todo = [w \in Workers |-> {}]
    /\ chan = [w \in Workers |-> NoChannel]
    /\ wrote = [w \in Workers |-> {}]
    /\ failed = [w \in Workers |-> {}]
    /\ seen = [w \in Workers |-> 0]
    /\ slack = [w \in Workers |-> 0]
    /\ stalled = {}
    /\ crashes = 0
    /\ stalls = 0
    /\ left = [w \in Workers |-> 0]
    /\ outlived = {}
    /\ steady = [e \in Events |-> {}]

Lower(a, b) == IF a <= b THEN a ELSE b
RetryDelay(n) == Lower(MaxDelay, 2^n * BaseDelay)

\* Holds for every base delay and cap; the provers know no powers.
ASSUME RetryDelayAssumption == \A n \in 0 .. MaxAttempts : RetryDelay(n) \in Nat

\* The locals of the loop body go out of scope.
DropLocals(w) ==
    /\ cur' = [cur EXCEPT ![w] = NoEvent]
    /\ todo' = [todo EXCEPT ![w] = {}]
    /\ chan' = [chan EXCEPT ![w] = NoChannel]
    /\ wrote' = [wrote EXCEPT ![w] = {}]
    /\ failed' = [failed EXCEPT ![w] = {}]
    /\ seen' = [seen EXCEPT ![w] = 0]
    /\ slack' = [slack EXCEPT ![w] = 0]
    /\ left' = [left EXCEPT ![w] = 0]

Held(w) == batch[w] \union ({cur[w]} \ {NoEvent})
Busy(w) == Held(w) # {}

-----------------------------------------------------------------------------
(* The rest of the application, as the outbox sees it.                     *)

\* A business transaction commits with a new outbox row (create_notification;
\* audit and the state-change events insert rows the same way).
Enqueue(e) ==
    /\ row[e].state = "Absent"
    /\ \A d \in Events : row[d].state = "Absent" => e <= d
    /\ row' = [row EXCEPT ![e].state = "Pending"]
    /\ steady' = [steady EXCEPT ![e] = enabled]
    /\ UNCHANGED <<delivered, enabled, session, stalled, crashes, stalls, outlived>>

\* An administrator switches a channel's setting or a connection on or off.
Toggle(c) ==
    /\ enabled' = IF c \in enabled THEN enabled \ {c} ELSE enabled \union {c}
    /\ steady' = [e \in Events |-> steady[e] \intersect enabled']
    /\ UNCHANGED <<row, delivered, session, stalled, crashes, stalls, outlived>>

\* The lease of an event ends while a worker holds it.
LeaseEnds(e) == row[e].state = "Processing" /\ row[e].wait = 1 /\ \E w \in Workers : e \in Held(w)

\* One unit of time.  A worker that runs is inside a request, which ends by
\* itself when its timeout is reached; a suspended one lets any time pass.
Tick ==
    /\ \A w \in Workers : Busy(w) /\ w \notin stalled => chan[w] # NoChannel /\ slack[w] > 0
    /\ \/ \E e \in Events : row[e].wait > 0
       \/ \E w \in Workers : slack[w] > 0
    /\ row' = [e \in Events |-> [row[e] EXCEPT !.wait = IF @ > 0 THEN @ - 1 ELSE 0]]
    /\ slack' = [w \in Workers |-> IF slack[w] > 0 THEN slack[w] - 1 ELSE 0]
    /\ outlived' = outlived \union {e \in Events : LeaseEnds(e)}
    /\ UNCHANGED <<delivered, enabled, batch, cur, todo, chan, wrote, failed, seen, left,
                   stalled, crashes, stalls, steady>>

-----------------------------------------------------------------------------
(* process_outbox                                                          *)

ClaimableUnleased ==
    {e \in Events : \/ row[e].state \in {"Pending", "Retry"} /\ row[e].wait = 0
                    \/ row[e].state = "Processing"}
ClaimableFresh == {e \in Events : row[e].state \in {"Pending", "Retry"} /\ row[e].wait = 0}
Claimable ==
    {e \in Events : row[e].state \in {"Pending", "Retry", "Processing"} /\ row[e].wait = 0}

\* The first Limit elements of a set of events in id order.
IsFirst(B, S) ==
    /\ B \subseteq S
    /\ Cardinality(B) = Lower(Limit, Cardinality(S))
    /\ \A x \in B, y \in S \ B : x < y

\* SELECT ... FOR UPDATE SKIP LOCKED, mark Processing with a lease, commit.
Claim(w) ==
    /\ ~Busy(w) /\ w \notin stalled
    /\ Claimable # {}
    /\ \E B \in SUBSET Claimable :
         /\ IsFirst(B, Claimable)
         /\ batch' = [batch EXCEPT ![w] = B]
         /\ row' = [e \in Events |->
                      IF e \in B THEN [row[e] EXCEPT !.state = "Processing", !.wait = Lease]
                      ELSE row[e]]
         /\ outlived' = outlived \ {e \in B : \A v \in Workers : e \notin Held(v)}
    /\ UNCHANGED <<delivered, enabled, cur, todo, chan, wrote, failed, seen, slack, left,
                   stalled, crashes, stalls, steady>>

\* The next event of the batch: the commit expired it, so it is loaded again.
StartEvent(w) ==
    /\ w \notin stalled
    /\ cur[w] = NoEvent
    /\ \E e \in batch[w] :
         /\ \A d \in batch[w] : e <= d
         /\ cur' = [cur EXCEPT ![w] = e]
         /\ batch' = [batch EXCEPT ![w] = @ \ {e}]
         /\ seen' = [seen EXCEPT ![w] = row[e].attempts]
    /\ todo' = [todo EXCEPT ![w] = Channels]
    /\ UNCHANGED <<row, delivered, enabled, chan, wrote, failed, slack, left,
                   stalled, crashes, stalls, outlived, steady>>

WantedAgain(e, c) == c \in enabled /\ c \in Accepts[e]

\* Whether the pass calls channel c: switched on, its filters accept the
\* event, and no earlier pass recorded a success.
Wanted(e, c) == c \in enabled /\ c \in Accepts[e] /\ c \notin delivered[e]

PassOver(w, c) ==
    /\ w \notin stalled
    /\ cur[w] # NoEvent /\ chan[w] = NoChannel
    /\ c \in todo[w]
    /\ ~Wanted(cur[w], c)
    /\ todo' = [todo EXCEPT ![w] = @ \ {c}]
    /\ UNCHANGED <<row, delivered, enabled, batch, cur, chan, wrote, failed, seen, slack, left,
                   stalled, crashes, stalls, outlived, steady>>

BeginSend(w, c) ==
    /\ w \notin stalled
    /\ cur[w] # NoEvent /\ chan[w] = NoChannel
    /\ c \in todo[w]
    /\ Wanted(cur[w], c)
    /\ todo' = [todo EXCEPT ![w] = @ \ {c}]
    /\ chan' = [chan EXCEPT ![w] = c]
    /\ slack' = [slack EXCEPT ![w] = Timeout]
    /\ left' = [left EXCEPT ![w] = Requests[c] - 1]
    /\ UNCHANGED <<row, delivered, enabled, batch, cur, wrote, failed, seen,
                   stalled, crashes, stalls, outlived, steady>>

\* A redirect is followed, or the next device is called: another request, with a
\* timeout of its own.
NextRequest(w) ==
    /\ w \notin stalled
    /\ chan[w] # NoChannel /\ left[w] > 0
    /\ slack' = [slack EXCEPT ![w] = Timeout]
    /\ left' = [left EXCEPT ![w] = @ - 1]
    /\ UNCHANGED <<row, delivered, enabled, batch, cur, todo, chan, wrote, failed, seen,
                   stalled, crashes, stalls, outlived, steady>>

\* How a delivery ends: accepted and acknowledged, nobody to send to,
\* refused, or accepted by the receiver although the caller saw a failure (a
\* lost acknowledgement, or one device of several failing after the others).
Outcomes == {"accepted", "skipped", "refused", "unacknowledged"}

EndSend(w, outcome) ==
    LET c == chan[w]
    IN /\ w \notin stalled
       /\ c # NoChannel
       /\ outcome = "skipped" => c \in Skippable
       /\ chan' = [chan EXCEPT ![w] = NoChannel]
       /\ slack' = [slack EXCEPT ![w] = 0]
       /\ left' = [left EXCEPT ![w] = 0]
       /\ wrote' = IF outcome \in {"accepted", "skipped"}
                   THEN [wrote EXCEPT ![w] = @ \union {c}] ELSE wrote
       /\ failed' = IF outcome \in {"refused", "unacknowledged"}
                    THEN [failed EXCEPT ![w] = @ \union {c}] ELSE failed
       /\ UNCHANGED <<row, delivered, enabled, batch, cur, todo, seen,
                      stalled, crashes, stalls, outlived, steady>>

AttemptsAfter(w) == seen[w] + 1

StateGivenUp(n, failures) == IF failures = {} \/ n >= MaxAttempts THEN "Completed" ELSE "Retry"
StateAfter(n, failures) ==
    IF failures = {} THEN "Completed" ELSE IF n >= MaxAttempts THEN "Dead" ELSE "Retry"

\* attempts += 1, the new state and the delivery rows, in one commit.  The
\* available_at of a settled row is never read again.
Persist(w) ==
    LET e == cur[w]
        n == AttemptsAfter(w)
    IN /\ w \notin stalled
       /\ e # NoEvent /\ chan[w] = NoChannel /\ todo[w] = {}
       /\ row' = [row EXCEPT ![e] =
            [state |-> StateAfter(n, failed[w]),
             attempts |-> n,
             wait |-> IF failed[w] # {} /\ n < MaxAttempts THEN RetryDelay(n) ELSE 0]]
       /\ delivered' = [delivered EXCEPT ![e] = @ \union wrote[w]]
       /\ DropLocals(w)
       /\ UNCHANGED <<enabled, batch, stalled, crashes, stalls, outlived, steady>>

-----------------------------------------------------------------------------
(* Failures of the process itself.                                         *)

\* The process dies, or an exception leaves process_outbox: the session is
\* rolled back and the claimed rows stay Processing until their lease ends.
Crash(w) ==
    /\ Busy(w) /\ crashes < MaxCrashes
    /\ crashes' = crashes + 1
    /\ batch' = [batch EXCEPT ![w] = {}]
    /\ DropLocals(w)
    /\ stalled' = stalled \ {w}
    /\ UNCHANGED <<row, delivered, enabled, stalls, outlived, steady>>

\* The host suspends a worker in the middle of a pass, and resumes it.
Stall(w) ==
    /\ Busy(w) /\ w \notin stalled /\ stalls < MaxStalls
    /\ stalls' = stalls + 1
    /\ stalled' = stalled \union {w}
    /\ UNCHANGED <<row, delivered, enabled, session, crashes, outlived, steady>>

Resume(w) ==
    /\ w \in stalled
    /\ stalled' = stalled \ {w}
    /\ UNCHANGED <<row, delivered, enabled, session, crashes, stalls, outlived, steady>>

-----------------------------------------------------------------------------
Pass(w) ==
    \/ Claim(w)
    \/ StartEvent(w)
    \/ \E c \in Channels : PassOver(w, c) \/ BeginSend(w, c)
    \/ NextRequest(w)
    \/ \E outcome \in Outcomes : EndSend(w, outcome)
    \/ Persist(w)

Next ==
    \/ \E e \in Events : Enqueue(e)
    \/ \E c \in Switchable : Toggle(c)
    \/ Tick
    \/ \E w \in Workers : Pass(w) \/ Crash(w) \/ Stall(w) \/ Resume(w)

Spec == Init /\ [][Next]_vars

\* The worker loop never stops calling process_outbox, suspended processes
\* are resumed, and time passes.  Nobody has to queue events or switch channels.
Fairness ==
    /\ WF_vars(Tick)
    /\ \A w \in Workers : WF_vars(Pass(w)) /\ WF_vars(Resume(w))

FairSpec == Spec /\ Fairness

-----------------------------------------------------------------------------
(* Properties                                                              *)

\* A Completed event reached every channel that accepts it and was switched on
\* for as long as the event existed, however passes crashed, overlapped or were
\* retried: process_outbox never settles an event with a channel left out.
CompletedIsDelivered ==
    \A e \in Events :
        row[e].state = "Completed" => steady[e] \intersect Accepts[e] \subseteq delivered[e]

\* No two workers hold the same event, unless a lease ended in the hands of one
\* of them: the claim keeps an event from the others for exactly the time of its
\* lease, whoever dies or is suspended (process_outbox).
ExclusiveClaim ==
    \A v, w \in Workers : v # w => Held(v) \intersect Held(w) \subseteq outlived

\* Nor does a worker call a channel whose success is committed: the
\* prior-delivery check of process_outbox holds up against retries and crashes,
\* and only a lease that ended under a pass makes its answer stale.
RecordedNeverResent ==
    \A w \in Workers :
        chan[w] # NoChannel /\ cur[w] \notin outlived => chan[w] \notin delivered[cur[w]]

\* Every queued event is eventually delivered or given up, although workers
\* crash and are suspended: an expired lease makes the event claimable again.
EventuallySettled ==
    \A e \in Events :
        row[e].state = "Pending" ~> row[e].state \in {"Completed", "Dead"}

=============================================================================
