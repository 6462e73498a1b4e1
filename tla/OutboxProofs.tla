---------------------------- MODULE OutboxProofs ----------------------------
(***************************************************************************)
(* Proofs about Outbox for every set of workers, events and channels and   *)
(* every limit, lease, timeout, number of requests and bound: type         *)
(* correctness, that a Completed event has reached every channel it had    *)
(* to, and that, except for an event whose lease ended in the hands of a   *)
(* worker, no two workers hold an event and no recorded delivery is        *)
(* repeated.                                                               *)
(***************************************************************************)
EXTENDS Outbox, TLAPS

\* Only queued events are held by a worker, and a network call belongs to the
\* event the worker is processing.
HeldIsQueued ==
    \A w \in Workers :
        /\ \A e \in Held(w) : row[e].state # "Absent"
        /\ chan[w] # NoChannel => cur[w] # NoEvent

\* A channel is steady for an event only while it is switched on.
SteadyIsEnabled == \A e \in Events : steady[e] \subseteq enabled

\* Every channel the pass has dealt with is settled one way or another: it was
\* not required, its success is committed or pending, or it is a failure.
PassAccountsForChannels ==
    \A w \in Workers : \A c \in Channels \ todo[w] :
        cur[w] # NoEvent /\ c # chan[w] /\ c \in steady[cur[w]] /\ c \in Accepts[cur[w]]
            => c \in delivered[cur[w]] \/ c \in wrote[w] \/ c \in failed[w]

OutboxInv ==
    /\ TypeOK
    /\ HeldIsQueued
    /\ SteadyIsEnabled
    /\ PassAccountsForChannels
    /\ CompletedIsDelivered

-----------------------------------------------------------------------------
LEMMA InitOutboxInv == Init => OutboxInv
  <1> SUFFICES ASSUME Init PROVE OutboxInv
    OBVIOUS
  <1> USE OutboxAssumption DEF Init
  <1>1. TypeOK
    BY DEF TypeOK, Row, States, NoEvent, NoChannel
  <1>2. HeldIsQueued /\ SteadyIsEnabled
    BY DEF HeldIsQueued, SteadyIsEnabled, Held, NoEvent, NoChannel
  <1>3. PassAccountsForChannels /\ CompletedIsDelivered
    BY DEF PassAccountsForChannels, CompletedIsDelivered, NoEvent
  <1> QED
    BY <1>1, <1>2, <1>3 DEF OutboxInv

\* The updates the outbox makes of a row give a row again.
LEMMA RowUpdates ==
    ASSUME NEW r \in Row, NEW s \in States, NEW n \in Nat, NEW t \in Nat
    PROVE  /\ [r EXCEPT !.state = s] \in Row
           /\ [r EXCEPT !.wait = t] \in Row
           /\ [r EXCEPT !.state = s, !.wait = t] \in Row
           /\ [state |-> s, attempts |-> n, wait |-> t] \in Row
  BY DEF Row

LEMMA RowFields ==
    ASSUME NEW r \in Row
    PROVE  r.wait \in Nat /\ r.attempts \in Nat /\ r.state \in States
  BY DEF Row

\* Type correctness of the outbox tables and of every worker's session.
LEMMA NextTypeOK == TypeOK /\ [Next]_vars => TypeOK'
  <1> SUFFICES ASSUME TypeOK, [Next]_vars PROVE TypeOK'
    OBVIOUS
  <1> USE OutboxAssumption DEF TypeOK, NoEvent, NoChannel
  <1>1. ASSUME NEW e \in Events, Enqueue(e) PROVE TypeOK'
    <2>1. [row[e] EXCEPT !.state = "Pending"] \in Row
      BY RowUpdates DEF States
    <2>2. row' \in [Events -> Row]
      BY <1>1, <2>1 DEF Enqueue
    <2> QED
      BY <1>1, <2>2 DEF Enqueue, session
  <1>2. ASSUME NEW c \in Switchable, Toggle(c) PROVE TypeOK'
    BY <1>2 DEF Toggle, session
  <1>3. CASE Tick
    <2>1. ASSUME NEW e \in Events
          PROVE [row[e] EXCEPT !.wait = IF @ > 0 THEN @ - 1 ELSE 0] \in Row
      <3>1. row[e] \in Row /\ row[e].wait \in Nat /\ row[e].state \in States
        BY RowFields
      <3>2. (IF row[e].wait > 0 THEN row[e].wait - 1 ELSE 0) \in Nat
        BY <3>1
      <3> QED
        BY <3>1, <3>2 DEF Row
    <2>2. row' \in [Events -> Row]
      BY <1>3, <2>1 DEF Tick
    <2>3. slack' \in [Workers -> Nat]
      BY <1>3 DEF Tick
    <2> QED
      BY <1>3, <2>2, <2>3 DEF Tick
  <1>4. ASSUME NEW w \in Workers, Claim(w) PROVE TypeOK'
    <2>1. \A e \in Events : [row[e] EXCEPT !.state = "Processing", !.wait = Lease] \in Row
      BY RowUpdates DEF States
    <2>2. PICK B \in SUBSET Claimable :
            /\ batch' = [batch EXCEPT ![w] = B]
            /\ row' = [e \in Events |->
                        IF e \in B THEN [row[e] EXCEPT !.state = "Processing", !.wait = Lease]
                        ELSE row[e]]
      BY <1>4 DEF Claim
    <2>3. B \subseteq Events
      BY DEF Claimable
    <2>4. row' \in [Events -> Row]
      BY <2>1, <2>2
    <2>5. batch' \in [Workers -> SUBSET Events]
      BY <2>2, <2>3
    <2> QED
      BY <1>4, <2>4, <2>5 DEF Claim
  <1>5. ASSUME NEW w \in Workers, StartEvent(w) PROVE TypeOK'
    <2>1. PICK e \in batch[w] :
            /\ cur' = [cur EXCEPT ![w] = e]
            /\ batch' = [batch EXCEPT ![w] = @ \ {e}]
            /\ seen' = [seen EXCEPT ![w] = row[e].attempts]
      BY <1>5 DEF StartEvent
    <2>2. e \in Events /\ row[e] \in Row
      OBVIOUS
    <2>3. row[e].attempts \in Nat
      BY <2>2, RowFields
    <2> QED
      BY <1>5, <2>1, <2>2, <2>3 DEF StartEvent
  <1>6. ASSUME NEW w \in Workers, NEW c \in Channels, PassOver(w, c) PROVE TypeOK'
    BY <1>6 DEF PassOver
  <1>7. ASSUME NEW w \in Workers, NEW c \in Channels, BeginSend(w, c) PROVE TypeOK'
    <2>1. Requests[c] - 1 \in Nat
      OBVIOUS
    <2> QED
      BY <1>7, <2>1 DEF BeginSend
  <1>8. ASSUME NEW w \in Workers, NEW outcome \in Outcomes, EndSend(w, outcome) PROVE TypeOK'
    <2>1. cur[w] \in Events \union {NoEvent} /\ chan[w] \in Channels
      BY <1>8 DEF EndSend
    <2> QED
      BY <1>8, <2>1 DEF EndSend
  <1>9. ASSUME NEW w \in Workers, Persist(w) PROVE TypeOK'
    <2> DEFINE n == AttemptsAfter(w)
               state == StateAfter(n, failed[w])
               wait == IF failed[w] # {} /\ n < MaxAttempts THEN RetryDelay(n) ELSE 0
    <2>1. cur[w] \in Events /\ n \in Nat /\ state \in States
      BY <1>9 DEF Persist, States, AttemptsAfter, StateAfter
    <2>2. wait \in Nat
      BY <2>1, RetryDelayAssumption
    <2>3. row' \in [Events -> Row]
      <3>1. [state |-> state, attempts |-> n, wait |-> wait] \in Row
        BY <2>1, <2>2, RowUpdates DEF Row
      <3> QED
        BY <1>9, <2>1, <3>1 DEF Persist
    <2>4. delivered' \in [Events -> SUBSET Channels]
      BY <1>9, <2>1 DEF Persist
    <2> QED
      BY <1>9, <2>3, <2>4 DEF Persist, DropLocals
  <1>10. ASSUME NEW w \in Workers, Crash(w) PROVE TypeOK'
    BY <1>10 DEF Crash, DropLocals
  <1>11. ASSUME NEW w \in Workers, Stall(w) \/ Resume(w) PROVE TypeOK'
    <2>1. UNCHANGED <<row, delivered, enabled, batch, cur, todo, chan, wrote, failed, seen, slack,
                      left, outlived, steady>>
          /\ stalled' \in SUBSET Workers /\ stalls' \in Nat /\ crashes' = crashes
      BY <1>11 DEF Stall, Resume, session
    <2> QED
      BY <2>1
  <1>12. ASSUME NEW w \in Workers, NextRequest(w) PROVE TypeOK'
    <2>1. left[w] \in Nat /\ left[w] > 0 /\ left[w] - 1 \in Nat
      BY <1>12 DEF NextRequest
    <2> QED
      BY <1>12, <2>1 DEF NextRequest
  <1>13. CASE UNCHANGED vars
    BY <1>13 DEF vars, session
  <1> QED
    BY <1>1, <1>2, <1>3, <1>4, <1>5, <1>6, <1>7, <1>8, <1>9, <1>10, <1>11, <1>12, <1>13
       DEF Next, Pass

\* How one step changes the state of a row: an absent row can only be queued,
\* a queued one never becomes absent, and only Persist completes one.
LEMMA RowSteps ==
    ASSUME TypeOK, Next
    PROVE  \A e \in Events :
             \/ row'[e].state = row[e].state
             \/ row'[e].state \in {"Processing", "Retry", "Dead"}
             \/ row[e].state = "Absent" /\ row'[e].state = "Pending" /\ Enqueue(e)
             \/ /\ row'[e].state = "Completed"
                /\ \E w \in Workers : Persist(w) /\ cur[w] = e /\ failed[w] = {}
  <1> SUFFICES ASSUME NEW e \in Events
               PROVE  \/ row'[e].state = row[e].state
                      \/ row'[e].state \in {"Processing", "Retry", "Dead"}
                      \/ row[e].state = "Absent" /\ row'[e].state = "Pending" /\ Enqueue(e)
                      \/ /\ row'[e].state = "Completed"
                         /\ \E w \in Workers : Persist(w) /\ cur[w] = e /\ failed[w] = {}
    OBVIOUS
  <1>0. row \in [Events -> Row] /\ row[e] \in Row
    BY DEF TypeOK
  <1>1. CASE row' = row
    BY <1>1
  <1>2. ASSUME NEW d \in Events, Enqueue(d)
        PROVE  \/ row'[e].state = row[e].state
               \/ row[e].state = "Absent" /\ row'[e].state = "Pending" /\ Enqueue(e)
    BY <1>0, <1>2 DEF Enqueue, Row
  <1>3. CASE Tick
    BY <1>0, <1>3 DEF Tick, Row
  <1>4. ASSUME NEW w \in Workers, Claim(w)
        PROVE  row'[e].state = row[e].state \/ row'[e].state = "Processing"
    <2>1. PICK B : row' = [d \in Events |->
                     IF d \in B THEN [row[d] EXCEPT !.state = "Processing", !.wait = Lease]
                     ELSE row[d]]
      BY <1>4 DEF Claim
    <2> QED
      BY <1>0, <2>1 DEF Row
  <1>5. ASSUME NEW w \in Workers, Persist(w)
        PROVE  \/ row'[e].state = row[e].state
               \/ row'[e].state \in {"Retry", "Dead"}
               \/ cur[w] = e /\ failed[w] = {} /\ row'[e].state = "Completed"
    BY <1>0, <1>5 DEF Persist, StateAfter, TypeOK, NoEvent, Row
  <1> QED
    BY <1>1, <1>2, <1>3, <1>4, <1>5
       DEF Next, Pass, Toggle, StartEvent, PassOver, BeginSend, NextRequest, EndSend, Crash, Stall, Resume

\* A worker only ever holds events that were queued.
LEMMA NextHeldIsQueued == TypeOK /\ HeldIsQueued /\ [Next]_vars => HeldIsQueued'
  <1> SUFFICES ASSUME TypeOK, HeldIsQueued, [Next]_vars PROVE HeldIsQueued'
    OBVIOUS
  <1>0. ASSUME NEW e \in Events, Next, row[e].state # "Absent"
        PROVE  row'[e].state # "Absent"
    BY <1>0, RowSteps
  <1>1. ASSUME NEW w \in Workers, Claim(w) PROVE HeldIsQueued'
    <2>1. PICK B \in SUBSET Claimable :
            /\ batch' = [batch EXCEPT ![w] = B]
            /\ row' = [e \in Events |->
                        IF e \in B THEN [row[e] EXCEPT !.state = "Processing", !.wait = Lease]
                        ELSE row[e]]
      BY <1>1 DEF Claim
    <2>2. \A e \in B : e \in Events /\ row'[e].state = "Processing"
      BY <2>1 DEF Claimable, TypeOK, Row
    <2>3. ASSUME NEW v \in Workers, NEW e \in Held(v)' PROVE row'[e].state # "Absent"
      <3>1. CASE e \in B
        BY <2>2, <3>1
      <3>2. CASE e \notin B
        <4>1. e \in Held(v) /\ e \in Events
          <5>1. cur' = cur /\ batch'[v] \subseteq batch[v] \union B
            BY <1>1, <2>1 DEF Claim, TypeOK
          <5> QED
            BY <2>3, <3>2, <5>1 DEF Held, TypeOK, NoEvent
        <4>2. row'[e] = row[e]
          BY <2>1, <3>2, <4>1
        <4> QED
          BY <4>1, <4>2 DEF HeldIsQueued
      <3> QED
        BY <3>1, <3>2
    <2> QED
      BY <1>1, <2>3 DEF Claim, HeldIsQueued
  <1>2. ASSUME Next, \A v \in Workers : Held(v)' \subseteq Held(v),
               \A v \in Workers : chan'[v] # NoChannel => cur'[v] # NoEvent
        PROVE  HeldIsQueued'
    <2>1. \A v \in Workers : Held(v) \subseteq Events
      BY DEF Held, TypeOK
    <2> QED
      BY <1>0, <1>2, <2>1 DEF HeldIsQueued
  <1>3. ASSUME NEW w \in Workers, Pass(w), ~Claim(w) PROVE HeldIsQueued'
    <2>1. Next
      BY <1>3 DEF Next
    <2>2. \A v \in Workers : Held(v)' \subseteq Held(v)
      <3>1. CASE StartEvent(w)
        <4>1. PICK e \in batch[w] : /\ cur' = [cur EXCEPT ![w] = e]
                                   /\ batch' = [batch EXCEPT ![w] = @ \ {e}]
          BY <3>1 DEF StartEvent
        <4> QED
          BY <4>1 DEF Held, TypeOK
      <3>2. CASE Persist(w)
        BY <3>2 DEF Persist, DropLocals, Held, TypeOK
      <3>3. CASE UNCHANGED <<batch, cur>>
        BY <3>3 DEF Held
      <3> QED
        BY <1>3, <3>1, <3>2, <3>3 DEF Pass, PassOver, BeginSend, NextRequest, EndSend
    <2>3. \A v \in Workers : chan'[v] # NoChannel => cur'[v] # NoEvent
      BY <1>3, OutboxAssumption
         DEF Pass, StartEvent, PassOver, BeginSend, NextRequest, EndSend, Persist, DropLocals,
             HeldIsQueued, TypeOK, NoEvent, NoChannel
    <2> QED
      BY <1>2, <2>1, <2>2, <2>3
  <1>4. ASSUME NEW w \in Workers, Crash(w) PROVE HeldIsQueued'
    <2>1. Next
      BY <1>4 DEF Next
    <2>2. \A v \in Workers : Held(v)' \subseteq Held(v)
      BY <1>4 DEF Crash, DropLocals, Held, TypeOK
    <2>3. \A v \in Workers : chan'[v] # NoChannel => cur'[v] # NoEvent
      BY <1>4 DEF Crash, DropLocals, HeldIsQueued, TypeOK
    <2> QED
      BY <1>2, <2>1, <2>2, <2>3
  <1>5. ASSUME Next, UNCHANGED <<batch, cur, chan>> PROVE HeldIsQueued'
    BY <1>2, <1>5 DEF Held, HeldIsQueued
  <1>6. CASE UNCHANGED vars
    BY <1>6 DEF vars, session, HeldIsQueued, Held
  <1> QED
    BY <1>1, <1>3, <1>4, <1>5, <1>6
       DEF Next, Enqueue, Toggle, Tick, Stall, Resume, session

\* Switching a channel off removes it from steady, queueing takes what is on.
LEMMA NextSteadyIsEnabled == TypeOK /\ SteadyIsEnabled /\ [Next]_vars => SteadyIsEnabled'
  <1> SUFFICES ASSUME TypeOK, SteadyIsEnabled, [Next]_vars PROVE SteadyIsEnabled'
    OBVIOUS
  <1>1. ASSUME NEW e \in Events, Enqueue(e) PROVE SteadyIsEnabled'
    BY <1>1 DEF Enqueue, SteadyIsEnabled, TypeOK
  <1>2. ASSUME NEW c \in Switchable, Toggle(c) PROVE SteadyIsEnabled'
    BY <1>2 DEF Toggle, SteadyIsEnabled, TypeOK
  <1>3. CASE UNCHANGED <<steady, enabled>>
    BY <1>3 DEF SteadyIsEnabled
  <1> QED
    BY <1>1, <1>2, <1>3
       DEF Next, Pass, Tick, Claim, StartEvent, PassOver, BeginSend, NextRequest, EndSend, Persist,
           Crash, Stall, Resume, vars

\* Every channel a pass is done with is accounted for, whichever the step.
LEMMA NextPassAccounts == OutboxInv /\ [Next]_vars => PassAccountsForChannels'
  <1> SUFFICES ASSUME OutboxInv, [Next]_vars PROVE PassAccountsForChannels'
    OBVIOUS
  <1> USE DEF OutboxInv
  <1>1. ASSUME NEW e \in Events, Enqueue(e) PROVE PassAccountsForChannels'
    <2>1. \A w \in Workers : cur[w] # NoEvent => cur[w] # e
      BY <1>1 DEF Enqueue, HeldIsQueued, Held
    <2>2. \A w \in Workers : cur[w] # NoEvent => steady'[cur[w]] = steady[cur[w]]
      BY <1>1, <2>1 DEF Enqueue, TypeOK
    <2> QED
      BY <1>1, <2>2 DEF Enqueue, session, PassAccountsForChannels
  <1>2. ASSUME NEW c \in Switchable, Toggle(c) PROVE PassAccountsForChannels'
    <2>1. \A e \in Events : steady'[e] \subseteq steady[e]
      BY <1>2 DEF Toggle, TypeOK
    <2> QED
      BY <1>2, <2>1 DEF Toggle, session, PassAccountsForChannels, TypeOK, NoEvent
  <1>3. ASSUME NEW w \in Workers, StartEvent(w) PROVE PassAccountsForChannels'
    <2>1. todo' = [todo EXCEPT ![w] = Channels]
          /\ \A v \in Workers \ {w} : cur'[v] = cur[v]
      BY <1>3 DEF StartEvent, TypeOK
    <2> QED
      BY <1>3, <2>1 DEF StartEvent, PassAccountsForChannels, TypeOK
  <1>4. ASSUME NEW w \in Workers, NEW c \in Channels, PassOver(w, c)
        PROVE  PassAccountsForChannels'
    <2>1. c \in steady[cur[w]] /\ c \in Accepts[cur[w]] => c \in delivered[cur[w]]
      BY <1>4 DEF PassOver, Wanted, SteadyIsEnabled, TypeOK, NoEvent
    <2> QED
      BY <1>4, <2>1 DEF PassOver, PassAccountsForChannels, TypeOK
  <1>5. ASSUME NEW w \in Workers, NEW c \in Channels, BeginSend(w, c)
        PROVE  PassAccountsForChannels'
    BY <1>5, OutboxAssumption
       DEF BeginSend, PassAccountsForChannels, TypeOK, NoChannel
  <1>6. ASSUME NEW w \in Workers, NEW outcome \in Outcomes, EndSend(w, outcome)
        PROVE  PassAccountsForChannels'
    <2>1. \A v \in Workers : wrote[v] \subseteq wrote'[v] /\ failed[v] \subseteq failed'[v]
      BY <1>6 DEF EndSend, TypeOK
    <2>2. chan[w] \in wrote'[w] \/ chan[w] \in failed'[w]
      BY <1>6 DEF EndSend, Outcomes, TypeOK
    <2> QED
      BY <1>6, <2>1, <2>2 DEF EndSend, PassAccountsForChannels, TypeOK
  <1>7. ASSUME NEW w \in Workers, Persist(w) PROVE PassAccountsForChannels'
    <2>1. \A e \in Events : delivered[e] \subseteq delivered'[e]
      BY <1>7 DEF Persist, TypeOK
    <2> QED
      BY <1>7, <2>1 DEF Persist, DropLocals, PassAccountsForChannels, TypeOK, NoEvent
  <1>8. ASSUME NEW w \in Workers, Crash(w) PROVE PassAccountsForChannels'
    BY <1>8 DEF Crash, DropLocals, PassAccountsForChannels, TypeOK
  <1>9. CASE UNCHANGED <<cur, todo, chan, wrote, failed, steady, delivered>>
    BY <1>9 DEF PassAccountsForChannels
  <1> QED
    BY <1>1, <1>2, <1>3, <1>4, <1>5, <1>6, <1>7, <1>8, <1>9
       DEF Next, Pass, Tick, Claim, NextRequest, Stall, Resume, session, vars

\* A pass completes an event only when every channel is accounted for and none
\* has failed, so each required one is among the successes it commits.
LEMMA NextCompleted == OutboxInv /\ [Next]_vars => CompletedIsDelivered'
  <1> SUFFICES ASSUME OutboxInv, [Next]_vars, NEW e \in Events,
                      row'[e].state = "Completed",
                      NEW c \in Channels, c \in steady'[e], c \in Accepts[e]
               PROVE  c \in delivered'[e]
    BY OutboxAssumption DEF CompletedIsDelivered
  <1> USE DEF OutboxInv
  <1>1. CASE row[e].state = "Completed"
    <2>1. steady'[e] \subseteq steady[e]
      BY <1>1 DEF Next, Pass, Enqueue, Toggle, Tick, Claim, StartEvent, PassOver, BeginSend, NextRequest,
                  EndSend, Persist, Crash, Stall, Resume, vars, TypeOK
    <2>2. delivered[e] \subseteq delivered'[e]
      <3>1. ASSUME NEW w \in Workers, Persist(w) PROVE delivered[e] \subseteq delivered'[e]
        BY <3>1 DEF Persist, TypeOK
      <3>2. CASE delivered' = delivered
        BY <3>2
      <3> QED
        BY <3>1, <3>2 DEF Next, Pass, Enqueue, Toggle, Tick, Claim, StartEvent, PassOver,
                          BeginSend, NextRequest, EndSend, Crash, Stall, Resume, vars
    <2> QED
      BY <1>1, <2>1, <2>2 DEF CompletedIsDelivered
  <1>2. CASE row[e].state # "Completed"
    <2>1. Next
      BY <1>2 DEF vars
    <2>2. PICK w \in Workers : Persist(w) /\ cur[w] = e /\ failed[w] = {}
      BY <1>2, <2>1, RowSteps
    <2>3. c \in steady[e] /\ c \notin todo[w] /\ c # chan[w]
      BY <2>2, OutboxAssumption DEF Persist, NoChannel
    <2>4. c \in delivered[e] \/ c \in wrote[w]
      BY <2>2, <2>3 DEF PassAccountsForChannels, Persist
    <2> QED
      BY <2>2, <2>4 DEF Persist, TypeOK
  <1> QED
    BY <1>1, <1>2

-----------------------------------------------------------------------------
LEMMA InductiveOutboxInv == OutboxInv /\ [Next]_vars => OutboxInv'
  BY NextTypeOK, NextHeldIsQueued, NextSteadyIsEnabled, NextPassAccounts, NextCompleted
     DEF OutboxInv

\* The tables and every worker's session keep their types, with any number of
\* workers, crashes and suspensions.
THEOREM OutboxTypeOK == Spec => []TypeOK
  <1>1. OutboxInv => TypeOK
    BY DEF OutboxInv
  <1> QED
    BY <1>1, InitOutboxInv, InductiveOutboxInv, PTL DEF Spec

\* process_outbox never marks an event Completed while a channel that had to
\* receive it did not: whatever the lease, the limits, the crashes and the
\* overlaps of two passes over the same event.
THEOREM OutboxCompletedIsDelivered == Spec => []CompletedIsDelivered
  <1>1. OutboxInv => CompletedIsDelivered
    BY DEF OutboxInv
  <1> QED
    BY <1>1, InitOutboxInv, InductiveOutboxInv, PTL DEF Spec

-----------------------------------------------------------------------------
(* The lease                                                               *)

\* What a worker holds is leased, but for events whose lease ended on it.
Leased(w) ==
    /\ \A e \in Held(w) \ outlived : row[e].state = "Processing" /\ row[e].wait > 0
    /\ cur[w] \notin batch[w]

LeaseInv ==
    /\ OutboxInv
    /\ \A w \in Workers : Leased(w)
    /\ ExclusiveClaim
    /\ RecordedNeverResent

\* Steps that leave the rows that are held alone, and let no worker hold more.
LEMMA HeldLess ==
    ASSUME LeaseInv, \A w \in Workers : Held(w)' \subseteq Held(w), outlived' = outlived,
           \A w \in Workers : \A e \in Held(w)' : row'[e] = row[e],
           \A w \in Workers : cur'[w] \notin batch'[w]
    PROVE  (\A w \in Workers : Leased(w))' /\ ExclusiveClaim'
  <1>1. ASSUME NEW w \in Workers PROVE Leased(w)'
    BY DEF LeaseInv, Leased
  <1>2. ExclusiveClaim'
    BY DEF LeaseInv, ExclusiveClaim
  <1> QED
    BY <1>1, <1>2

\* The steps of a pass after the claim, and the death of a worker.
LEMMA PassLeased ==
    ASSUME LeaseInv, NEW w \in Workers, (Pass(w) /\ ~Claim(w)) \/ Crash(w)
    PROVE  (\A v \in Workers : Leased(v))' /\ ExclusiveClaim'
  <1> USE DEF LeaseInv, OutboxInv, TypeOK
  <1>1. outlived' = outlived
    BY DEF Pass, StartEvent, PassOver, BeginSend, NextRequest, EndSend, Persist, Crash
  <1>2. \A v \in Workers : v # w => cur'[v] = cur[v] /\ batch'[v] = batch[v]
    BY DEF Pass, StartEvent, PassOver, BeginSend, NextRequest, EndSend, Persist, DropLocals, Crash
  <1>3. CASE StartEvent(w)
    <2>1. PICK e \in batch[w] : /\ cur' = [cur EXCEPT ![w] = e]
                                /\ batch' = [batch EXCEPT ![w] = @ \ {e}]
      BY <1>3 DEF StartEvent
    <2>2. cur'[w] = e /\ batch'[w] = batch[w] \ {e} /\ row' = row
      BY <1>3, <2>1 DEF StartEvent
    <2>3. \A v \in Workers : Held(v)' \subseteq Held(v) /\ cur'[v] \notin batch'[v]
      BY <1>2, <2>1, <2>2 DEF Held, Leased
    <2> QED
      BY <1>1, <2>2, <2>3, HeldLess
  <1>4. CASE Persist(w)
    <2>1. /\ cur[w] \in Events /\ cur[w] \in Held(w)
          /\ cur'[w] = NoEvent /\ batch' = batch
          /\ \A e \in Events : e # cur[w] => row'[e] = row[e]
      BY <1>4 DEF Persist, DropLocals, Held
    <2>2. NoEvent \notin batch[w]
      BY OutboxAssumption DEF NoEvent
    <2>3. /\ Held(w)' = batch[w] /\ \A v \in Workers : v # w => Held(v)' = Held(v)
          /\ \A v \in Workers : cur'[v] \notin batch'[v]
      BY <1>2, <2>1, <2>2 DEF Held, Leased
    <2>4. ASSUME NEW v \in Workers, NEW e \in Held(v)', e \notin outlived PROVE row'[e] = row[e]
      <3>1. e \in Events /\ e # cur[w]
        <4>1. CASE v = w
          BY <2>1, <2>3, <2>4, <4>1 DEF Leased
        <4>2. CASE v # w
          <5>1. e \in Held(v) /\ e \in Events
            BY <2>3, <2>4, <4>2 DEF Held
          <5> QED
            BY <2>1, <2>4, <4>2, <5>1 DEF ExclusiveClaim
        <4> QED
          BY <4>1, <4>2
      <3> QED
        BY <2>1, <3>1
    <2>5. \A v \in Workers : Held(v)' \subseteq Held(v)
      BY <2>3 DEF Held
    <2>6. \A v \in Workers : Leased(v)'
      BY <1>1, <2>3, <2>4, <2>5 DEF Leased
    <2>7. ExclusiveClaim'
      BY <1>1, <2>5 DEF ExclusiveClaim
    <2> QED
      BY <2>6, <2>7
  <1>5. CASE Crash(w)
    <2>1. cur'[w] = NoEvent /\ batch'[w] = {} /\ row' = row
      BY <1>5 DEF Crash, DropLocals
    <2>2. \A v \in Workers : Held(v)' \subseteq Held(v) /\ cur'[v] \notin batch'[v]
      BY <1>2, <2>1 DEF Held, Leased
    <2> QED
      BY <1>1, <2>1, <2>2, HeldLess
  <1>6. CASE UNCHANGED <<row, cur, batch>>
    <2>1. \A v \in Workers : Held(v)' \subseteq Held(v) /\ cur'[v] \notin batch'[v]
      BY <1>6 DEF Held, Leased
    <2> QED
      BY <1>1, <1>6, <2>1, HeldLess
  <1> QED
    BY <1>3, <1>4, <1>5, <1>6 DEF Pass, PassOver, BeginSend, NextRequest, EndSend

\* The claim takes no row that somebody holds, unless its lease has ended: and
\* then the event stays among the outlived.
LEMMA ClaimLeased ==
    ASSUME LeaseInv, NEW w \in Workers, Claim(w)
    PROVE  (\A v \in Workers : Leased(v))' /\ ExclusiveClaim' /\ RecordedNeverResent'
  <1> USE DEF LeaseInv, OutboxInv, TypeOK
  <1>1. PICK B \in SUBSET Claimable :
            /\ batch' = [batch EXCEPT ![w] = B]
            /\ row' = [e \in Events |->
                        IF e \in B THEN [row[e] EXCEPT !.state = "Processing", !.wait = Lease]
                        ELSE row[e]]
            /\ outlived' = outlived \ {e \in B : \A v \in Workers : e \notin Held(v)}
    BY DEF Claim
  <1>2. /\ B \subseteq Events /\ batch'[w] = B /\ cur' = cur /\ chan' = chan /\ delivered' = delivered
        /\ cur[w] = NoEvent
        /\ \A v \in Workers : v # w => batch'[v] = batch[v]
    BY <1>1 DEF Claim, Busy, Held, Claimable
  <1>3. Held(w)' = B /\ \A v \in Workers : v # w => Held(v)' = Held(v)
    BY <1>2 DEF Held
  <1>4. ASSUME NEW e \in Events PROVE row'[e] = IF e \in B THEN [row[e] EXCEPT !.state = "Processing", !.wait = Lease]
                                                ELSE row[e]
    BY <1>1, <1>4
  <1>5. ASSUME NEW e \in B PROVE row'[e].state = "Processing" /\ row'[e].wait > 0
    <2>1. \A x \in Row : LET y == [x EXCEPT !.state = "Processing", !.wait = Lease]
                         IN  y.state = "Processing" /\ y.wait > 0
      BY OutboxAssumption DEF Row
    <2>2. row[e] \in Row /\ e \in Events
      BY <1>2, <1>5
    <2> QED
      BY <1>4, <1>5, <2>1, <2>2
  <1>6. ASSUME NEW v \in Workers, NEW e \in Held(v), e \notin outlived' PROVE e \notin B /\ e \notin outlived
    <2>1. e \in Events
      BY <1>6 DEF Held
    <2>2. e \notin outlived
      BY <1>1, <1>6
    <2>3. row[e].wait > 0
      BY <1>6, <2>2 DEF Leased
    <2>4. e \notin B
      <3>1. row[e].wait \in Nat
        BY <2>1, RowFields
      <3>2. e \in Claimable => row[e].wait = 0
        BY DEF Claimable
      <3> QED
        BY <2>3, <3>1, <3>2
    <2> QED
      BY <2>2, <2>4
  <1>7. ASSUME NEW v \in Workers PROVE Leased(v)'
    <2>1. CASE v = w
      BY <1>2, <1>3, <1>5, <2>1, OutboxAssumption DEF Leased, NoEvent
    <2>2. CASE v # w
      <3>1. ASSUME NEW e \in Held(v), e \notin outlived' PROVE row'[e] = row[e] /\ e \notin outlived
        BY <1>4, <1>6, <3>1 DEF Held
      <3> QED
        BY <1>2, <1>3, <2>2, <3>1 DEF Leased
    <2> QED
      BY <2>1, <2>2
  <1>8. ExclusiveClaim'
    <2> SUFFICES ASSUME NEW u \in Workers, NEW v \in Workers, u # v, NEW e, e \in Held(u)', e \in Held(v)',
                        e \notin outlived'
                 PROVE  FALSE
      BY DEF ExclusiveClaim
    <2>1. CASE u = w
      BY <1>3, <1>6, <2>1
    <2>2. CASE v = w
      BY <1>3, <1>6, <2>2
    <2>3. CASE u # w /\ v # w
      BY <1>3, <1>6, <2>3 DEF ExclusiveClaim
    <2> QED
      BY <2>1, <2>2, <2>3
  <1>9. RecordedNeverResent'
    <2> SUFFICES ASSUME NEW v \in Workers, chan[v] # NoChannel, cur[v] \notin outlived'
                 PROVE  chan[v] \notin delivered[cur[v]]
      BY <1>2 DEF RecordedNeverResent
    <2>1. cur[v] \in Held(v)
      BY DEF HeldIsQueued, Held
    <2> QED
      BY <1>6, <2>1 DEF RecordedNeverResent
  <1> QED
    BY <1>7, <1>8, <1>9

\* Time: a lease that ends in somebody's hands puts the event among the outlived.
LEMMA TickLeased ==
    ASSUME LeaseInv, Tick
    PROVE  (\A v \in Workers : Leased(v))' /\ ExclusiveClaim' /\ RecordedNeverResent'
  <1> USE DEF LeaseInv, OutboxInv, TypeOK
  <1>1. /\ batch' = batch /\ cur' = cur /\ chan' = chan /\ delivered' = delivered
        /\ row' = [e \in Events |-> [row[e] EXCEPT !.wait = IF @ > 0 THEN @ - 1 ELSE 0]]
        /\ outlived \subseteq outlived'
        /\ \A e \in Events : LeaseEnds(e) => e \in outlived'
    BY DEF Tick
  <1>2. \A v \in Workers : Held(v)' = Held(v)
    BY <1>1 DEF Held
  <1>3. ASSUME NEW v \in Workers, NEW e \in Held(v), e \notin outlived'
        PROVE  row'[e].state = "Processing" /\ row'[e].wait > 0
    <2>1. e \in Events /\ e \notin outlived /\ ~LeaseEnds(e)
      BY <1>1, <1>3 DEF Held
    <2>2. row[e].state = "Processing" /\ row[e].wait > 0
      BY <1>3, <2>1 DEF Leased
    <2>3. row[e].wait # 1
      BY <1>3, <2>1, <2>2 DEF LeaseEnds
    <2>4. row[e] \in Row /\ row[e].wait \in Nat
      BY <2>1, RowFields
    <2>5. row'[e].state = row[e].state /\ row'[e].wait = (IF row[e].wait > 0 THEN row[e].wait - 1 ELSE 0)
      BY <1>1, <2>1, <2>4 DEF Row
    <2> QED
      BY <2>2, <2>3, <2>4, <2>5
  <1>4. \A v \in Workers : Leased(v)'
    BY <1>1, <1>2, <1>3 DEF Leased
  <1>5. ExclusiveClaim'
    BY <1>1, <1>2 DEF ExclusiveClaim
  <1>6. RecordedNeverResent'
    BY <1>1 DEF RecordedNeverResent
  <1> QED
    BY <1>4, <1>5, <1>6

\* A call in progress is for a channel without a recorded success, and nobody
\* else can record one.
LEMMA NextNeverResent ==
    ASSUME LeaseInv, NEW w \in Workers, (Pass(w) /\ ~Claim(w)) \/ Crash(w)
    PROVE  RecordedNeverResent'
  <1> USE DEF LeaseInv, OutboxInv, TypeOK
  <1>1. outlived' = outlived
    BY DEF Pass, StartEvent, PassOver, BeginSend, NextRequest, EndSend, Persist, Crash
  <1> SUFFICES ASSUME NEW v \in Workers, chan'[v] # NoChannel, cur'[v] \notin outlived
               PROVE  chan'[v] \notin delivered'[cur'[v]]
    BY <1>1 DEF RecordedNeverResent
  <1>2. CASE Persist(w)
    <2>1. v # w /\ cur'[v] = cur[v] /\ chan'[v] = chan[v]
      BY <1>2 DEF Persist, DropLocals
    <2>2. cur[v] \in Held(v) /\ cur[w] \in Held(w)
      BY <1>2, <2>1 DEF Persist, HeldIsQueued, Held
    <2>3. cur[v] # cur[w]
      BY <2>1, <2>2 DEF ExclusiveClaim
    <2>4. delivered'[cur[v]] = delivered[cur[v]]
      BY <1>2, <2>3 DEF Persist
    <2> QED
      BY <2>1, <2>4 DEF RecordedNeverResent
  <1>3. ASSUME NEW c \in Channels, BeginSend(w, c) PROVE chan'[v] \notin delivered'[cur'[v]]
    <2>1. cur' = cur /\ delivered' = delivered /\ chan' = [chan EXCEPT ![w] = c] /\ c \notin delivered[cur[w]]
      BY <1>3 DEF BeginSend, Wanted
    <2> QED
      BY <2>1 DEF RecordedNeverResent
  <1>4. CASE StartEvent(w)
    <2>1. v # w
      BY <1>4, OutboxAssumption DEF StartEvent, HeldIsQueued
    <2>2. cur'[v] = cur[v] /\ chan'[v] = chan[v] /\ delivered' = delivered
      BY <1>4, <2>1 DEF StartEvent
    <2> QED
      BY <2>2 DEF RecordedNeverResent
  <1>5. CASE (\E c \in Channels : PassOver(w, c)) \/ NextRequest(w) \/ (\E outcome \in Outcomes : EndSend(w, outcome))
    <2>1. cur' = cur /\ delivered' = delivered /\ chan'[v] = chan[v]
      BY <1>5 DEF PassOver, NextRequest, EndSend
    <2> QED
      BY <2>1 DEF RecordedNeverResent
  <1>6. CASE Crash(w)
    <2>1. v # w /\ cur'[v] = cur[v] /\ chan'[v] = chan[v] /\ delivered' = delivered
      BY <1>6 DEF Crash, DropLocals
    <2> QED
      BY <2>1 DEF RecordedNeverResent
  <1> QED
    BY <1>2, <1>3, <1>4, <1>5, <1>6 DEF Pass

LEMMA InitLeaseInv == Init => LeaseInv
  <1> SUFFICES ASSUME Init PROVE LeaseInv
    OBVIOUS
  <1>1. \A w \in Workers : Held(w) = {} /\ batch[w] = {} /\ chan[w] = NoChannel
    BY DEF Init, Held
  <1>2. (\A w \in Workers : Leased(w)) /\ ExclusiveClaim /\ RecordedNeverResent
    BY <1>1 DEF Leased, ExclusiveClaim, RecordedNeverResent
  <1> QED
    BY <1>2, InitOutboxInv DEF LeaseInv

LEMMA NextLeaseInv == LeaseInv /\ [Next]_vars => LeaseInv'
  <1> SUFFICES ASSUME LeaseInv, [Next]_vars PROVE LeaseInv'
    OBVIOUS
  <1>1. OutboxInv /\ OutboxInv'
    BY InductiveOutboxInv DEF LeaseInv
  <1>2. ASSUME NEW e \in Events, Enqueue(e) PROVE LeaseInv'
    <2>1. /\ row[e].state = "Absent" /\ delivered' = delivered /\ outlived' = outlived
          /\ batch' = batch /\ cur' = cur /\ chan' = chan
          /\ \A d \in Events : d # e => row'[d] = row[d]
      BY <1>1, <1>2 DEF Enqueue, session, OutboxInv, TypeOK
    <2>2. \A v \in Workers : Held(v)' = Held(v)
      BY <2>1 DEF Held
    <2>3. \A v \in Workers : \A d \in Held(v) : d \in Events /\ d # e
      BY <1>1, <2>1 DEF OutboxInv, HeldIsQueued, Held, TypeOK
    <2>4. (\A v \in Workers : Leased(v))' /\ ExclusiveClaim'
      BY <2>1, <2>2, <2>3, HeldLess DEF LeaseInv, Leased
    <2>5. RecordedNeverResent'
      BY <2>1 DEF LeaseInv, RecordedNeverResent
    <2> QED
      BY <1>1, <2>4, <2>5 DEF LeaseInv
  <1>3. CASE UNCHANGED <<row, delivered, batch, cur, chan, outlived>>
    BY <1>1, <1>3 DEF LeaseInv, Leased, Held, ExclusiveClaim, RecordedNeverResent
  <1>4. CASE Tick
    BY <1>1, <1>4, TickLeased DEF LeaseInv
  <1>5. ASSUME NEW w \in Workers, Claim(w) PROVE LeaseInv'
    BY <1>1, <1>5, ClaimLeased DEF LeaseInv
  <1>6. ASSUME NEW w \in Workers, (Pass(w) /\ ~Claim(w)) \/ Crash(w) PROVE LeaseInv'
    BY <1>1, <1>6, PassLeased, NextNeverResent DEF LeaseInv
  <1> QED
    BY <1>2, <1>3, <1>4, <1>5, <1>6 DEF Next, Toggle, Stall, Resume, session, vars

\* However many workers there are, whenever they die, are suspended or are slow,
\* and whatever the lease: only an event whose lease ended in the hands of a
\* worker is ever held by two (process_outbox).
THEOREM OutboxExclusiveClaim == Spec => []ExclusiveClaim
  <1>1. LeaseInv => ExclusiveClaim
    BY DEF LeaseInv
  <1> QED
    BY <1>1, InitLeaseInv, NextLeaseInv, PTL DEF Spec

\* And only for such an event may a channel be called whose success is already
\* committed (the prior-delivery check of process_outbox).
THEOREM OutboxNeverResends == Spec => []RecordedNeverResent
  <1>1. LeaseInv => RecordedNeverResent
    BY DEF LeaseInv
  <1> QED
    BY <1>1, InitLeaseInv, NextLeaseInv, PTL DEF Spec
=============================================================================
