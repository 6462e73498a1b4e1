---------------------------- MODULE ServiceProofs ----------------------------
(***************************************************************************)
(* Proofs about SlaClock, for any definitions, priorities, durations and   *)
(* pause states and any sequence of updates, and about EventsServer, for   *)
(* any browsers, users and limits: who missed a signal gets a resync.      *)
(*                                                                         *)
(* BreachIsReal is not inductive by itself: that a flag is deserved        *)
(* follows from where the target is (ClockKept), which follows from the    *)
(* stage of the row being the one the record's state asks for              *)
(* (StageFollowsState).                                                    *)
(***************************************************************************)
EXTENDS MCServices, Sequences, TLAPS

Running(r) == r.stage = "In Progress"
OnHold(r) == r.stage = "Paused"
Alive(r) == r.stage \in Live

\* What ClockKept and BreachIsReal say of one row.
Kept(r, d) ==
    /\ r \in Row
    /\ r.pausedAt <= clock
    /\ r.breached => clock - held >= Duration[d]
    /\ Alive(r) => r.startedAt = 0 /\ r.breachAt = Duration[d] + r.pausedSeconds
    /\ Running(r) => r.pausedSeconds = held
    /\ OnHold(r) => r.pausedSeconds + (clock - r.pausedAt) = held

\* The stage of a live row in a record in state s.
Follows(r, s) ==
    r.stage \in Live =>
        /\ s \notin Ended
        /\ r.stage = IF s \in PauseStates THEN "Paused" ELSE "In Progress"

TimesOK == clock \in Nat /\ held \in Nat

\* The inductive invariant.
SlaInv ==
    /\ TimesOK
    /\ state \in RecordStates /\ priority \in Priorities
    /\ row \in [Definitions -> Row]
    /\ \A d \in Definitions : Kept(row[d], d) /\ Follows(row[d], state)

-----------------------------------------------------------------------------
\* What the proofs use of the assumption on the constants.
LEMMA DurationIsNat == \A d \in Definitions : Duration[d] \in Nat
BY SlaAssumption

LEMMA PausedIsOpen == PauseStates \cap Ended = {} /\ "New" \notin PauseStates
BY SlaAssumption DEF Ended

LEMMA Stage == \A r : Alive(r) <=> Running(r) \/ OnHold(r)
BY DEF Alive, Running, OnHold, Live

LEMMA OneStage == \A r : ~(Running(r) /\ OnHold(r))
BY DEF Running, OnHold

\* The values of a row are numbers.
LEMMA RowTypes ==
    ASSUME NEW r \in Row
    PROVE  /\ r.startedAt \in Nat /\ r.breachAt \in Nat /\ r.pausedAt \in Nat
           /\ r.pausedSeconds \in Nat /\ r.breached \in BOOLEAN
BY DEF Row

\* A row that leaves the live stages needs no accounting any more.
LEMMA EndKeeps ==
    ASSUME NEW d \in Definitions, NEW r, Kept(r, d),
           NEW end \in {"Completed", "Cancelled"}, NEW q, q = [r EXCEPT !.stage = end]
    PROVE  Kept(q, d) /\ ~Alive(q)
<1>1. r \in Row
  BY DEF Kept
<1>2. q \in Row /\ q.pausedAt = r.pausedAt /\ q.breached = r.breached /\ q.stage = end
  BY <1>1 DEF Row, Stages
<1>3. ~Alive(q)
  BY <1>2 DEF Alive, Live
<1>4. Kept(q, d)
  BY <1>2, <1>3, Stage DEF Kept
<1> QED
  BY <1>3, <1>4

\* Pausing counts from now on.
LEMMA PauseKeeps ==
    ASSUME TimesOK, NEW d \in Definitions, NEW r, Kept(r, d), Running(r)
    PROVE  Kept(Pause(r), d) /\ OnHold(Pause(r))
<1> DEFINE q == Pause(r)
<1>1. r \in Row /\ clock \in Nat
  BY DEF Kept, TimesOK
<1>2. /\ q \in Row /\ q.pausedAt = clock /\ q.pausedSeconds = r.pausedSeconds /\ q.breachAt = r.breachAt
      /\ q.startedAt = r.startedAt /\ q.breached = r.breached
  BY <1>1 DEF Row, Stages, Live, Pause
<1>3. OnHold(q) /\ Alive(r)
  BY <1>1, Stage DEF Pause, OnHold, Row
<1> HIDE DEF q
<1>4. r.pausedSeconds + (clock - clock) = r.pausedSeconds /\ clock <= clock
  BY <1>1, RowTypes
<1>5. Kept(q, d)
  BY <1>2, <1>3, <1>4, OneStage DEF Kept
<1> QED
  BY <1>3, <1>5 DEF q

\* Resuming moves the target by the length of the pause.
LEMMA ResumeKeeps ==
    ASSUME TimesOK, NEW d \in Definitions, NEW r, Kept(r, d), OnHold(r)
    PROVE  Kept(Resume(r), d) /\ Running(Resume(r))
<1> DEFINE q == Resume(r)
           gap == clock - r.pausedAt
<1>1. r \in Row /\ clock \in Nat /\ held \in Nat /\ Duration[d] \in Nat
  BY DurationIsNat DEF Kept, TimesOK
<1>2. r.pausedAt <= clock
  BY DEF Kept
<1>3. gap \in Nat /\ r.pausedSeconds + gap \in Nat /\ r.breachAt + gap \in Nat
  BY <1>1, <1>2, RowTypes
<1>4. /\ q.pausedAt = 0 /\ q.pausedSeconds = r.pausedSeconds + gap /\ q.breachAt = r.breachAt + gap
      /\ q.startedAt = r.startedAt /\ q.breached = r.breached
  BY <1>1 DEF Row, Resume
<1>5. q \in Row /\ Running(q)
  <2> HIDE DEF gap
  <2>1. q = [r EXCEPT !.stage = "In Progress", !.pausedAt = 0, !.pausedSeconds = @ + gap, !.breachAt = @ + gap]
    BY DEF Resume, gap
  <2>2. r.pausedSeconds + gap \in Nat /\ r.breachAt + gap \in Nat /\ r.startedAt \in Nat /\ r.breached \in BOOLEAN
    BY <1>1, <1>3, RowTypes
  <2> DEFINE ps == r.pausedSeconds + gap
             ba == r.breachAt + gap
  <2>3. q = [r EXCEPT !.stage = "In Progress", !.pausedAt = 0, !.pausedSeconds = ps, !.breachAt = ba]
    BY <2>1
  <2>4. ps \in Nat /\ ba \in Nat
    BY <2>2
  <2> HIDE DEF ps, ba, q
  <2> QED
    BY <1>1, <2>3, <2>4 DEF Row, Stages, Live, Running
<1>6. r.startedAt = 0 /\ r.breachAt = Duration[d] + r.pausedSeconds /\ r.pausedSeconds + gap = held
  BY Stage DEF Kept
<1> HIDE DEF q
<1>7. q.startedAt = 0 /\ q.breachAt = Duration[d] + q.pausedSeconds /\ q.pausedSeconds = held /\ q.pausedAt <= clock
  BY <1>1, <1>3, <1>4, <1>6, RowTypes
<1>8. Kept(q, d)
  BY <1>4, <1>5, <1>7, OneStage DEF Kept
<1> QED
  BY <1>5, <1>8 DEF q

\* sync_slas keeps the accounting of a row and gives it the stage its record's
\* state asks for.
LEMMA SyncKeeps ==
    ASSUME TimesOK, NEW d \in Definitions, NEW r, NEW s \in RecordStates, Kept(r, d)
    PROVE  Kept(Sync(r, s), d) /\ Follows(Sync(r, s), s)
<1>1. CASE ~Alive(r)
  <2>1. Sync(r, s) = r
    BY <1>1 DEF Sync, Alive
  <2> QED
    BY <1>1, <2>1 DEF Follows, Alive
<1>2. CASE Alive(r) /\ s \in Ended
  <2>1. Sync(r, s) = [r EXCEPT !.stage = EndStage(s)] /\ EndStage(s) \in {"Completed", "Cancelled"}
    BY <1>2 DEF Sync, Alive, EndStage
  <2>2. Kept(Sync(r, s), d) /\ ~Alive(Sync(r, s))
    BY <2>1, EndKeeps
  <2> QED
    BY <2>2 DEF Follows, Alive
<1>3. CASE Running(r) /\ s \in PauseStates
  <2>1. Sync(r, s) = Pause(r)
    BY <1>3, PausedIsOpen DEF Sync, Running, Live
  <2>2. Kept(Pause(r), d) /\ OnHold(Pause(r))
    BY <1>3, PauseKeeps
  <2> QED
    BY <1>3, <2>1, <2>2, PausedIsOpen DEF Follows, OnHold
<1>4. CASE OnHold(r) /\ s \notin PauseStates \cup Ended
  <2>1. Sync(r, s) = Resume(r)
    BY <1>4 DEF Sync, OnHold, Live
  <2>2. Kept(Resume(r), d) /\ Running(Resume(r))
    BY <1>4, ResumeKeeps
  <2> QED
    BY <1>4, <2>1, <2>2 DEF Follows, Running
<1>5. CASE Running(r) /\ s \notin PauseStates \cup Ended
  <2>1. Sync(r, s) = r
    BY <1>5 DEF Sync, Running, Live
  <2> QED
    BY <1>5, <2>1 DEF Follows, Running
<1>6. CASE OnHold(r) /\ s \in PauseStates
  <2>1. Sync(r, s) = r
    BY <1>6, PausedIsOpen DEF Sync, OnHold, Live
  <2> QED
    BY <1>6, <2>1, PausedIsOpen DEF Follows, OnHold
<1> QED
  BY <1>1, <1>2, <1>3, <1>4, <1>5, <1>6, Stage

\* A row attached at the creation's time, with the time held so far.
LEMMA NewRowKept ==
    ASSUME TimesOK, NEW d \in Definitions
    PROVE  Kept(NewRow(d, 0, held), d) /\ Running(NewRow(d, 0, held))
<1> DEFINE q == NewRow(d, 0, held)
           target == 0 + Duration[d] + held
<1>1. target \in Nat /\ target = Duration[d] + held /\ held \in Nat /\ clock \in Nat /\ 0 <= clock
  BY DurationIsNat DEF TimesOK
<1>2. q = [NoRow EXCEPT !.stage = "In Progress", !.startedAt = 0, !.pausedSeconds = held, !.breachAt = target]
  BY DEF NewRow
<1> HIDE DEF q, target
<1>3. q = [stage |-> "In Progress", startedAt |-> 0, breachAt |-> target, pausedAt |-> 0,
           pausedSeconds |-> held, breached |-> FALSE]
  BY <1>2 DEF NoRow
<1>4. q \in Row /\ Running(q)
  BY <1>1, <1>3 DEF Row, Stages, Live, Running
<1>5. q.startedAt = 0 /\ q.breachAt = target /\ q.pausedAt = 0 /\ q.pausedSeconds = held /\ ~q.breached
  BY <1>3
<1>6. Kept(q, d)
  BY <1>1, <1>4, <1>5, OneStage DEF Kept
<1> QED
  BY <1>4, <1>6 DEF q

\* The extremes of a set with one value.
LEMMA OneValue ==
    ASSUME NEW S, NEW v \in Nat, S # {}, \A t \in S : t = v
    PROVE  Earliest(S) = v /\ Longest(S) = v
<1>1. S = {v}
  OBVIOUS
<1> QED
  BY <1>1 DEF Earliest, Longest

\* retarget_slas: every row it cancels, attaches or leaves alone is accounted
\* for; all the rows it replaces agree on the start and on the time paused.
LEMMA ReattachKeeps ==
    ASSUME TimesOK, NEW rows, NEW p \in Priorities,
           \A e \in Definitions : Kept(rows[e], e),
           Replaced(rows, p) # {}, NEW d \in Definitions
    PROVE  Kept(Reattached(rows, Replaced(rows, p), p, d), d)
<1> DEFINE out == Replaced(rows, p)
           starts == {rows[e].startedAt : e \in out}
           pauses == {PausedTotal(rows[e]) : e \in out}
<1>1. \A e \in out : rows[e].startedAt = 0 /\ PausedTotal(rows[e]) = held
  <2> SUFFICES ASSUME NEW e \in out PROVE rows[e].startedAt = 0 /\ PausedTotal(rows[e]) = held
    OBVIOUS
  <2>1. e \in Definitions /\ Alive(rows[e])
    BY DEF Replaced, Alive
  <2>2. Kept(rows[e], e) /\ rows[e] \in Row
    BY <2>1 DEF Kept
  <2>3. CASE Running(rows[e])
    <3>1. PausedTotal(rows[e]) = rows[e].pausedSeconds + 0
      BY <2>3 DEF PausedTotal, Running
    <3> QED
      BY <2>1, <2>2, <2>3, <3>1, RowTypes DEF Kept
  <2>4. CASE OnHold(rows[e])
    <3>1. PausedTotal(rows[e]) = rows[e].pausedSeconds + (clock - rows[e].pausedAt)
      BY <2>4 DEF PausedTotal, OnHold
    <3> QED
      BY <2>1, <2>2, <2>4, <3>1 DEF Kept
  <2> QED
    BY <2>1, <2>3, <2>4, Stage
<1>2. Earliest(starts) = 0
  <2>1. starts # {} /\ \A t \in starts : t = 0
    BY <1>1
  <2> QED
    BY <2>1, OneValue
<1>3. Longest(pauses) = held
  <2>1. pauses # {} /\ \A t \in pauses : t = held
    BY <1>1
  <2> QED
    BY <2>1, OneValue DEF TimesOK
<1>4. Kept(rows[d], d) /\ rows[d] \in Row
  BY DEF Kept
<1>5. CASE d \in out
  <2>1. Reattached(rows, out, p, d) = [rows[d] EXCEPT !.stage = "Cancelled"]
    BY <1>5 DEF Reattached
  <2> QED
    BY <1>4, <2>1, EndKeeps
<1>6. CASE d \notin out /\ Applies(d, p) /\ Missing(rows[d])
  <2>1. Reattached(rows, out, p, d) = NewRow(d, 0, held)
    BY <1>2, <1>3, <1>6 DEF Reattached
  <2> QED
    BY <2>1, NewRowKept
<1>7. CASE d \notin out /\ ~(Applies(d, p) /\ Missing(rows[d]))
  BY <1>4, <1>7 DEF Reattached
<1> QED
  BY <1>5, <1>6, <1>7

-----------------------------------------------------------------------------
LEMMA SlaInit == Init => SlaInv
<1> SUFFICES ASSUME Init PROVE SlaInv
  OBVIOUS
<1>1. TimesOK /\ state \in RecordStates /\ priority \in Priorities
  BY DEF Init, TimesOK, RecordStates
<1>2. ASSUME NEW d \in Definitions
      PROVE  Kept(row[d], d) /\ Follows(row[d], state)
  <2>1. CASE Applies(d, priority)
    <3>1. row[d] = NewRow(d, 0, 0)
      BY <2>1 DEF Init
    <3>2. held = 0 /\ state = "New" /\ Kept(NewRow(d, 0, held), d) /\ Running(NewRow(d, 0, held))
      BY <1>1, NewRowKept DEF Init
    <3> QED
      BY <3>1, <3>2, PausedIsOpen DEF Follows, Running, Ended
  <2>2. CASE ~Applies(d, priority)
    <3>1. row[d] = NoRow
      BY <2>2 DEF Init
    <3>2. NoRow \in Row /\ ~Alive(NoRow)
      BY DEF NoRow, Row, Stages, Alive, Live
    <3>3. NoRow.pausedAt = 0 /\ ~NoRow.breached /\ 0 <= clock
      BY DEF NoRow, Init
    <3> QED
      BY <3>1, <3>2, <3>3, Stage DEF Kept, Follows, Alive
  <2> QED
    BY <2>1, <2>2
<1>3. row \in [Definitions -> Row]
  BY <1>2 DEF Init, Kept
<1> QED
  BY <1>1, <1>2, <1>3 DEF SlaInv

LEMMA SlaUpdate ==
    ASSUME SlaInv, NEW s \in RecordStates, NEW p \in Priorities, Update(s, p)
    PROVE  SlaInv'
<1> DEFINE synced == [d \in Definitions |-> Sync(row[d], s)]
<1>1. TimesOK /\ TimesOK' /\ state' = s /\ priority' = p /\ clock' = clock /\ held' = held
  BY DEF SlaInv, Update, TimesOK
<1>2. \A d \in Definitions : Kept(synced[d], d) /\ Follows(synced[d], s)
  BY <1>1, SyncKeeps DEF SlaInv
<1>3. ASSUME NEW d \in Definitions
      PROVE  Kept(row'[d], d) /\ Follows(row'[d], s)
  <2>1. CASE p = priority \/ Replaced(synced, p) = {}
    <3>1. row' = synced
      BY <2>1 DEF Update, Retarget
    <3> QED
      BY <1>2, <3>1
  <2>2. CASE p # priority /\ Replaced(synced, p) # {}
    <3> DEFINE r == Reattached(synced, Replaced(synced, p), p, d)
    <3>1. row'[d] = Sync(r, s)
      BY <2>2 DEF Update, Retarget
    <3>2. Kept(r, d)
      BY <1>1, <1>2, <2>2, ReattachKeeps
    <3> HIDE DEF r
    <3> QED
      BY <1>1, <3>1, <3>2, SyncKeeps
  <2> QED
    BY <2>1, <2>2
<1>4. row' \in [Definitions -> Row]
  <2>1. row' = [d \in Definitions |-> row'[d]]
    BY DEF Update, Retarget
  <2> QED
    BY <1>3, <2>1 DEF Kept
<1>5. ASSUME NEW d \in Definitions
      PROVE  Kept(row[d], d)' /\ Follows(row[d], state)'
  BY <1>1, <1>3 DEF Kept, Follows, Alive, Running, OnHold
<1> QED
  BY <1>1, <1>4, <1>5 DEF SlaInv

\* Flagging a row whose target has passed: the target is a duration of working
\* time after the creation.
LEMMA SlaBreaches == SlaInv /\ ProcessSlaBreaches => SlaInv'
<1> SUFFICES ASSUME SlaInv, ProcessSlaBreaches PROVE SlaInv'
  OBVIOUS
<1>1. TimesOK /\ TimesOK' /\ clock' = clock /\ held' = held /\ state' = state /\ priority' = priority
  BY DEF SlaInv, ProcessSlaBreaches, TimesOK
<1>2. ASSUME NEW d \in Definitions
      PROVE  Kept(row'[d], d) /\ Follows(row'[d], state)
  <2>1. Kept(row[d], d) /\ Follows(row[d], state) /\ row[d] \in Row
    BY DEF SlaInv
  <2>2. CASE Due(d)
    <3>1. row'[d] = [row[d] EXCEPT !.breached = TRUE]
      BY <2>2 DEF ProcessSlaBreaches
    <3>2. Running(row[d]) /\ row[d].breachAt <= clock
      BY <2>2 DEF Due, Running
    <3>3. row[d].breachAt = Duration[d] + held
      BY <2>1, <3>2, Stage DEF Kept
    <3>4. clock - held >= Duration[d]
      BY <1>1, <3>2, <3>3, DurationIsNat DEF TimesOK
    <3> DEFINE q == [row[d] EXCEPT !.breached = TRUE]
    <3>5. /\ q \in Row /\ q.stage = row[d].stage /\ q.pausedAt = row[d].pausedAt /\ q.startedAt = row[d].startedAt
          /\ q.breachAt = row[d].breachAt /\ q.pausedSeconds = row[d].pausedSeconds
      BY <2>1 DEF Row
    <3>6. (Alive(q) <=> Alive(row[d])) /\ (Running(q) <=> Running(row[d])) /\ (OnHold(q) <=> OnHold(row[d]))
      BY <3>5 DEF Alive, Running, OnHold
    <3> HIDE DEF q
    <3>7. Kept(q, d)
      BY <2>1, <3>4, <3>5, <3>6 DEF Kept
    <3>8. Follows(q, state)
      BY <2>1, <3>5 DEF Follows
    <3> QED
      BY <3>1, <3>7, <3>8 DEF q
  <2>3. CASE ~Due(d)
    BY <2>1, <2>3 DEF ProcessSlaBreaches
  <2> QED
    BY <2>2, <2>3
<1>3. row' \in [Definitions -> Row]
  <2>1. row' = [d \in Definitions |-> row'[d]]
    BY DEF ProcessSlaBreaches
  <2> QED
    BY <1>2, <2>1 DEF Kept
<1>4. ASSUME NEW d \in Definitions
      PROVE  Kept(row[d], d)' /\ Follows(row[d], state)'
  BY <1>1, <1>2 DEF Kept, Follows, Alive, Running, OnHold
<1> QED
  BY <1>1, <1>3, <1>4 DEF SlaInv

\* Time passes: it is held time exactly while the live rows are paused.
LEMMA SlaTick == SlaInv /\ Tick => SlaInv'
<1> SUFFICES ASSUME SlaInv, Tick PROVE SlaInv'
  OBVIOUS
<1>1. /\ clock \in Nat /\ held \in Nat /\ clock' = clock + 1
      /\ state' = state /\ row' = row /\ priority' = priority
      /\ held' = IF state \in PauseStates THEN held + 1 ELSE held
  BY DEF SlaInv, TimesOK, Tick
<1>2. ASSUME NEW d \in Definitions
      PROVE  Kept(row[d], d)' /\ Follows(row[d], state)'
  <2>1. Kept(row[d], d) /\ Follows(row[d], state) /\ row[d] \in Row /\ Duration[d] \in Nat
    BY DurationIsNat DEF SlaInv
  <2>2. Follows(row[d], state)'
    BY <1>1, <2>1 DEF Follows
  <2> DEFINE r == row[d]
  <2>3. r \in Row /\ row'[d] = r
    BY <1>1, <2>1
  <2>4. r.pausedAt <= clock' /\ (r.breached => clock' - held' >= Duration[d])
    <3>1. r.pausedAt <= clock /\ (r.breached => clock - held >= Duration[d])
      BY <2>1 DEF Kept
    <3> QED
      BY <1>1, <2>1, <3>1, RowTypes
  <2>5. ASSUME Running(r) PROVE r.pausedSeconds = held'
    <3>1. held' = held
      BY <1>1, <2>1, <2>5 DEF Follows, Running, Live
    <3> QED
      BY <2>1, <2>5, <3>1 DEF Kept
  <2>6. ASSUME OnHold(r) PROVE r.pausedSeconds + (clock' - r.pausedAt) = held'
    <3>1. held' = held + 1
      BY <1>1, <2>1, <2>6 DEF Follows, OnHold, Live
    <3>2. r.pausedSeconds + (clock - r.pausedAt) = held
      BY <2>1, <2>6 DEF Kept
    <3> QED
      BY <1>1, <2>1, <3>1, <3>2, RowTypes
  <2>7. Alive(r) => r.startedAt = 0 /\ r.breachAt = Duration[d] + r.pausedSeconds
    BY <2>1 DEF Kept
  <2> HIDE DEF r
  <2>8. Kept(row[d], d)'
    BY <2>3, <2>4, <2>5, <2>6, <2>7 DEF Kept, Alive, Running, OnHold
  <2> QED
    BY <2>2, <2>8
<1>3. TimesOK' /\ row' \in [Definitions -> Row]
  BY <1>1 DEF SlaInv, TimesOK
<1> QED
  BY <1>1, <1>2, <1>3 DEF SlaInv

LEMMA SlaInductive == Spec => []SlaInv
<1>1. SlaInv /\ [Next]_vars => SlaInv'
  <2> SUFFICES ASSUME SlaInv, [Next]_vars PROVE SlaInv'
    OBVIOUS
  <2>1. CASE \E s \in RecordStates, p \in Priorities : Update(s, p)
    BY <2>1, SlaUpdate
  <2>2. CASE ProcessSlaBreaches
    BY <2>2, SlaBreaches
  <2>3. CASE Tick
    BY <2>3, SlaTick
  <2>4. CASE UNCHANGED vars
    BY <2>4 DEF vars, SlaInv, TimesOK, Kept, Follows, Alive, Running, OnHold
  <2> QED
    BY <2>1, <2>2, <2>3, <2>4 DEF Next
<1> QED
  BY <1>1, SlaInit, PTL DEF Spec

\* The clock, the record and its rows keep their types for any definitions and
\* any sequence of updates.
THEOREM SlaTypeOK == Spec => []TypeOK
<1>1. SlaInv => TypeOK
  BY DEF SlaInv, TimesOK, TypeOK
<1> QED
  BY <1>1, SlaInductive, PTL

\* Changing the priority never resets the clock, and the time paused is carried
\* over exactly, for any definitions, durations and pause states.
THEOREM SlaClockKept == Spec => []ClockKept
<1>1. SlaInv => ClockKept
  BY DEF SlaInv, Kept, ClockKept, Alive, Running, OnHold
<1> QED
  BY <1>1, SlaInductive, PTL

\* A breach is flagged only after a whole duration of working time.
THEOREM SlaBreachIsReal == Spec => []BreachIsReal
<1>1. SlaInv => BreachIsReal
  BY DEF SlaInv, Kept, BreachIsReal
<1> QED
  BY <1>1, SlaInductive, PTL

\* Rows run and pause with the record, also those attached during a pause.
THEOREM SlaStageFollowsState == Spec => []StageFollowsState
<1>1. SlaInv => StageFollowsState
  BY DEF SlaInv, Follows, StageFollowsState
<1> QED
  BY <1>1, SlaInductive, PTL
-----------------------------------------------------------------------------
(* The events service                                                      *)
(*                                                                         *)
(* That a resync waits for every stream that missed a signal is needed only *)
(* while the service listens; it holds when it starts to listen because a   *)
(* listener that has failed is not "listening" and has a longer delay, so   *)
(* that it offers the resync to every stream, and only streams miss.        *)

NotListening == conn \in {"connecting", "sleeping"} => ~listening

EventsInv ==
    /\ Events!TypeOK
    /\ NotListening
    /\ delay \in Nat \ {0}
    /\ Events!MissedIsResynced

Frames == {"signal", "resync"}

\* A frame that waits is still there when another one is appended, and when the
\* first one, a different one, is sent.
LEMMA AppendedWaits ==
    ASSUME NEW q \in Seq(Frames), NEW f \in Frames
    PROVE  /\ Append(q, f) \in Seq(Frames)
           /\ f \in Events!ToSet(Append(q, f))
           /\ Events!ToSet(q) \subseteq Events!ToSet(Append(q, f))
  <1>1. PICK a : a = Append(q, f)
    OBVIOUS
  <1>2. a \in Seq(Frames) /\ Len(a) = Len(q) + 1 /\ a[Len(q) + 1] = f
        /\ \A i \in 1 .. Len(q) : a[i] = q[i]
    BY <1>1
  <1>3. DOMAIN a = 1 .. Len(q) + 1 /\ DOMAIN q = 1 .. Len(q) /\ Len(q) \in Nat
    BY <1>2
  <1>4. f \in {a[i] : i \in DOMAIN a}
    BY <1>2, <1>3
  <1>5. {q[i] : i \in DOMAIN q} \subseteq {a[i] : i \in DOMAIN a}
    BY <1>2, <1>3
  <1> QED
    BY <1>1, <1>2, <1>4, <1>5 DEF Events!ToSet

LEMMA SentFirst ==
    ASSUME NEW q \in Seq(Frames), q # <<>>
    PROVE  /\ Tail(q) \in Seq(Frames)
           /\ Head(q) # "resync" /\ "resync" \in Events!ToSet(q) => "resync" \in Events!ToSet(Tail(q))
  <1>1. Tail(q) \in Seq(Frames) /\ Len(Tail(q)) = Len(q) - 1 /\ Head(q) = q[1] /\ Len(q) \in Nat /\ Len(q) > 0
        /\ \A i \in 1 .. Len(q) - 1 : Tail(q)[i] = q[i + 1]
    OBVIOUS
  <1>2. PICK a : a = Tail(q)
    OBVIOUS
  <1>3. DOMAIN a = 1 .. Len(q) - 1 /\ DOMAIN q = 1 .. Len(q)
    BY <1>1, <1>2
  <1>4. ASSUME Head(q) # "resync", NEW k \in DOMAIN q, q[k] = "resync"
        PROVE  \E i \in DOMAIN a : a[i] = "resync"
    <2>1. k # 1
      BY <1>1, <1>4
    <2>2. k - 1 \in 1 .. Len(q) - 1 /\ (k - 1) + 1 = k
      BY <1>1, <1>3, <2>1
    <2>3. a[k - 1] = q[k]
      BY <1>1, <1>2, <2>2
    <2> QED
      BY <1>3, <1>4, <2>2, <2>3
  <1> QED
    BY <1>1, <1>2, <1>4 DEF Events!ToSet

\* Offer reaches every stream but those whose queue is full, and takes nothing
\* from any queue.
LEMMA Offered ==
    ASSUME queue \in [Browsers -> Seq(Frames)], NEW S, S \subseteq Browsers, NEW f \in Frames,
           Events!Offer(S, f)
    PROVE  /\ queue' \in [Browsers -> Seq(Frames)]
           /\ \A b \in Browsers : Events!ToSet(queue[b]) \subseteq Events!ToSet(queue'[b])
           /\ \A b \in S \ excused' : f \in Events!ToSet(queue'[b])
           /\ excused \subseteq excused' /\ excused' \subseteq excused \cup S
  <1> DEFINE full == {b \in S : Len(queue[b]) = QueueSize}
  <1>1. /\ queue' = [b \in Browsers |-> IF b \in S \ full THEN Append(queue[b], f) ELSE queue[b]]
        /\ excused' = excused \cup full
    BY DEF Events!Offer
  <1>2. full \subseteq S
    OBVIOUS
  <1> HIDE DEF full
  <1>3. \A b \in Browsers : /\ Append(queue[b], f) \in Seq(Frames)
                            /\ f \in Events!ToSet(Append(queue[b], f))
                            /\ Events!ToSet(queue[b]) \subseteq Events!ToSet(Append(queue[b], f))
    BY AppendedWaits
  <1>4. \A b \in Browsers : queue'[b] = IF b \in S \ full THEN Append(queue[b], f) ELSE queue[b]
    BY <1>1
  <1>5. queue' \in [Browsers -> Seq(Frames)]
    BY <1>1, <1>3
  <1>6. \A b \in Browsers : Events!ToSet(queue[b]) \subseteq Events!ToSet(queue'[b])
    BY <1>3, <1>4
  <1>7. \A b \in S \ excused' : f \in Events!ToSet(queue'[b])
    BY <1>1, <1>3, <1>4
  <1> QED
    BY <1>1, <1>2, <1>5, <1>6, <1>7

LEMMA EventsTyped ==
    ASSUME EventsInv
    PROVE  /\ queue \in [Browsers -> Seq(Frames)] /\ Events!Streams \subseteq Browsers
           /\ missed \subseteq Events!Streams /\ excused \subseteq Events!Streams
           /\ due \subseteq Events!Streams /\ stalled \subseteq Events!Streams
           /\ conn \in {"connecting", "up", "lost", "sleeping"}
           /\ \A b \in Browsers : b \in Events!Streams <=> pc[b] \in Events!Streaming
  BY DEF EventsInv, Events!TypeOK, Frames, Events!Streams

\* A step of the listener or of the database: it leaves the handlers alone.
LEMMA ListenerStep ==
    ASSUME EventsInv, pc' = pc, due' = due, stalled' = stalled,
           queue' \in [Browsers -> Seq(Frames)],
           \A b \in Browsers : Events!ToSet(queue[b]) \subseteq Events!ToSet(queue'[b]),
           missed' \subseteq Events!Streams, excused \subseteq excused', excused' \subseteq Events!Streams,
           conn' \in {"connecting", "up", "lost", "sleeping"}, NotListening', delay' \in Nat \ {0},
           conn' = "up" => \/ conn = "up" /\ missed' = missed
                           \/ \A b \in missed' \ excused' : "resync" \in Events!ToSet(queue'[b])
    PROVE  EventsInv'
  <1>1. Events!Streams' = Events!Streams
    BY DEF Events!Streams
  <1>2. Events!TypeOK'
    BY <1>1, EventsTyped DEF EventsInv, Events!TypeOK, Frames
  <1>3. Events!MissedIsResynced'
    <2> SUFFICES ASSUME conn' = "up", NEW b \in missed' \ excused'
                 PROVE  "resync" \in Events!ToSet(queue'[b])
      BY DEF Events!MissedIsResynced, Events!ToSet
    <2>1. CASE conn = "up" /\ missed' = missed
      <3>1. b \in missed \ excused /\ b \in Browsers
        BY <2>1, EventsTyped
      <3>2. "resync" \in Events!ToSet(queue[b])
        BY <2>1, <3>1 DEF EventsInv, Events!MissedIsResynced
      <3> QED
        BY <3>1, <3>2
    <2> QED
      BY <2>1
  <1> QED
    BY <1>2, <1>3 DEF EventsInv

LEMMA DelayGrows == \A n \in Nat \ {0} : (IF n * 2 < MaxDelay THEN n * 2 ELSE MaxDelay) \in Nat \ {0}
  BY EventsAssumption

LEMMA ListenerKeepsEvents ==
    ASSUME EventsInv, (\E k \in Records : Events!Signal(k)) \/ Events!Listener \/ Events!Lose
    PROVE  EventsInv'
  <1>1. /\ queue \in [Browsers -> Seq(Frames)] /\ Events!Streams \subseteq Browsers
        /\ missed \subseteq Events!Streams /\ excused \subseteq Events!Streams
        /\ NotListening /\ delay \in Nat \ {0}
    BY EventsTyped DEF EventsInv
  <1>2. \A k : Events!Watching(k) \subseteq Events!Streams
    BY DEF Events!Watching
  <1>3. ASSUME NEW k \in Records, Events!Signal(k) PROVE EventsInv'
    <2>1. /\ pc' = pc /\ due' = due /\ stalled' = stalled /\ queue' = queue /\ excused' = excused
          /\ conn' = conn /\ listening' = listening /\ delay' = delay
          /\ conn = "up" => missed' = missed
          /\ missed' \subseteq missed \cup Events!Watching(k)
      BY <1>3 DEF Events!Signal
    <2>2. NotListening' /\ conn' \in {"connecting", "up", "lost", "sleeping"}
      BY <1>1, <2>1, EventsTyped DEF NotListening
    <2>3. missed' \subseteq Events!Streams
      BY <1>1, <1>2, <2>1
    <2> QED
      BY <1>1, <2>1, <2>2, <2>3, ListenerStep
  <1>4. CASE Events!Dispatch
    <2>1. /\ pc' = pc /\ due' = due /\ stalled' = stalled /\ missed' = missed
          /\ conn = "up" /\ conn' = conn /\ listening' = listening /\ delay' = delay
          /\ Events!Offer(Events!Watching(Head(wire)), "signal")
      BY <1>4 DEF Events!Dispatch
    <2>2. PICK S : S = Events!Watching(Head(wire))
      OBVIOUS
    <2>3. S \subseteq Events!Streams /\ S \subseteq Browsers /\ Events!Offer(S, "signal") /\ "signal" \in Frames
      BY <1>1, <1>2, <2>1, <2>2 DEF Frames
    <2>4. /\ queue' \in [Browsers -> Seq(Frames)]
          /\ \A b \in Browsers : Events!ToSet(queue[b]) \subseteq Events!ToSet(queue'[b])
          /\ excused \subseteq excused' /\ excused' \subseteq excused \cup S
      BY <1>1, <2>3, Offered
    <2>5. NotListening'
      BY <2>1 DEF NotListening
    <2>6. excused' \subseteq Events!Streams
      BY <1>1, <2>3, <2>4
    <2> QED
      BY <1>1, <2>1, <2>4, <2>5, <2>6, ListenerStep
  <1>5. CASE Events!Listen
    <2>1. /\ pc' = pc /\ due' = due /\ stalled' = stalled /\ missed' = missed
          /\ conn = "connecting" /\ conn' = "up" /\ delay' = 1
      BY <1>5 DEF Events!Listen
    <2>2. NotListening' /\ ~listening
      BY <1>1, <2>1 DEF NotListening
    <2>3. /\ queue' \in [Browsers -> Seq(Frames)]
          /\ \A b \in Browsers : Events!ToSet(queue[b]) \subseteq Events!ToSet(queue'[b])
          /\ excused \subseteq excused' /\ excused' \subseteq Events!Streams
          /\ \A b \in Events!Streams \ excused' : "resync" \in Events!ToSet(queue'[b])
      <3>1. CASE delay > 1
        <4>1. Events!Offer(Events!Streams, "resync")
          BY <1>5, <2>2, <3>1 DEF Events!Listen, Events!ResyncNeeded
        <4>2. PICK S : S = Events!Streams
          OBVIOUS
        <4>3. S \subseteq Browsers /\ Events!Offer(S, "resync") /\ "resync" \in Frames
          BY <1>1, <4>1, <4>2 DEF Frames
        <4>4. /\ queue' \in [Browsers -> Seq(Frames)]
              /\ \A b \in Browsers : Events!ToSet(queue[b]) \subseteq Events!ToSet(queue'[b])
              /\ \A b \in S \ excused' : "resync" \in Events!ToSet(queue'[b])
              /\ excused \subseteq excused' /\ excused' \subseteq excused \cup S
          BY <1>1, <4>3, Offered
        <4> QED
          BY <1>1, <4>2, <4>4
      <3>2. CASE ~(delay > 1)
        <4>1. delay = 1
          BY <1>1, <3>2
        <4>2. excused' = excused \cup Events!Streams /\ queue' = queue
          BY <1>5, <3>2, <4>1 DEF Events!Listen, Events!ResyncNeeded
        <4> QED
          BY <1>1, <4>2
      <3> QED
        BY <3>1, <3>2
    <2>4. \A b \in missed' \ excused' : "resync" \in Events!ToSet(queue'[b])
      BY <1>1, <2>1, <2>3
    <2>5. delay' \in Nat \ {0} /\ missed' \subseteq Events!Streams
      BY <1>1, <2>1
    <2> QED
      BY <2>1, <2>2, <2>3, <2>4, <2>5, ListenerStep
  <1>6. CASE Events!Failed \/ Events!Slept \/ Events!Lose
    <2>1. /\ pc' = pc /\ due' = due /\ stalled' = stalled /\ queue' = queue /\ excused' = excused
          /\ conn' \in {"connecting", "lost", "sleeping"}
      BY <1>6 DEF Events!Failed, Events!Slept, Events!Lose
    <2>2. missed' \subseteq Events!Streams
      BY <1>1, <1>2, <1>6 DEF Events!Failed, Events!Slept, Events!Lose
    <2>3. NotListening'
      BY <1>1, <1>6 DEF Events!Failed, Events!Slept, Events!Lose, NotListening
    <2>4. delay' = delay \/ delay' = IF delay * 2 < MaxDelay THEN delay * 2 ELSE MaxDelay
      BY <1>6 DEF Events!Failed, Events!Slept, Events!Lose
    <2>5. delay' \in Nat \ {0}
      BY <1>1, <2>4, DelayGrows
    <2> QED
      BY <1>1, <2>1, <2>2, <2>3, <2>5, ListenerStep
  <1> QED
    BY <1>3, <1>4, <1>5, <1>6 DEF Events!Listener

\* A step of a handler, of its client or of the account: it leaves the listener
\* alone; a stream that leaves the hub leaves nothing behind.
LEMMA HandlerStep ==
    ASSUME EventsInv, conn' = conn, listening' = listening, delay' = delay,
           pc' \in [Browsers -> {"closed", "asking", "admitted", "refused"} \cup Events!Streaming],
           queue' \in [Browsers -> Seq(Frames)],
           due' \subseteq Events!Streams', stalled' \subseteq Events!Streams',
           missed' \subseteq missed, missed' \subseteq Events!Streams', excused' \subseteq Events!Streams',
           \A b \in missed' : /\ b \in excused => b \in excused'
                              /\ "resync" \in Events!ToSet(queue[b]) => "resync" \in Events!ToSet(queue'[b])
    PROVE  EventsInv'
  <1>1. Events!TypeOK'
    BY EventsTyped DEF EventsInv, Events!TypeOK, Frames
  <1>2. Events!MissedIsResynced'
    BY DEF EventsInv, Events!MissedIsResynced, Events!ToSet
  <1>3. NotListening' /\ delay' \in Nat \ {0}
    BY DEF EventsInv, NotListening
  <1> QED
    BY <1>1, <1>2, <1>3 DEF EventsInv

LEMMA LeaveKeepsEvents ==
    ASSUME EventsInv, NEW b \in Browsers, Events!Leave(b)
    PROVE  EventsInv'
  <1>1. /\ pc' = [pc EXCEPT ![b] = "closed"] /\ queue' = [queue EXCEPT ![b] = <<>>]
        /\ due' = due \ {b} /\ stalled' = stalled \ {b} /\ missed' = missed \ {b} /\ excused' = excused \ {b}
        /\ conn' = conn /\ listening' = listening /\ delay' = delay
    BY DEF Events!Leave, Events!Go
  <1>2. pc \in [Browsers -> {"closed", "asking", "admitted", "refused"} \cup Events!Streaming]
    BY DEF EventsInv, Events!TypeOK
  <1>3. Events!Streams \ {b} \subseteq Events!Streams'
    BY <1>1, <1>2 DEF Events!Streams
  <1>4. queue' \in [Browsers -> Seq(Frames)] /\ \A c \in Browsers : c # b => queue'[c] = queue[c]
    BY <1>1, EventsTyped
  <1>5. pc' \in [Browsers -> {"closed", "asking", "admitted", "refused"} \cup Events!Streaming]
    BY <1>1, <1>2
  <1>6. /\ due' \subseteq Events!Streams' /\ stalled' \subseteq Events!Streams'
        /\ missed' \subseteq Events!Streams' /\ excused' \subseteq Events!Streams' /\ missed' \subseteq missed
    BY <1>1, <1>3, EventsTyped
  <1>7. \A c \in missed' : /\ c \in excused => c \in excused'
                           /\ "resync" \in Events!ToSet(queue[c]) => "resync" \in Events!ToSet(queue'[c])
    BY <1>1, <1>4, EventsTyped
  <1> QED
    BY <1>1, <1>4, <1>5, <1>6, <1>7, HandlerStep

\* A handler that goes on within or towards the hub.
LEMMA GoesOn ==
    ASSUME EventsInv, NEW b \in Browsers, NEW place \in {"asking", "admitted", "refused"} \cup Events!Streaming,
           Events!Go(b, place), pc[b] \in Events!Streaming => place \in Events!Streaming,
           conn' = conn, listening' = listening, delay' = delay, excused' = excused,
           due' \subseteq due, stalled' = stalled, missed' \subseteq missed,
           queue' \in [Browsers -> Seq(Frames)],
           \A c \in missed' : "resync" \in Events!ToSet(queue[c]) => "resync" \in Events!ToSet(queue'[c])
    PROVE  EventsInv'
  <1>1. pc \in [Browsers -> {"closed", "asking", "admitted", "refused"} \cup Events!Streaming]
    BY DEF EventsInv, Events!TypeOK
  <1>2. pc' = [pc EXCEPT ![b] = place]
    BY DEF Events!Go
  <1>3. pc' \in [Browsers -> {"closed", "asking", "admitted", "refused"} \cup Events!Streaming]
    BY <1>1, <1>2
  <1>4. Events!Streams \subseteq Events!Streams'
    BY <1>1, <1>2 DEF Events!Streams
  <1>5. /\ due' \subseteq Events!Streams' /\ stalled' \subseteq Events!Streams'
        /\ missed' \subseteq Events!Streams' /\ excused' \subseteq Events!Streams'
    BY <1>4, EventsTyped
  <1> QED
    BY <1>3, <1>5, HandlerStep

LEMMA WriteKeepsEvents ==
    ASSUME EventsInv, NEW b \in Browsers, Events!Write(b)
    PROVE  EventsInv'
  <1>1. /\ pc[b] = "open" /\ Events!Go(b, IF Events!RecheckDue(b) THEN "rechecking" ELSE "open")
        /\ queue' = [queue EXCEPT ![b] = IF @ = <<>> THEN @ ELSE Tail(@)]
        /\ missed' = IF queue[b] # <<>> /\ Head(queue[b]) = "resync" THEN missed \ {b} ELSE missed
        /\ due' = due /\ stalled' = stalled /\ conn' = conn /\ listening' = listening /\ delay' = delay
        /\ excused' = excused
    BY DEF Events!Write
  <1>2. PICK place \in Events!Streaming : Events!Go(b, place)
    BY <1>1 DEF Events!Streaming
  <1>3. queue \in [Browsers -> Seq(Frames)] /\ queue[b] \in Seq(Frames)
    BY EventsTyped
  <1>4. CASE queue[b] = <<>>
    <2>1. queue' = queue /\ missed' = missed
      BY <1>1, <1>3, <1>4
    <2> QED
      BY <1>1, <1>2, <1>3, <2>1, GoesOn
  <1>5. CASE queue[b] # <<>>
    <2>1. PICK q : q = Tail(queue[b])
      OBVIOUS
    <2>2. queue' = [queue EXCEPT ![b] = q]
      BY <1>1, <1>5, <2>1
    <2>3. q \in Seq(Frames)
          /\ (Head(queue[b]) # "resync" /\ "resync" \in Events!ToSet(queue[b]) => "resync" \in Events!ToSet(q))
      BY <1>3, <1>5, <2>1, SentFirst
    <2>4. queue' \in [Browsers -> Seq(Frames)] /\ queue'[b] = q /\ \A c \in Browsers : c # b => queue'[c] = queue[c]
      BY <1>3, <2>2, <2>3
    <2>5. missed' \subseteq missed /\ (b \in missed' => Head(queue[b]) # "resync")
      BY <1>1, <1>5
    <2>6. \A c \in missed' : c \in Browsers
      BY <2>5, EventsTyped
    <2>7. \A c \in missed' : "resync" \in Events!ToSet(queue[c]) => "resync" \in Events!ToSet(queue'[c])
      BY <2>3, <2>4, <2>5, <2>6
    <2> QED
      BY <1>1, <1>2, <2>4, <2>5, <2>7, GoesOn
  <1> QED
    BY <1>4, <1>5

LEMMA HandlersKeepEvents ==
    ASSUME EventsInv, NEW b \in Browsers,
           Events!Handle(b) \/ Events!Connect(b) \/ Events!Due(b) \/ Events!Pause(b) \/ Events!Disconnect(b)
    PROVE  EventsInv'
  <1>1. queue \in [Browsers -> Seq(Frames)]
    BY EventsTyped
  <1>2. CASE Events!Refuse(b) \/ Events!Disconnect(b) \/ (Events!Recheck(b) /\ pc[b] = "unknown")
    BY <1>2, LeaveKeepsEvents DEF Events!Refuse, Events!Disconnect, Events!Recheck
  <1>3. CASE Events!Connect(b) \/ Events!Answer(b) \/ Events!Open(b) \/ (Events!Recheck(b) /\ pc[b] # "unknown")
    <2>1. PICK place \in {"asking", "admitted", "refused"} \cup Events!Streaming :
            Events!Go(b, place) /\ (pc[b] \in Events!Streaming => place \in Events!Streaming)
      <3>1. {"open", "known", "unknown"} \subseteq Events!Streaming
            /\ {"closed", "asking", "admitted", "refused"} \cap Events!Streaming = {}
        BY DEF Events!Streaming
      <3>2. \/ Events!Go(b, "asking") /\ pc[b] = "closed"
            \/ Events!Go(b, "admitted") /\ pc[b] = "asking"
            \/ Events!Go(b, "refused") /\ pc[b] = "asking"
            \/ Events!Go(b, "open") \/ Events!Go(b, "known") \/ Events!Go(b, "unknown")
        BY <1>3 DEF Events!Connect, Events!Answer, Events!Open, Events!Recheck
      <3> QED
        BY <3>1, <3>2
    <2>2. /\ conn' = conn /\ listening' = listening /\ delay' = delay /\ excused' = excused
          /\ due' \subseteq due /\ stalled' = stalled /\ missed' = missed /\ queue' = queue
      BY <1>3 DEF Events!Connect, Events!Answer, Events!Open, Events!Recheck
    <2> QED
      BY <1>1, <2>1, <2>2, GoesOn
  <1>4. CASE Events!Due(b) \/ Events!Pause(b)
    <2>1. /\ pc' = pc /\ queue' = queue /\ missed' = missed /\ excused' = excused
          /\ conn' = conn /\ listening' = listening /\ delay' = delay
          /\ due' \subseteq due \cup {b} /\ stalled' \subseteq stalled \cup {b}
          /\ pc[b] = "open" \/ b \in Events!Streams
      BY <1>4 DEF Events!Due, Events!Pause
    <2>2. Events!Streams' = Events!Streams
      BY <2>1 DEF Events!Streams
    <2>3. b \in Events!Streams /\ due' \subseteq due \cup {b} /\ stalled' \subseteq stalled \cup {b}
      BY <1>4 DEF Events!Due, Events!Pause, Events!Streams, Events!Streaming
    <2>4. pc' \in [Browsers -> {"closed", "asking", "admitted", "refused"} \cup Events!Streaming]
      BY <2>1 DEF EventsInv, Events!TypeOK
    <2> QED
      BY <1>1, <2>1, <2>2, <2>3, <2>4, EventsTyped, HandlerStep
  <1>5. CASE Events!Write(b)
    BY <1>5, WriteKeepsEvents
  <1> QED
    BY <1>2, <1>3, <1>4, <1>5 DEF Events!Handle

LEMMA EventsStay ==
    ASSUME EventsInv, UNCHANGED <<pc, queue, due, stalled, conn, listening, delay, missed, excused>>
    PROVE  EventsInv'
  BY DEF EventsInv, NotListening, Events!TypeOK, Events!MissedIsResynced, Events!Streams, Events!ToSet

LEMMA EventsKept == EventsInv /\ [Clocks \/ LiveEvents \/ ClientMail]_allVars => EventsInv'
  <1> SUFFICES ASSUME EventsInv, [Clocks \/ LiveEvents \/ ClientMail]_allVars PROVE EventsInv'
    OBVIOUS
  <1>1. CASE Events!Next
    <2>1. ASSUME NEW u, Events!SignOut(u) PROVE EventsInv'
      BY <2>1, EventsStay DEF Events!SignOut
    <2> QED
      BY <1>1, <2>1, ListenerKeepsEvents, HandlersKeepEvents DEF Events!Next
  <1>2. CASE UNCHANGED eventVars
    BY <1>2, EventsStay DEF eventVars
  <1> QED
    BY <1>1, <1>2 DEF Clocks, LiveEvents, ClientMail, OfClocks, OfEvents, OfMail, allVars

LEMMA EventsInit == MCInit => EventsInv
  <1> SUFFICES ASSUME MCInit PROVE EventsInv
    OBVIOUS
  <1>1. Events!Init
    BY DEF MCInit
  <1>2. Events!TypeOK
    BY <1>1 DEF Events!Init, Events!TypeOK
  <1>3. Events!MissedIsResynced /\ NotListening /\ delay \in Nat \ {0}
    BY <1>1 DEF Events!Init, Events!MissedIsResynced, NotListening
  <1> QED
    BY <1>2, <1>3 DEF EventsInv

\* "On reconnect tell every browser to resync" (listen in tools/events_server.py):
\* while the service listens, every stream that a signal did not reach has the
\* resync in its queue, for any number of browsers, records, signals and losses
\* and any size of the queues; only a full queue and a stream older than the
\* first LISTEN are excused.
THEOREM EventsMissedIsResynced == MCSpec => []MissedIsResynced
  <1>1. EventsInv => MissedIsResynced
    BY DEF EventsInv, MissedIsResynced
  <1> QED
    BY <1>1, EventsInit, EventsKept, PTL DEF MCSpec
=============================================================================
