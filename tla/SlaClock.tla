------------------------------ MODULE SlaClock ------------------------------
(* Service-level clocks of one record (app.py: attach_slas, retarget_slas, *)
(* sync_slas, process_sla_breaches).                                       *)
(*                                                                         *)
(* A definition promises a duration, for one priority or for all of them.  *)
(* The record keeps a TaskSLA row per definition that applies to it; only a *)
(* Cancelled row is ever followed by another one of the same definition, so *)
(* the latest one is kept here.  Pausing pushes the target of a row back,   *)
(* changing the priority replaces the rows bound to the old one, and a      *)
(* worker flags the rows whose target has passed.                           *)
(*                                                                         *)
(* A request or a pass of the worker takes no time on the clock.  The       *)
(* definitions share their pause states (the column's default) and have no  *)
(* business calendar.                                                       *)
EXTENDS Integers

CONSTANTS
    Definitions,
    Priorities,
    AnyPriority,    \* the priority of a definition that is not restricted
    PriorityOf,
    Duration,
    PauseStates,
    MaxTime         \* bound of the clock

Live == {"In Progress", "Paused"}
Stages == Live \cup {"None", "Completed", "Cancelled"}
Ended == {"Resolved", "Closed", "Cancelled"}
RecordStates == {"New", "In Progress", "Pending"} \cup Ended

ASSUME SlaAssumption ==
    /\ AnyPriority \notin Priorities
    /\ PriorityOf \in [Definitions -> Priorities \cup {AnyPriority}]
    /\ Duration \in [Definitions -> Nat \ {0}]
    /\ PauseStates \subseteq {"In Progress", "Pending"}
    /\ MaxTime \in Nat

VARIABLES
    clock,
    state,      \* of the record
    priority,
    row,        \* definition -> its latest TaskSLA
    held        \* history: the time the record has spent in PauseStates

vars == <<clock, state, priority, row, held>>

Row == [stage : Stages, startedAt : Nat, breachAt : Nat, pausedAt : Nat,
        pausedSeconds : Nat, breached : BOOLEAN]

NoRow == [stage |-> "None", startedAt |-> 0, breachAt |-> 0, pausedAt |-> 0,
          pausedSeconds |-> 0, breached |-> FALSE]

-----------------------------------------------------------------------------
(* attach_slas                                                             *)

Applies(d, p) == PriorityOf[d] \in {AnyPriority, p}

\* A row that started at `started`, after `paused` seconds of pauses.
NewRow(d, started, paused) ==
    [NoRow EXCEPT !.stage = "In Progress", !.startedAt = started, !.pausedSeconds = paused,
                  !.breachAt = started + Duration[d] + paused]

Missing(r) == r.stage \in {"None", "Cancelled"}

-----------------------------------------------------------------------------
(* sync_slas                                                               *)

Pause(r) == [r EXCEPT !.stage = "Paused", !.pausedAt = clock]

\* The plausible mistake: the pause is counted, the target is not moved.
ResumeInPlace(r) ==
    [r EXCEPT !.stage = "In Progress", !.pausedAt = 0, !.pausedSeconds = @ + (clock - r.pausedAt)]

Resume(r) ==
    [r EXCEPT !.stage = "In Progress", !.pausedAt = 0,
              !.pausedSeconds = @ + (clock - r.pausedAt), !.breachAt = @ + (clock - r.pausedAt)]

EndStage(s) == IF s = "Cancelled" THEN "Cancelled" ELSE "Completed"

\* One row once the record is in state s.
Sync(r, s) ==
    IF r.stage \notin Live THEN r
    ELSE IF s \in Ended THEN [r EXCEPT !.stage = EndStage(s)]
    ELSE IF s \in PauseStates /\ r.stage = "In Progress" THEN Pause(r)
    ELSE IF s \notin PauseStates /\ r.stage = "Paused" THEN Resume(r)
    ELSE r

-----------------------------------------------------------------------------
(* retarget_slas                                                           *)

Earliest(S) == CHOOSE t \in S : \A u \in S : t <= u
Longest(S) == CHOOSE t \in S : \A u \in S : u <= t

Replaced(rows, p) == {d \in Definitions : rows[d].stage \in Live /\ ~Applies(d, p)}

\* The plausible mistake: a pause still in progress is not counted.
PausedStored(r) == r.pausedSeconds

PausedTotal(r) == r.pausedSeconds + IF r.stage = "Paused" THEN clock - r.pausedAt ELSE 0

\* The row of d once the rows in `out` are cancelled and those of p attached.
Reattached(rows, out, p, d) ==
    IF d \in out THEN [rows[d] EXCEPT !.stage = "Cancelled"]
    ELSE IF Applies(d, p) /\ Missing(rows[d])
         THEN NewRow(d, Earliest({rows[e].startedAt : e \in out}), Longest({PausedTotal(rows[e]) : e \in out}))
         ELSE rows[d]

Retarget(rows, p, s) ==
    LET out == Replaced(rows, p)
    IN IF out = {} THEN rows ELSE [d \in Definitions |-> Sync(Reattached(rows, out, p, d), s)]

-----------------------------------------------------------------------------
(* The record's pages and the worker                                       *)

TicketTransitions ==
    [s \in RecordStates |->
        CASE s = "New" -> {"New", "In Progress", "Pending", "Resolved", "Cancelled"}
          [] s \in {"In Progress", "Pending"} -> {"In Progress", "Pending", "Resolved", "Cancelled"}
          [] s = "Resolved" -> {"Resolved", "In Progress", "Closed"}
          [] OTHER -> {s}]

\* A new record; its rows start with it.
Init ==
    /\ clock = 0
    /\ held = 0
    /\ state = "New"
    /\ priority \in Priorities
    /\ row = [d \in Definitions |-> IF Applies(d, priority) THEN NewRow(d, 0, 0) ELSE NoRow]

\* One update: the state is moved first, then the priority.
Update(s, p) ==
    LET synced == [d \in Definitions |-> Sync(row[d], s)]
    IN /\ s \in TicketTransitions[state]
       /\ state' = s
       /\ priority' = p
       /\ row' = IF p = priority THEN synced ELSE Retarget(synced, p, s)
       /\ UNCHANGED <<clock, held>>

Due(d) == row[d].stage = "In Progress" /\ ~row[d].breached /\ row[d].breachAt <= clock

ProcessSlaBreaches ==
    /\ \E d \in Definitions : Due(d)
    /\ row' = [d \in Definitions |-> IF Due(d) THEN [row[d] EXCEPT !.breached = TRUE] ELSE row[d]]
    /\ UNCHANGED <<clock, state, priority, held>>

Tick ==
    /\ clock < MaxTime
    /\ clock' = clock + 1
    /\ held' = IF state \in PauseStates THEN held + 1 ELSE held
    /\ UNCHANGED <<state, priority, row>>

Next ==
    \/ \E s \in RecordStates, p \in Priorities : Update(s, p)
    \/ ProcessSlaBreaches
    \/ Tick

Spec == Init /\ [][Next]_vars

-----------------------------------------------------------------------------
(* Properties                                                              *)

\* The clock, the record and its rows have their types.
TypeOK ==
    /\ clock \in Nat /\ held \in Nat
    /\ state \in RecordStates /\ priority \in Priorities
    /\ row \in [Definitions -> Row]

\* The docstring of retarget_slas: changing the priority "does not reset the
\* clock" and "time already spent paused is carried over".  After any sequence
\* of pauses and priority changes a running row counts from the creation of
\* the record, leaves out exactly the time the record was held, and has its
\* target a full duration of working time later.
ClockKept ==
    \A d \in Definitions : row[d].stage \in Live =>
        /\ row[d].startedAt = 0
        /\ row[d].stage = "In Progress" => row[d].pausedSeconds = held
        /\ row[d].stage = "Paused" => row[d].pausedSeconds + (clock - row[d].pausedAt) = held
        /\ row[d].breachAt = Duration[d] + row[d].pausedSeconds

\* A breach is never flagged early: the record was worked on, not held, for
\* the whole duration promised (process_sla_breaches on targets moved by
\* sync_slas and retarget_slas).
BreachIsReal == \A d \in Definitions : row[d].breached => clock - held >= Duration[d]

\* A row runs or is paused as the record's state says, also one that a change
\* of priority attached in the middle of a pause, and none outlives the record.
StageFollowsState ==
    \A d \in Definitions : row[d].stage \in Live =>
        /\ state \notin Ended
        /\ row[d].stage = IF state \in PauseStates THEN "Paused" ELSE "In Progress"
=============================================================================
