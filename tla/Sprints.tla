------------------------------- MODULE Sprints -------------------------------
(***************************************************************************)
(* Sprints of a project: planned, started and completed while work items   *)
(* are assigned, edited, converted, moved away and deleted.  Membership is *)
(* a row; what happens to a member is appended to its log, from which the  *)
(* report and the credit at completion are computed.  Every page that      *)
(* changes sprints or items holds the lock of the project and reads again  *)
(* under it, so a page is one action; the pages that change statuses take  *)
(* no lock and write no log.                                               *)
(***************************************************************************)
EXTENDS Integers, Sequences, SequencesExt, FiniteSets

CONSTANTS
    Items,         \* work items
    Sprints,       \* sprints
    Statuses,
    Done,          \* statuses of category done at the beginning
    Default,       \* default_status: what new items get
    Memberships,   \* bound: membership rows there can be
    MaxEvents,     \* bound: log entries of a membership since the start of its sprint
    MaxEdits       \* bound: edits of the statuses, conversions, items that go

None == 0

VARIABLES
    kind,      \* item_type, or "gone" when deleted or in another project
    parent,
    status,
    done,      \* statuses of category done
    sprint,    \* state of each sprint, "none" when there is no such row
    member,    \* project_sprint_item: sprint, item, active, completed
    log,       \* project_sprint_event of each membership
    outcome,   \* memberships credited at the completion of a sprint
    edits,     \* number of edits of the statuses, conversions and items gone
    opened,    \* history: members that were unfinished at some time in the active sprint
    silent     \* history: members whose category changed without a log entry

vars == <<kind, parent, status, done, sprint, member, log, outcome, edits, opened, silent>>
items == <<kind, parent, status>>

NoMember == [sprint |-> None, item |-> None, active |-> FALSE, completed |-> FALSE]

Init ==
    /\ kind = [i \in Items |-> "task"] /\ parent = [i \in Items |-> None]
    /\ status = [i \in Items |-> Default] /\ done = Done
    /\ sprint = [s \in Sprints |-> "none"]
    /\ member = [m \in Memberships |-> NoMember]
    /\ log = [m \in Memberships |-> <<>>]
    /\ outcome = [s \in Sprints |-> {}]
    /\ edits = 0 /\ opened = {} /\ silent = {}

-----------------------------------------------------------------------------
Present == {i \in Items : kind[i] # "gone"}
Members(s) == {m \in Memberships : member[m].sprint = s /\ member[m].active}
Current(i) == {m \in Memberships : member[m].item = i /\ member[m].active}
IsDone(i) == status[i] \in done

Below(I) == {j \in Present : parent[j] \in I}
\* hierarchy_rows: everything below an item (no deeper than there are items).
Descendants(i) == Below({i}) \cup Below(Below({i}))

\* snapshot() and event(): what is recorded of an item, and whether the sprint
\* had been started.
Entry(k, i, started) == [kind |-> k, done |-> IsDone(i), started |-> started]
Started(s) == sprint[s] \in {"active", "closed"}

\* capture(): a member of an active sprint is recorded when its snapshot differs
\* from the last one.  (st: the status the item is getting.)
Captured(i, st) ==
    [m \in Memberships |->
        IF m \in Current(i) /\ sprint[member[m].sprint] = "active" /\ Last(log[m]).done # (st \in done)
        THEN Append(log[m], [kind |-> "state", done |-> st \in done, started |-> TRUE])
        ELSE log[m]]

\* _detach: the memberships D end, and say so in their log.
Detached(D) == [m \in Memberships |-> IF m \in D THEN [member[m] EXCEPT !.active = FALSE] ELSE member[m]]
DetachLog(D) ==
    [m \in Memberships |->
        IF m \in D THEN Append(log[m], Entry("removed", member[m].item, Started(member[m].sprint))) ELSE log[m]]

\* A new membership.
Free == {m \in Memberships : member[m] = NoMember}
Added(i, s) == [sprint |-> s, item |-> i, active |-> TRUE, completed |-> FALSE]
Room(M) == \A m \in M : Cardinality({k \in DOMAIN log[m] : log[m][k].started}) < MaxEvents

-----------------------------------------------------------------------------
\* save: a new sprint.
Save(s) ==
    /\ sprint[s] = "none"
    /\ sprint' = [sprint EXCEPT ![s] = "planned"]
    /\ UNCHANGED <<items, done, member, log, outcome>>

\* start: the baseline of every member is recorded.
Start(s) ==
    /\ sprint[s] = "planned" /\ Room(Members(s))
    /\ sprint' = [sprint EXCEPT ![s] = "active"]
    /\ log' = [m \in Memberships |->
                 IF m \in Members(s) THEN Append(log[m], Entry("baseline", member[m].item, TRUE)) ELSE log[m]]
    /\ UNCHANGED <<items, done, member, outcome>>

\* assign: into a sprint that is not closed (or into the backlog), out of the one
\* before.
Assign(i, target) ==
    /\ kind[i] # "gone" /\ Room(Current(i))
    /\ Current(i) # {} \/ target # None
    /\ \A m \in Current(i) : member[m].sprint # target
    /\ target # None => sprint[target] \in {"planned", "active"} /\ kind[i] = "task"
    /\ \/ target = None /\ member' = Detached(Current(i)) /\ log' = DetachLog(Current(i))
       \/ /\ target # None
          /\ \E m \in Free :
                /\ member' = [Detached(Current(i)) EXCEPT ![m] = Added(i, target)]
                /\ log' = [DetachLog(Current(i)) EXCEPT ![m] = <<Entry("added", i, Started(target))>>]
    /\ UNCHANGED <<items, done, sprint, outcome>>

\* The plausible mistake: work added to a running sprint does not count as open.
EligibleBaseline(m) ==
    \E e \in ToSet(log[m]) : e.started /\ e.kind \in {"baseline", "state"} /\ ~e.done
\* credited_outcome: members that the log shows unfinished after the start.
Eligible(m) ==
    \E e \in ToSet(log[m]) : e.started /\ e.kind \in {"baseline", "added", "state"} /\ ~e.done

\* unfinished_descendants: finished members with something unfinished below.
UnfinishedBelow(s) ==
    LET finished == {member[m].item : m \in {n \in Members(s) : IsDone(member[n].item)}}
    IN \E i \in finished : \E j \in Descendants(i) \ finished : ~IsDone(j)

\* complete: the members' last state is recorded, finished work is credited, and
\* the rest moves to the next sprint or to the backlog.
Complete(s, target) ==
    /\ sprint[s] = "active" /\ Room(Members(s))
    /\ target # None => target # s /\ sprint[target] \in {"planned", "active"}
    /\ ~UnfinishedBelow(s)
    /\ LET rest == {m \in Members(s) : ~IsDone(member[m].item)}
           ended == [m \in Memberships |->
                       IF m \in Members(s) THEN [member[m] EXCEPT !.active = FALSE, !.completed = TRUE] ELSE member[m]]
           told == [m \in Memberships |->
                      IF m \in Members(s) THEN Append(log[m], Entry("state", member[m].item, TRUE)) ELSE log[m]]
       IN /\ outcome' = [outcome EXCEPT ![s] = {m \in Members(s) : IsDone(member[m].item) /\ Eligible(m)}]
          /\ \/ target = None /\ member' = ended /\ log' = told
             \/ /\ target # None
                /\ \E row \in Injection(rest, Free) :
                     LET Carried(m) == member[CHOOSE old \in rest : row[old] = m].item
                     IN /\ member' = [m \in Memberships |-> IF m \in Range(row) THEN Added(Carried(m), target) ELSE ended[m]]
                        /\ log' = [m \in Memberships |->
                             IF m \in Range(row) THEN <<Entry("added", Carried(m), Started(target))>> ELSE told[m]]
    /\ sprint' = [sprint EXCEPT ![s] = "closed"]
    /\ UNCHANGED <<items, done>>

\* delete: a planned sprint goes with its rows.
Delete(s) ==
    /\ sprint[s] = "planned"
    /\ sprint' = [sprint EXCEPT ![s] = "none"]
    /\ member' = [m \in Memberships |-> IF member[m].sprint = s THEN NoMember ELSE member[m]]
    /\ log' = [m \in Memberships |-> IF member[m].sprint = s THEN <<>> ELSE log[m]]
    /\ UNCHANGED <<items, done, outcome>>

-----------------------------------------------------------------------------
\* update_item: an item gets another status.
Transition(i, st) ==
    /\ kind[i] # "gone" /\ status[i] # st /\ Room(Current(i))
    /\ status' = [status EXCEPT ![i] = st]
    /\ log' = Captured(i, st)
    /\ UNCHANGED <<kind, parent, done, sprint, member, outcome>>

\* convert_item: a task becomes a subtask, unless it is in a sprint, or a
\* subtask a task.
Convert(i, p) ==
    /\ kind[i] # "gone"
    /\ IF p # None
       THEN kind[i] = "task" /\ p \in Present \ ({i} \cup Descendants(i)) /\ Current(i) = {}
       ELSE kind[i] = "subtask"
    /\ kind' = [kind EXCEPT ![i] = IF p # None THEN "subtask" ELSE "task"]
    /\ parent' = [parent EXCEPT ![i] = p]
    /\ UNCHANGED <<status, done, sprint, member, log, outcome>>

\* Rows of completed sprints keep their log when the item is deleted.
Forgotten(rows, I) == [m \in Memberships |-> IF rows[m].item \in I THEN [rows[m] EXCEPT !.item = None] ELSE rows[m]]

\* delete_item: what is below moves up; a subtask without a parent becomes a task.
DeleteItem(i) ==
    /\ kind[i] # "gone" /\ Room(Current(i))
    /\ member' = Forgotten(Detached(Current(i)), {i})
    /\ log' = DetachLog(Current(i))
    /\ kind' = [j \in Items |->
         IF j = i THEN "gone" ELSE IF parent[j] = i /\ kind[j] = "subtask" /\ parent[i] = None THEN "task" ELSE kind[j]]
    /\ parent' = [j \in Items |-> IF j = i THEN None ELSE IF parent[j] = i THEN parent[i] ELSE parent[j]]
    /\ status' = [status EXCEPT ![i] = Default]
    /\ UNCHANGED <<done, sprint, outcome>>

\* move_item of operations.py: a task leaves the project with all that is below.
MoveAway(i) ==
    LET gone == {i} \cup Descendants(i)
        D == UNION {Current(j) : j \in gone}
    IN /\ kind[i] = "task" /\ Room(D)
       /\ member' = Detached(D) /\ log' = DetachLog(D)
       /\ kind' = [j \in Items |-> IF j \in gone THEN "gone" ELSE kind[j]]
       /\ parent' = [j \in Items |-> IF j \in gone THEN None ELSE parent[j]]
       /\ status' = [j \in Items |-> IF j \in gone THEN Default ELSE status[j]]
       /\ UNCHANGED <<done, sprint, outcome>>

\* update_status: the category of a status changes.
Reclassify(st) ==
    /\ done' = IF st \in done THEN done \ {st} ELSE done \cup {st}
    /\ UNCHANGED <<items, sprint, member, log, outcome>>

\* delete_status: its items get another one.
ReplaceStatus(st, other) ==
    /\ st # other
    /\ \E i \in Items : status[i] = st
    /\ status' = [i \in Items |-> IF kind[i] # "gone" /\ status[i] = st THEN other ELSE status[i]]
    /\ UNCHANGED <<kind, parent, done, sprint, member, log, outcome>>

-----------------------------------------------------------------------------
OfSprints ==
    \/ \E s \in Sprints : Save(s) \/ Start(s) \/ Delete(s)
    \/ \E s \in Sprints, target \in Sprints \cup {None} : Complete(s, target)
    \/ \E i \in Items, target \in Sprints \cup {None} : Assign(i, target)

OfItems ==
    \/ \E i \in Items, p \in Items \cup {None} : Convert(i, p)
    \/ \E i \in Items : DeleteItem(i) \/ MoveAway(i)

OfStatuses ==
    \/ \E st \in Statuses : Reclassify(st)
    \/ \E st, other \in Statuses : ReplaceStatus(st, other)

\* The histories: who is unfinished in an active sprint, and whose category was
\* changed behind the back of the log.
Live(rows, state) == {m \in Memberships : rows[m].active /\ state[rows[m].sprint] = "active"}
Watch ==
    LET kept == {m \in Memberships : member'[m].sprint # None}
    IN opened' = (opened \cup {m \in Live(member', sprint') : status'[member'[m].item] \notin done'}) \cap kept
Logged == silent' = {m \in silent : member'[m].sprint # None}
Unlogged ==
    silent' = silent \cup {m \in Live(member, sprint) : IsDone(member[m].item) # (status'[member[m].item] \in done')}

Next ==
    /\ \/ OfSprints /\ Logged /\ UNCHANGED edits
       \/ (\E i \in Items, st \in Statuses : Transition(i, st)) /\ Logged /\ UNCHANGED edits
       \/ edits < MaxEdits /\ edits' = edits + 1 /\ ((OfItems /\ Logged) \/ (OfStatuses /\ Unlogged))
    /\ Watch

Spec == Init /\ [][Next]_vars

-----------------------------------------------------------------------------
TypeOK ==
    /\ kind \in [Items -> {"task", "subtask", "gone"}]
    /\ parent \in [Items -> Items \cup {None}]
    /\ \A i \in Items : Cardinality(Current(i)) <= 1
    /\ \A m \in Memberships : Len(log[m]) <= MaxEvents + 1

\* report(): where a membership is listed.
EverOpen(m) ==
    \E e \in ToSet(log[m]) : e.kind \in {"baseline", "added", "state"} /\ e.started /\ ~e.done
Listed(m) ==
    IF ~member[m].active /\ ~member[m].completed THEN "removed"
    ELSE IF ~Last(log[m]).done THEN "incomplete"
    ELSE IF EverOpen(m) THEN "completed" ELSE "outside"

(* What a sprint reports is what happened, although it is put together from*)
(* a log that many pages write: in an active sprint the last entry of every*)
(* member is its state, and every member can still be moved on at          *)
(* completion (it is no subtask); in a closed one exactly the memberships  *)
(* the report lists as completed are credited in its outcome, and they are *)
(* the ones that were really unfinished after the start and done at the    *)
(* end, whatever became of the items later.  Members whose category was    *)
(* changed by an edit of the statuses, which writes no log, are excepted   *)
(* from being current and from what really happened.                       *)
CurrentlyLogged(m) == ~IsDone(member[m].item) = ~Last(log[m]).done
SprintReportIsTrue ==
    /\ \A m \in Live(member, sprint) :
          /\ kind[member[m].item] = "task"
          /\ m \notin silent => CurrentlyLogged(m)
    /\ \A s \in Sprints : sprint[s] = "closed" =>
          /\ outcome[s] = {m \in Memberships : member[m].sprint = s /\ Listed(m) = "completed"}
          /\ \A m \in outcome[s] : m \in opened
          /\ \A m \in opened \ silent :
                member[m].sprint = s /\ Last(log[m]).done /\ member[m].completed => m \in outcome[s]
=============================================================================
