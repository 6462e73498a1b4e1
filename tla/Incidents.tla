------------------------------ MODULE Incidents ------------------------------
(***************************************************************************)
(* Incidents, their parents and children, tasks, hold reasons and service  *)
(* outages: transition_ticket and the pages that end in it, set_parent,    *)
(* and the task pages.                                                     *)
(*                                                                         *)
(* Under READ COMMITTED a page writes at its end what it decided from rows *)
(* it loaded before.  One page at a time may be open (loaded, not written) *)
(* while others run to completion; two pages that overlap are always one   *)
(* inside the other up to the order of their reads.  A page that locks the *)
(* incident is one step.                                                   *)
(***************************************************************************)
EXTENDS Naturals, FiniteSets, Sequences

CONSTANTS
    Incidents,       \* the incidents that may be created
    HoldReasons,     \* why a Pending incident may wait, "caller" included
    AncestorLimit,   \* how many ancestors _ancestors() reads (50 in the code)
    Detailed,        \* bound: the incidents that are given tasks and CIs
    MaxTasks,        \* bound: tasks of one incident
    MaxRaces         \* bound: kinds of pages that overlap with another

ASSUME IncidentsAssumption ==
    /\ IsFiniteSet(Incidents)
    /\ "caller" \in HoldReasons /\ "none" \notin HoldReasons
    /\ Detailed \subseteq Incidents
    /\ AncestorLimit \in Nat /\ MaxTasks \in Nat /\ MaxRaces \in Nat

VARIABLES
    inc,       \* the ticket rows
    tasks,     \* the incident tasks of each
    outage,    \* is an outage of the service behind the CI open?
    links,     \* <<child, parent>>: the rows of RecordLink
    open,      \* the page that is open, or Idle
    followed,  \* history: incidents whose last move was their parent's
    raced      \* history: pages written over rows changed after they were read

vars == <<inc, tasks, outage, links, open, followed, raced>>

Finished == {"Resolved", "Closed", "Cancelled"}
States == {"New", "In Progress", "Pending"} \cup Finished
\* Of impact and CI only their conjunction matters: affects says that the
\* impact is High or Critical and a CI of the incident backs a service.
Row == [state: States \cup {"absent"}, hold: HoldReasons \cup {"none"},
        resolved: BOOLEAN, affects: BOOLEAN]
Affecting(i) == IF i \in Detailed THEN BOOLEAN ELSE {FALSE}
Exists(i) == inc[i].state # "absent"

TicketTransitions ==
    [s \in States |->
        CASE s = "New" -> {"New", "In Progress", "Pending", "Resolved", "Cancelled"}
          [] s = "In Progress" -> {"In Progress", "Pending", "Resolved", "Cancelled"}
          [] s = "Pending" -> {"Pending", "In Progress", "Resolved", "Cancelled"}
          [] s = "Resolved" -> {"Resolved", "In Progress", "Closed"}
          [] OTHER -> {s}]

\* Of a task only whether it is finished matters: "Open" stands for Open,
\* Work in Progress and Pending, "Closed" for Closed Complete and Incomplete.
TaskStates == {"Open", "Closed", "Cancelled"}
TaskTransitions == [s \in TaskStates |-> IF s = "Open" THEN TaskStates ELSE {s}]
Task == [state: TaskStates, required: BOOLEAN]

Idle == [page |-> "none", stale |-> FALSE]
Pages == {"move", "parent", "task"}

Init ==
    /\ inc = [i \in Incidents |->
                [state |-> "absent", hold |-> "none", resolved |-> FALSE, affects |-> FALSE]]
    /\ tasks = [i \in Incidents |-> <<>>]
    /\ outage = [i \in Incidents |-> FALSE]
    /\ links = {}
    /\ open = Idle
    /\ followed = {}
    /\ raced = {}

-----------------------------------------------------------------------------
(* Parents.                                                                *)

ParentsOf(i) == {p \in Incidents : <<i, p>> \in links}

\* _ancestors: the first link of each incident is followed, AncestorLimit
\* times at most.  Which of several links a query without an order returns
\* first is the database's choice.
Climb(firsts, i) ==
    LET up[k \in 0..AncestorLimit] ==
            IF k = 0 THEN {}
            ELSE LET below == IF k = 1 THEN {i}
                              ELSE {firsts[j] : j \in {x \in up[k - 1] : x \in DOMAIN firsts}}
                 IN  up[k - 1] \cup below
    IN  up[AncestorLimit]

HasParent == {j \in Incidents : ParentsOf(j) # {}}
FirstLinks == {f \in [HasParent -> Incidents] : \A j \in HasParent : f[j] \in ParentsOf(j)}

\* The plausible mistake: only the parent itself is compared with the child.
MayBeParentDirect(i, p, firsts) == p # i /\ Exists(p)

MayBeParent(i, p, firsts) == p # i /\ Exists(p) /\ i \notin Climb(firsts, p)

\* set_parent once the checks have passed: every link of the child goes, the
\* new one comes.
WithParent(ls, i, p) == {l \in ls : l[1] # i} \cup (IF p = i THEN {} ELSE {<<i, p>>})

-----------------------------------------------------------------------------
(* What a transition writes.                                               *)

RecordResolution(resolved, old, new) ==
    CASE new = old -> resolved
      [] new \in {"Resolved", "Closed"} -> TRUE
      [] new = "Cancelled" -> resolved
      [] OTHER -> FALSE

\* The row of an incident after transition_ticket(to, reason).
Moved(row, to, reason) ==
    [row EXCEPT !.state = to,
                !.hold = IF to # "Pending" THEN "none"
                         ELSE IF reason # "none" THEN reason
                         ELSE IF row.state = "Pending" THEN row.hold
                         ELSE "caller",
                !.resolved = RecordResolution(row.resolved, row.state, to)]

\* The row of a child that follows its parent's row p.
Synced(row, p) ==
    [row EXCEPT !.state = p.state,
                !.hold = IF p.state = "Pending" THEN p.hold ELSE "none",
                !.resolved = RecordResolution(row.resolved, row.state, p.state)]

Unfinished(t) == t.state = "Open"
RequiredOpen(ts) == \E k \in DOMAIN ts : ts[k].required /\ Unfinished(ts[k])

CancelOpen(ts) == [k \in DOMAIN ts |-> IF Unfinished(ts[k]) THEN [ts[k] EXCEPT !.state = "Cancelled"] ELSE ts[k]]

\* The plausible mistake: an outage ends only with the incident's closure.
ShouldBeOpenUntilClosed(row) == row.state \notin {"Closed", "Cancelled"} /\ row.affects

\* sync_service_outages: an outage is open exactly for an unfinished incident
\* of high impact whose CI backs a service.
ShouldBeOpen(row) == row.state \notin Finished /\ row.affects

\* The columns of new that differ from what was read are written; the others
\* keep what the table holds.
Written(read, new, held) ==
    [f \in DOMAIN held |-> IF new[f] # read[f] THEN new[f] ELSE held[f]]

Syncs == {"Pending", "Resolved", "Closed", "Cancelled"}
Followers(i, to, ls) ==
    IF to \notin Syncs THEN {}
    ELSE {c \in Incidents \ {i} : <<c, i>> \in ls /\ Exists(c) /\ inc[c].state # to
                                  /\ to \in TicketTransitions[inc[c].state]}

TasksAfter(i, old, to, followers) ==
    [x \in Incidents |->
        IF \/ x = i /\ to # old /\ to \in {"Cancelled", "Closed"}
           \/ x \in followers /\ to \in {"Cancelled", "Closed"}
        THEN CancelOpen(tasks[x]) ELSE tasks[x]]

\* transition_ticket written over the tables: read is the row the page
\* loaded, affects what the rest of the page makes of impact and CI;
\* resync: the page looks at the outages once more after that.
Write(i, read, to, reason, affects, resync) ==
    LET moved == Moved(read, to, reason)
        final == [moved EXCEPT !.affects = affects]
        followers == Followers(i, to, links)
    IN  /\ inc' = [x \in Incidents |->
                     IF x = i THEN Written(read, final, inc[i])
                     ELSE IF x \in followers THEN Synced(inc[x], moved) ELSE inc[x]]
        /\ tasks' = TasksAfter(i, read.state, to, followers)
        /\ outage' = [outage EXCEPT ![i] = ShouldBeOpen(IF resync THEN final ELSE moved)]
        /\ followed' = (followed \ {i}) \cup followers

MayMove(i, to) ==
    /\ Exists(i)
    /\ to \in TicketTransitions[inc[i].state]
    /\ to \in {"Resolved", "Closed"} => ~RequiredOpen(tasks[i])

-----------------------------------------------------------------------------
(* A page that commits while another is open makes that one stale.         *)

Stale == open' = IF open.page = "none" THEN open ELSE [open EXCEPT !.stale = TRUE]
MayRun == ~open.stale

Reasons(to) == IF to = "Pending" THEN HoldReasons \cup {"none"} ELSE {"none"}

\* ticket_new: the incident, its parent, its CI and the outage.
TicketNew(i) ==
    /\ MayRun /\ ~Exists(i)
    /\ \E affects \in Affecting(i), p \in Incidents :
         LET row == [state |-> "New", hold |-> "none", resolved |-> FALSE, affects |-> affects] IN
         /\ p = i \/ \E firsts \in FirstLinks : MayBeParent(i, p, firsts)
         /\ inc' = [inc EXCEPT ![i] = row]
         /\ links' = WithParent(links, i, p)
         /\ outage' = [outage EXCEPT ![i] = ShouldBeOpen(row)]
    /\ Stale
    /\ UNCHANGED <<tasks, followed, raced>>

\* The update form of ticket_detail: refused for a locked record, it moves the
\* incident and then sets impact, parent and CI.
UpdatePage(i) ==
    /\ MayRun /\ Exists(i) /\ inc[i].state \notin Finished
    /\ \E to \in TicketTransitions[inc[i].state], affects \in Affecting(i), p \in Incidents :
         \E reason \in (IF to = "Pending" THEN HoldReasons ELSE {"none"}) :
           /\ MayMove(i, to)
           /\ p = i \/ \E firsts \in FirstLinks : MayBeParent(i, p, firsts)
           /\ Write(i, inc[i], to, reason, affects, TRUE)
           /\ links' = WithParent(links, i, p)
    /\ Stale
    /\ UNCHANGED raced

\* api_ticket_update: the state first, then the priority with its impact, and
\* no second look at the outages.
ApiTicketUpdate(i) ==
    /\ MayRun /\ Exists(i)
    /\ \E to \in TicketTransitions[inc[i].state], affects \in Affecting(i) :
         \E reason \in Reasons(to) :
           /\ MayMove(i, to)
           /\ Write(i, inc[i], to, reason, affects, FALSE)
    /\ Stale
    /\ UNCHANGED <<links, raced>>

\* A comment of the caller ends the wait for the caller.
CallerReplied(i) ==
    /\ MayRun /\ inc[i].state = "Pending" /\ inc[i].hold = "caller"
    /\ Write(i, inc[i], "In Progress", "none", inc[i].affects, FALSE)
    /\ Stale
    /\ UNCHANGED <<links, raced>>

\* task_ci_add: another CI, under the lock of the incident.
TaskCiAdd(i) ==
    /\ MayRun /\ Exists(i) /\ inc[i].state \notin Finished
    /\ i \in Detailed
    /\ inc' = [inc EXCEPT ![i].affects = TRUE]
    /\ Stale
    /\ UNCHANGED <<tasks, outage, links, followed, raced>>

\* incident_task_add: under the lock of the incident.
IncidentTaskAdd(i) ==
    /\ MayRun /\ Exists(i) /\ inc[i].state \notin Finished
    /\ i \in Detailed /\ Len(tasks[i]) < MaxTasks
    /\ \E required \in BOOLEAN :
         tasks' = [tasks EXCEPT ![i] = Append(@, [state |-> "Open", required |-> required])]
    /\ Stale
    /\ UNCHANGED <<inc, outage, links, followed, raced>>

-----------------------------------------------------------------------------
(* The pages that read, check and write later: a move (the board, the      *)
(* action bar, the update form, the API), a new parent, a task.            *)

MayOpen == open.page = "none" /\ Cardinality(raced) < MaxRaces

OpenMove(i) ==
    /\ MayOpen
    /\ \E to \in States : \E reason \in Reasons(to) :
         /\ MayMove(i, to)
         /\ open' = [page |-> "move", i |-> i, to |-> to, reason |-> reason, read |-> inc[i], stale |-> FALSE]
    /\ UNCHANGED <<inc, tasks, outage, links, followed, raced>>

OpenParent(i) ==
    /\ MayOpen /\ Exists(i) /\ inc[i].state \notin Finished
    /\ \E p \in Incidents :
         /\ ParentsOf(i) # {p} /\ (p = i => ParentsOf(i) # {})
         /\ p = i \/ \E firsts \in FirstLinks : MayBeParent(i, p, firsts)
         /\ open' = [page |-> "parent", i |-> i, to |-> p, stale |-> FALSE]
    /\ UNCHANGED <<inc, tasks, outage, links, followed, raced>>

OpenTask(i) ==
    /\ MayOpen
    /\ \E k \in DOMAIN tasks[i] : \E to \in TaskTransitions[tasks[i][k].state] :
         /\ tasks[i][k].state = "Open" \/ to # tasks[i][k].state
         /\ open' = [page |-> "task", i |-> i, k |-> k, to |-> to, stale |-> FALSE]
    /\ UNCHANGED <<inc, tasks, outage, links, followed, raced>>

CloseMove ==
    /\ open.page = "move"
    /\ Write(open.i, open.read, open.to, open.reason, open.read.affects, FALSE)
    /\ UNCHANGED links

CloseParent ==
    /\ open.page = "parent"
    /\ links' = WithParent(links, open.i, open.to)
    /\ UNCHANGED <<inc, tasks, outage, followed>>

CloseTask ==
    /\ open.page = "task"
    /\ tasks' = [tasks EXCEPT ![open.i][open.k].state = open.to]
    /\ UNCHANGED <<inc, outage, links, followed>>

\* The open page writes and commits.
Close ==
    /\ CloseMove \/ CloseParent \/ CloseTask
    /\ raced' = IF open.stale THEN raced \cup {open.page} ELSE raced
    /\ open' = Idle

Page(i) ==
    \/ TicketNew(i) \/ UpdatePage(i) \/ ApiTicketUpdate(i) \/ CallerReplied(i)
    \/ TaskCiAdd(i) \/ IncidentTaskAdd(i)
    \/ OpenMove(i) \/ OpenParent(i) \/ OpenTask(i)

Next == Close \/ \E i \in Incidents : Page(i)

Spec == Init /\ [][Next]_vars

-----------------------------------------------------------------------------
TypeOK ==
    /\ inc \in [Incidents -> Row]
    /\ tasks \in [Incidents -> Seq(Task)]
    /\ outage \in [Incidents -> BOOLEAN]
    /\ links \subseteq Incidents \X Incidents
    /\ open.page \in Pages \cup {"none"}
    /\ followed \subseteq Incidents
    /\ raced \subseteq Pages

(* incident_hierarchy: "one parent, no loops".  Holds as long as no two    *)
(* pages set parents at the same time: set_parent reads the ancestors and  *)
(* writes the link without a lock.                                         *)
NoParentLoop ==
    "parent" \notin raced =>
        /\ \A i \in Incidents : Cardinality(ParentsOf(i)) <= 1
        /\ \A S \in (SUBSET Incidents) \ {{}} : \E i \in S : ParentsOf(i) \cap S = {}

\* The hold reason is there exactly while the incident waits, and the time of
\* resolution exactly while it is resolved or closed, for children that follow
\* their parent too.
FieldsFollowState(i) ==
    /\ inc[i].hold # "none" <=> inc[i].state = "Pending"
    /\ inc[i].resolved <=> inc[i].state \in {"Resolved", "Closed"}

\* Nobody keeps working on tasks of a closed or cancelled incident, whether it
\* was moved itself or follows its parent, and however the move races with the
\* addition of a task (cancel_open_child_tasks).
NoTaskOutlives(i) ==
    inc[i].state \in {"Closed", "Cancelled"} => \A k \in DOMAIN tasks[i] : ~Unfinished(tasks[i][k])

\* An incident that finished by its own transition has no required task open
\* and no outage running.  It does not hold for one that followed its parent:
\* neither is looked at there.
NothingOpen(i) ==
    inc[i].state \in Finished =>
        /\ ~outage[i]
        /\ inc[i].state # "Cancelled" => ~RequiredOpen(tasks[i])

(* What belongs to an incident follows its state: hold reason and time of  *)
(* resolution; no task outlives it; and if it finished by its own          *)
(* transition it leaves no required task and no outage.  Unless a page     *)
(* that changes tasks, or another move, was overtaken: each writes only    *)
(* the columns it changed.                                                 *)
FinishedIsComplete ==
    /\ "move" \notin raced => \A i \in Incidents : FieldsFollowState(i)
    /\ "task" \notin raced => \A i \in Incidents : NoTaskOutlives(i)
    /\ {"move", "task"} \cap raced = {} => \A i \in Incidents \ followed : NothingOpen(i)
=============================================================================
