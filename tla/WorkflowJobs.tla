---------------------------- MODULE WorkflowJobs ----------------------------
(***************************************************************************)
(* The jobs of the workflow engine and the workers that run them (app.py:  *)
(* queue_workflow_event, process_workflow_jobs).  A job is an event; every *)
(* workflow that matches it is executed for it, action by action, with the *)
(* rows of workflow_execution and workflow_step_execution recording how    *)
(* far it came.                                                            *)
(*                                                                         *)
(* A pass selects a batch FOR UPDATE SKIP LOCKED.  The row locks of the    *)
(* whole batch end with the first commit or rollback, the list goes on: a  *)
(* later job is locked again by the UPDATE that sets it Running, whatever  *)
(* its state has become by then.  Running a job is one transaction, from   *)
(* that UPDATE to the commit; a failure is recorded in another one.        *)
(***************************************************************************)
EXTENDS Naturals, FiniteSets

CONSTANTS
    Workers,      \* processes and replicas running the worker loop
    Jobs,         \* primary keys of workflow_job rows, run in id order
    Workflows,    \* definitions that match, numbered in the order they are run
    Steps,        \* Steps[w]: the number of actions of workflow w
    Waits,        \* Waits[w]: those of them that are waits
    Undoable,     \* Undoable[w]: those that have a compensation
    Limit,        \* process_workflow_jobs(limit=50)
    RateLimit,    \* rate_limit_per_minute of a version
    Minute,       \* the window of the rate limit, and the delay it imposes
    WaitTime,     \* how long a wait lasts
    MaxDelay,     \* the 300 of min(300, 2 ** attempts)
    MaxAttempts,  \* attempts after which a job is Dead (5)
    MaxSteps,     \* bound: actions of a workflow
    MaxVersions,  \* bound: versions published of a workflow
    MaxReplays,   \* bound: replays of dead jobs
    MaxCrashes    \* bound: crashes of workers

RetryDelay(n) == IF 2^n <= MaxDelay THEN 2^n ELSE MaxDelay

\* validate_workflow and validate_action ask for at least one action and a limit
\* of at least one, and refuse a wait that has a compensation.
ASSUME WorkflowAssumption ==
    /\ MaxSteps \in Nat /\ Jobs \subseteq Nat \ {0} /\ Workflows \subseteq Nat \ {0}
    /\ Steps \in [Workflows -> 1 .. MaxSteps]
    /\ Waits \in [Workflows -> SUBSET (1 .. MaxSteps)]
    /\ Undoable \in [Workflows -> SUBSET (1 .. MaxSteps)]
    /\ \A w \in Workflows : Waits[w] \intersect Undoable[w] = {}
    /\ Limit \in Nat \ {0} /\ RateLimit \in Nat \ {0}
    /\ Minute \in Nat /\ WaitTime \in Nat /\ MaxDelay \in Nat
    /\ MaxAttempts \in Nat \ {0} /\ MaxVersions \in Nat \ {0}
    /\ MaxReplays \in Nat /\ MaxCrashes \in Nat

\* Holds for every cap; the provers know no powers.
ASSUME WorkflowDelayAssumption == \A n \in 0 .. MaxAttempts : RetryDelay(n) \in Nat

VARIABLES
    job,        \* workflow_job: state, attempts, wait (time to available_at)
    exec,       \* workflow_execution with its steps, per job and version
    last,       \* the version of the job's execution with the highest id
    resume,     \* time until resume_at of an execution
    recent,     \* time for which an execution still counts for the rate limit
    published,  \* the published version of each workflow
    locked,     \* the jobs whose rows a worker has locked
    list,       \* the jobs of its batch a worker has not come to yet
    phase,      \* what a worker does: "idle", "running", "parked" or "failing"
    cur,        \* the job a worker is at, or NoJob
    view,       \* a running worker: its job's executions as it read them
    capped,     \* ... the versions it found at their rate limit
    failure,    \* a failing worker: what it loaded after the rollback
    replays, crashes,
    ran,        \* history: how often the effect of a step was committed
    undone      \* history: how often its compensation was

vars == <<job, exec, last, resume, recent, published, locked, list, phase, cur, view,
          capped, failure, replays, crashes, ran, undone>>
session == <<locked, list, phase, cur, view, capped, failure>>
tables == <<job, exec, last, resume, recent, published>>

NoJob == 0
Versions == Workflows \X (1 .. MaxVersions)
Actions == 1 .. MaxSteps
JobStates == {"Absent", "Pending", "Retry", "Waiting", "Rate Limited", "Completed", "Dead"}
ExecStates == {"None", "Waiting", "Retry", "Completed", "Failed"}
Job == [state : JobStates, attempts : Nat, wait : Nat]
\* The Completed steps are those below next_action_index; undo is the
\* compensation_state of each step.
Exec == [state : ExecStates, next : 0 .. MaxSteps, undo : [Actions -> {"None", "Completed", "Failed"}]]
Failure == [attempts : Nat, state : JobStates, exec : Versions \union {<<>>}, was : ExecStates]

NoExec == [state |-> "None", next |-> 0, undo |-> [i \in Actions |-> "None"]]
NoView == [x \in Versions |-> NoExec]
NoFailure == [attempts |-> 0, state |-> "Absent", exec |-> <<>>, was |-> "None"]

TypeOK ==
    /\ job \in [Jobs -> Job]
    /\ exec \in [Jobs -> [Versions -> Exec]]
    /\ last \in [Jobs -> Versions \union {<<>>}]
    /\ resume \in [Jobs -> [Versions -> Nat]]
    /\ recent \in [Jobs -> [Versions -> Nat]]
    /\ published \in [Workflows -> 1 .. MaxVersions]
    /\ locked \in [Workers -> SUBSET Jobs]
    /\ list \in [Workers -> SUBSET Jobs]
    /\ phase \in [Workers -> {"idle", "running", "parked", "failing"}]
    /\ cur \in [Workers -> Jobs \union {NoJob}]
    /\ view \in [Workers -> [Versions -> Exec]]
    /\ capped \in [Workers -> SUBSET Versions]
    /\ failure \in [Workers -> Failure]
    /\ replays \in Nat /\ crashes \in Nat
    /\ ran \in [Jobs -> [Versions -> [Actions -> Nat]]]
    /\ undone \in [Jobs -> [Versions -> [Actions -> Nat]]]

Init ==
    /\ job = [j \in Jobs |-> [state |-> "Absent", attempts |-> 0, wait |-> 0]]
    /\ exec = [j \in Jobs |-> NoView]
    /\ last = [j \in Jobs |-> <<>>]
    /\ resume = [j \in Jobs |-> [x \in Versions |-> 0]]
    /\ recent = [j \in Jobs |-> [x \in Versions |-> 0]]
    /\ published = [w \in Workflows |-> 1]
    /\ locked = [p \in Workers |-> {}]
    /\ list = [p \in Workers |-> {}]
    /\ phase = [p \in Workers |-> "idle"]
    /\ cur = [p \in Workers |-> NoJob]
    /\ view = [p \in Workers |-> NoView]
    /\ capped = [p \in Workers |-> {}]
    /\ failure = [p \in Workers |-> NoFailure]
    /\ replays = 0
    /\ crashes = 0
    /\ ran = [j \in Jobs |-> [x \in Versions |-> [i \in Actions |-> 0]]]
    /\ undone = [j \in Jobs |-> [x \in Versions |-> [i \in Actions |-> 0]]]

-----------------------------------------------------------------------------
(* The rest of the application, as the engine sees it.                     *)

\* A page, an API call, a schedule or a breach commits a new event.
QueueWorkflowEvent(j) ==
    /\ job[j].state = "Absent"
    /\ \A i \in Jobs : job[i].state = "Absent" => j <= i
    /\ job' = [job EXCEPT ![j].state = "Pending"]
    /\ UNCHANGED <<exec, last, resume, recent, published, session, replays, crashes, ran, undone>>

\* An administrator publishes a changed package.
DeployWorkflowPackage(w) ==
    /\ published[w] < MaxVersions
    /\ published' = [published EXCEPT ![w] = @ + 1]
    /\ UNCHANGED <<job, exec, last, resume, recent, session, replays, crashes, ran, undone>>

\* Time passes until something that waits for it is due.
Less(n) == IF n > 0 THEN n - 1 ELSE 0

Tick ==
    /\ \E j \in Jobs : job[j].wait > 0 \/ \E x \in Versions : resume[j][x] > 0 \/ recent[j][x] > 0
    /\ job' = [j \in Jobs |-> [job[j] EXCEPT !.wait = Less(@)]]
    /\ resume' = [j \in Jobs |-> [x \in Versions |-> Less(resume[j][x])]]
    /\ recent' = [j \in Jobs |-> [x \in Versions |-> Less(recent[j][x])]]
    /\ UNCHANGED <<exec, last, published, session, replays, crashes, ran, undone>>

-----------------------------------------------------------------------------
(* process_workflow_jobs                                                   *)

LockedByOthers(p) == UNION {locked[q] : q \in Workers \ {p}}

\* The plausible mistake: jobs that were limited are never taken again.
DueNotLimited == {j \in Jobs : job[j].state \in {"Pending", "Retry", "Waiting"} /\ job[j].wait = 0}

Due == {j \in Jobs : job[j].state \in {"Pending", "Retry", "Waiting", "Rate Limited"} /\ job[j].wait = 0}

\* The first Limit elements of a set of jobs in id order.
IsFirst(B, S) ==
    /\ B \subseteq S
    /\ Cardinality(B) = IF Limit <= Cardinality(S) THEN Limit ELSE Cardinality(S)
    /\ \A i \in B, j \in S \ B : i < j

Select(p) ==
    /\ phase[p] = "idle" /\ list[p] = {}
    /\ \E B \in SUBSET (Due \ LockedByOthers(p)) :
         /\ B # {} /\ IsFirst(B, Due \ LockedByOthers(p))
         /\ list' = [list EXCEPT ![p] = B]
         /\ locked' = [locked EXCEPT ![p] = B]
    /\ UNCHANGED <<tables, phase, cur, view, capped, failure, replays, crashes, ran, undone>>

\* The plausible mistake: nothing locks the job again.
UnlockedEver(p, j) == TRUE

\* The UPDATE of a row another transaction has locked waits for its end.
MayLock(p, j) == j \notin LockedByOthers(p)

\* workflow_rate_limited
AtRateLimit(x) == Cardinality({j \in Jobs : recent[j][x] > 0}) >= RateLimit

\* The next job of the batch is set Running, whatever its state is by now, and
\* the rows of its executions are read.
StartJob(p, j) ==
    /\ phase[p] = "idle"
    /\ j \in list[p] /\ \A i \in list[p] : j <= i
    /\ MayLock(p, j)
    /\ locked' = [locked EXCEPT ![p] = @ \union {j}]
    /\ list' = [list EXCEPT ![p] = @ \ {j}]
    /\ phase' = [phase EXCEPT ![p] = "running"]
    /\ cur' = [cur EXCEPT ![p] = j]
    /\ view' = [view EXCEPT ![p] = exec[j]]
    /\ capped' = [capped EXCEPT ![p] = {x \in Versions : AtRateLimit(x)}]
    /\ UNCHANGED <<tables, failure, replays, crashes, ran, undone>>

\* The transaction ends, and with it every lock, those of the jobs still on the
\* list included.
EndTransaction(p) ==
    /\ locked' = [locked EXCEPT ![p] = {}]
    /\ view' = [view EXCEPT ![p] = NoView]
    /\ capped' = [capped EXCEPT ![p] = {}]

\* The action at which an execution stops next: a wait, or the end.
WaitsFrom(w, n) == {i \in Waits[w] : n < i /\ i <= Steps[w]}
StopAt(w, n) ==
    IF WaitsFrom(w, n) = {} THEN Steps[w]
    ELSE CHOOSE i \in WaitsFrom(w, n) : \A k \in WaitsFrom(w, n) : i <= k

Of(w) == <<w, published[w]>>

\* A version that is not started yet is held back by its rate limit; a started
\* one may stop at a wait.
HeldBack(v, cap, w) == v[Of(w)].state = "None" /\ Of(w) \in cap
Blocked(v, cap, w) ==
    \/ HeldBack(v, cap, w)
    \/ v[Of(w)].state # "Completed" /\ WaitsFrom(w, v[Of(w)].next) # {}

\* The workflows a run reaches: all up to the first that waits or is limited.
Reached(v, cap) == {w \in Workflows : \A u \in Workflows : Blocked(v, cap, u) => w <= u}

\* Those whose actions it executes.
Executed(v, cap) ==
    {w \in Reached(v, cap) : v[Of(w)].state # "Completed" /\ ~HeldBack(v, cap, w)}

\* next_action_index, from which an execution goes on.
FirstAction(e) == e.next

Advanced(w, e) ==
    [e EXCEPT !.state = IF WaitsFrom(w, e.next) = {} THEN "Completed" ELSE "Waiting",
              !.next = StopAt(w, FirstAction(e))]

\* The plausible mistake: a job held back by a rate limit counts as Completed.
OutcomeUnlessWaiting(stops, waiting) == IF waiting = {} THEN "Completed" ELSE "Waiting"

Outcome(stops, waiting) ==
    IF stops = {} THEN "Completed" ELSE IF waiting # {} THEN "Waiting" ELSE "Rate Limited"

\* What a run adds to the effects r of the actions of an execution.
Effects(w, e, r) ==
    [i \in Actions |->
        IF FirstAction(e) < i /\ i <= StopAt(w, FirstAction(e)) /\ i \notin Waits[w] THEN r[i] + 1 ELSE r[i]]

\* The commit of a run: executions, steps and effects, and the job Completed,
\* Waiting or Rate Limited.
CommitJob(p) ==
    LET j == cur[p]
        v == view[p]
        done == {Of(w) : w \in Executed(v, capped[p])}
        fresh == {w \in Executed(v, capped[p]) : v[Of(w)].state = "None"}
        stops == {w \in Reached(v, capped[p]) : Blocked(v, capped[p], w)}
        waiting == stops \intersect Executed(v, capped[p])
    IN /\ phase[p] = "running"
       /\ exec' = [exec EXCEPT ![j] =
            [x \in Versions |-> IF x \in done THEN Advanced(x[1], v[x]) ELSE @[x]]]
       /\ \/ fresh = {} /\ last' = last
          \/ \E w \in fresh : (\A u \in fresh : u <= w) /\ last' = [last EXCEPT ![j] = Of(w)]
       /\ resume' = [resume EXCEPT ![j] =
            [x \in Versions |-> IF x \notin done THEN @[x] ELSE IF x[1] \in waiting THEN WaitTime ELSE 0]]
       /\ recent' = [recent EXCEPT ![j] =
            [x \in Versions |-> IF x \in done /\ x[1] \in fresh THEN Minute ELSE @[x]]]
       /\ job' = [job EXCEPT ![j].state = Outcome(stops, waiting),
                             ![j].wait = IF stops = {} THEN 0 ELSE IF waiting # {} THEN WaitTime ELSE Minute]
       /\ ran' = [ran EXCEPT ![j] =
            [x \in Versions |-> IF x \in done THEN Effects(x[1], v[x], @[x]) ELSE @[x]]]
       /\ EndTransaction(p)
       /\ phase' = [phase EXCEPT ![p] = IF stops = {} THEN "idle" ELSE "parked"]
       /\ cur' = [cur EXCEPT ![p] = IF stops = {} THEN NoJob ELSE j]
       /\ UNCHANGED <<published, list, failure, replays, crashes, undone>>

\* A job that waits or is limited is left alone, if its state still says so
\* when it is loaded again after the commit; otherwise it is set Completed.
LeaveParked(p) ==
    LET j == cur[p]
    IN /\ phase[p] = "parked"
       /\ \/ job[j].state \in {"Waiting", "Rate Limited"} /\ job' = job
          \/ /\ job[j].state \notin {"Waiting", "Rate Limited"} /\ MayLock(p, j)
             /\ job' = [job EXCEPT ![j].state = "Completed"]
       /\ phase' = [phase EXCEPT ![p] = "idle"]
       /\ cur' = [cur EXCEPT ![p] = NoJob]
       /\ UNCHANGED <<exec, last, resume, recent, published, locked, list, view, capped, failure,
                      replays, crashes, ran, undone>>

\* An action raises: the run is rolled back, its locks are released, and the
\* job and its latest execution are loaded again, without a lock.
Fail(p) ==
    LET j == cur[p]
    IN /\ phase[p] = "running"
       /\ failure' = [failure EXCEPT ![p] =
            [attempts |-> job[j].attempts, state |-> job[j].state, exec |-> last[j],
             was |-> IF last[j] = <<>> THEN "None" ELSE exec[j][last[j]].state]]
       /\ phase' = [phase EXCEPT ![p] = "failing"]
       /\ EndTransaction(p)
       /\ UNCHANGED <<tables, list, cur, replays, crashes, ran, undone>>

\* A column is written only if the session changes the value it loaded.
Written(loaded, value, stored) == IF value # loaded THEN value ELSE stored

\* The execution whose state a session that loaded "was" sets.
Marked(e, was, value) == [e EXCEPT !.state = Written(was, value, e.state)]

\* The plausible mistake: what was undone before is undone again.
ToUndoAgain(w, e) == {i \in Undoable[w] : i <= e.next}

\* The completed steps that have a compensation and are not compensated yet.
ToUndo(w, e) == {i \in Undoable[w] : i <= e.next /\ e.undo[i] # "Completed"}

\* The plausible mistake: a dead job is not compensated.
UndoNothing(w, e, dead, undoes) == e

\* compensate_workflow_execution, if the job is dead.
Compensated(w, e, dead, undoes) ==
    IF ~dead THEN e
    ELSE [e EXCEPT !.undo = [i \in Actions |->
            IF i \notin ToUndo(w, e) THEN @[i] ELSE IF undoes THEN "Completed" ELSE "Failed"]]

Undoings(w, e, u) == [i \in Actions |-> IF i \in ToUndo(w, e) THEN u[i] + 1 ELSE u[i]]

\* The commit of a failure: attempts, the state of the job and of the execution
\* and, after the last attempt, the compensations (which the target's loss fails).
CommitFailure(p, undoes) ==
    LET j == cur[p]
        f == failure[p]
        n == f.attempts + 1
        dead == n >= MaxAttempts
    IN /\ phase[p] = "failing"
       /\ MayLock(p, j)
       /\ job' = [job EXCEPT ![j] =
            [state |-> Written(f.state, IF dead THEN "Dead" ELSE "Retry", @.state),
             attempts |-> n,
             wait |-> IF dead THEN @.wait ELSE RetryDelay(n)]]
       /\ exec' = [exec EXCEPT ![j] =
            [x \in Versions |->
               IF x # f.exec THEN @[x]
               ELSE Compensated(x[1], Marked(@[x], f.was, IF dead THEN "Failed" ELSE "Retry"), dead, undoes)]]
       /\ undone' = [undone EXCEPT ![j] =
            [x \in Versions |->
               IF x = f.exec /\ dead /\ undoes THEN Undoings(x[1], exec[j][x], @[x]) ELSE @[x]]]
       /\ failure' = [failure EXCEPT ![p] = NoFailure]
       /\ phase' = [phase EXCEPT ![p] = "idle"]
       /\ cur' = [cur EXCEPT ![p] = NoJob]
       /\ UNCHANGED <<last, resume, recent, published, locked, list, view, capped, replays, crashes, ran>>

\* The process dies, or an exception leaves the pass: rolled back.
Crash(p) ==
    /\ crashes < MaxCrashes
    /\ phase[p] # "idle" \/ list[p] # {}
    /\ crashes' = crashes + 1
    /\ EndTransaction(p)
    /\ list' = [list EXCEPT ![p] = {}]
    /\ failure' = [failure EXCEPT ![p] = NoFailure]
    /\ phase' = [phase EXCEPT ![p] = "idle"]
    /\ cur' = [cur EXCEPT ![p] = NoJob]
    /\ UNCHANGED <<tables, replays, ran, undone>>

\* The page of the administrator: a dead job is queued again.
ReplayDead(j) ==
    /\ job[j].state = "Dead" /\ replays < MaxReplays
    /\ \A p \in Workers : j \notin locked[p]
    /\ job' = [job EXCEPT ![j] = [state |-> "Retry", attempts |-> 0, wait |-> 0]]
    /\ replays' = replays + 1
    /\ UNCHANGED <<exec, last, resume, recent, published, session, crashes, ran, undone>>

-----------------------------------------------------------------------------
Pass(p) ==
    \/ Select(p)
    \/ \E j \in Jobs : StartJob(p, j)
    \/ CommitJob(p) \/ LeaveParked(p) \/ Fail(p)
    \/ \E undoes \in BOOLEAN : CommitFailure(p, undoes)

Next ==
    \/ \E j \in Jobs : QueueWorkflowEvent(j) \/ ReplayDead(j)
    \/ \E w \in Workflows : DeployWorkflowPackage(w)
    \/ Tick
    \/ \E p \in Workers : Pass(p) \/ Crash(p)

Spec == Init /\ [][Next]_vars

\* The worker loop calls process_workflow_jobs again and again; time passes.
FairSpec == Spec /\ WF_vars(Tick) /\ \A p \in Workers : WF_vars(Pass(p))

-----------------------------------------------------------------------------
(* Properties                                                              *)

\* The effect of an action is committed at most once for a job and a version,
\* although batches overlap, workers crash, and jobs wait, fail, die and are
\* replayed: the row lock taken by setting the job Running and the recorded
\* next_action_index keep it so.
StepsRunOnce == \A j \in Jobs, x \in Versions, i \in Actions : ran[j][x][i] <= 1

\* With one worker, a Completed job has executed a version of every workflow to
\* its end, whatever waits, limits, failures and replays came in between.
CompletedIsExecuted ==
    \A j \in Jobs : job[j].state = "Completed" =>
        \A w \in Workflows : \E n \in 1 .. MaxVersions :
            \A i \in 1 .. Steps[w] : i \notin Waits[w] => ran[j][<<w, n>>][i] = 1

\* A compensation is carried out at most once, and for an action that was
\* carried out, however often the job dies and whoever buries it.
UndoneOnce ==
    \A j \in Jobs, x \in Versions, i \in Actions : undone[j][x][i] <= ran[j][x][i]

\* With one worker, a dead job's latest execution leaves no completed action
\* with a compensation that was not at least tried.
DeadIsCompensated ==
    \A j \in Jobs : job[j].state = "Dead" /\ last[j] # <<>> =>
        LET e == exec[j][last[j]]
        IN \A i \in Undoable[last[j][1]] : i <= e.next => e.undo[i] # "None"

\* Every event is eventually executed or given up, however it is delayed by
\* waits, rate limits, failures and crashes.
EventuallySettled ==
    \A j \in Jobs : job[j].state = "Pending" ~> job[j].state \in {"Completed", "Dead"}

=============================================================================
