--------------------------- MODULE WorkflowProofs ---------------------------
(***************************************************************************)
(* Proofs about WorkflowJobs for any number of workers, jobs, workflows,   *)
(* versions and actions and every bound: type correctness, no action is    *)
(* carried out twice, and no compensation is.  For one worker, that a      *)
(* Completed job was executed to its end and a Dead one compensated.       *)
(***************************************************************************)
EXTENDS WorkflowJobs, WellFoundedInduction, TLAPS

Undone(e, i) == e.undo[i] = "Completed"

\* The records of an execution of workflow w agree with its effects r and
\* their compensations u: what is below next_action_index has happened once,
\* what is marked compensated has been undone once.
EffectsMatch(w, e, r) ==
    /\ e.next <= Steps[w]
    /\ \A i \in Actions : r[i] = IF i <= e.next /\ i \notin Waits[w] THEN 1 ELSE 0

UndoingsMatch(w, e, u) ==
    \A i \in Actions :
        /\ u[i] = IF Undone(e, i) THEN 1 ELSE 0
        /\ Undone(e, i) => i <= e.next /\ i \in Undoable[w]

RecordsMatch ==
    \A j \in Jobs, x \in Versions :
        /\ EffectsMatch(x[1], exec[j][x], ran[j][x])
        /\ UndoingsMatch(x[1], exec[j][x], undone[j][x])

\* A row is locked by one worker only, and a worker runs a job on the rows as
\* they are, under its lock.
LocksExclude == \A p, q \in Workers : p # q => locked[p] \intersect locked[q] = {}

RunsUnderLock ==
    \A p \in Workers :
        /\ phase[p] # "idle" => cur[p] \in Jobs
        /\ phase[p] = "running" => cur[p] \in locked[p] /\ view[p] = exec[cur[p]]

WorkflowInv == TypeOK /\ RecordsMatch /\ LocksExclude /\ RunsUnderLock

-----------------------------------------------------------------------------
(* Executions as values                                                    *)

LEMMA VersionsTyped == \A x \in Versions : x[1] \in Workflows /\ x = <<x[1], x[2]>> /\ x[2] \in 1 .. MaxVersions
  BY DEF Versions

LEMMA StepsTyped ==
    ASSUME NEW w \in Workflows
    PROVE  /\ Steps[w] \in Nat /\ Steps[w] \in 1 .. MaxSteps /\ MaxSteps \in Nat
           /\ Waits[w] \subseteq Actions /\ Undoable[w] \subseteq Actions
           /\ Waits[w] \intersect Undoable[w] = {}
  BY WorkflowAssumption DEF Actions

\* A set of natural numbers that is not empty has a least element.
LEMMA LeastExists ==
    ASSUME NEW S, S \subseteq Nat, S # {}
    PROVE  \E i \in S : \A k \in S : i <= k
  <1>1. PICK i \in S : \A k \in S : ~(<<k, i>> \in OpToRel(<, Nat))
    BY NatLessThanWellFounded, WFMin
  <1>2. \A k \in S : ~(k < i)
    BY <1>1 DEF OpToRel
  <1> QED
    BY <1>2

\* An execution stops no earlier than where it goes on, and within its workflow.
LEMMA StopAtTyped ==
    ASSUME NEW w \in Workflows, NEW n \in Nat, n <= Steps[w]
    PROVE  StopAt(w, n) \in Nat /\ n <= StopAt(w, n) /\ StopAt(w, n) <= Steps[w]
  <1> DEFINE S == WaitsFrom(w, n)
  <1>1. S \subseteq Nat /\ \A i \in S : n < i /\ i <= Steps[w]
    BY StepsTyped DEF WaitsFrom, Actions
  <1>2. CASE S = {}
    BY <1>2, StepsTyped DEF StopAt
  <1>3. CASE S # {}
    <2>1. \E i \in S : \A k \in S : i <= k
      BY <1>1, <1>3, LeastExists
    <2>2. StopAt(w, n) = CHOOSE i \in S : \A k \in S : i <= k
      BY <1>3 DEF StopAt
    <2>3. StopAt(w, n) \in S
      BY <2>1, <2>2
    <2> QED
      BY <1>1, <2>3, StepsTyped
  <1> QED
    BY <1>2, <1>3

LEMMA ExecTyped ==
    ASSUME NEW e \in Exec
    PROVE  e.next \in Nat /\ e.next \in 0 .. MaxSteps /\ e.state \in ExecStates
           /\ e.undo \in [Actions -> {"None", "Completed", "Failed"}]
  BY WorkflowAssumption DEF Exec

\* A run moves an execution to its next stop, and adds exactly the effects of
\* the actions in between.
LEMMA RunKeepsRecords ==
    ASSUME NEW w \in Workflows, NEW e \in Exec, NEW r \in [Actions -> Nat], NEW u \in [Actions -> Nat],
           EffectsMatch(w, e, r), UndoingsMatch(w, e, u)
    PROVE  /\ Advanced(w, e) \in Exec
           /\ Effects(w, e, r) \in [Actions -> Nat]
           /\ EffectsMatch(w, Advanced(w, e), Effects(w, e, r))
           /\ UndoingsMatch(w, Advanced(w, e), u)
  <1> DEFINE a == Advanced(w, e)
             f == Effects(w, e, r)
             stop == StopAt(w, e.next)
  <1>1. e.next \in Nat /\ e.next <= Steps[w]
    BY ExecTyped DEF EffectsMatch
  <1>2. stop \in Nat /\ e.next <= stop /\ stop <= Steps[w]
    BY <1>1, StopAtTyped
  <1>3. stop \in 0 .. MaxSteps
    BY <1>2, StepsTyped
  <1>4. a \in Exec
    <2>1. \E s \in ExecStates : a = [e EXCEPT !.state = s, !.next = stop]
      <3> HIDE DEF stop
      <3>1. a = [e EXCEPT !.state = IF WaitsFrom(w, e.next) = {} THEN "Completed" ELSE "Waiting", !.next = stop]
        BY DEF Advanced, FirstAction, stop
      <3>2. "Completed" \in ExecStates /\ "Waiting" \in ExecStates
        BY DEF ExecStates
      <3> HIDE DEF a
      <3> QED
        BY <3>1, <3>2
    <2> HIDE DEF stop, a
    <2> QED
      BY <1>3, <2>1 DEF Exec
  <1>5. a.next = stop /\ a.undo = e.undo
    <2> HIDE DEF stop
    <2>1. e = [state |-> e.state, next |-> e.next, undo |-> e.undo]
      BY DEF Exec
    <2> QED
      BY <2>1 DEF Advanced, FirstAction, stop
  <1>6. \A i \in Actions : f[i] = IF e.next < i /\ i <= stop /\ i \notin Waits[w] THEN r[i] + 1 ELSE r[i]
    BY DEF Effects, FirstAction
  <1>7. f \in [Actions -> Nat]
    BY DEF Effects
  <1>8. EffectsMatch(w, a, f)
    <2>1. \A i \in Actions : i \in Nat
      BY WorkflowAssumption DEF Actions
    <2>2. \A i \in Actions : r[i] = IF i <= e.next /\ i \notin Waits[w] THEN 1 ELSE 0
      BY DEF EffectsMatch
    <2> HIDE DEF a, f, stop
    <2>3. \A i \in Actions : f[i] = IF i <= stop /\ i \notin Waits[w] THEN 1 ELSE 0
      BY <1>1, <1>2, <1>6, <2>1, <2>2
    <2> QED
      BY <1>2, <1>5, <2>3 DEF EffectsMatch
  <1>9. UndoingsMatch(w, a, u)
    <2>1. \A i \in Actions : Undone(a, i) <=> Undone(e, i)
      BY <1>5 DEF Undone
    <2>2. \A i \in Actions : i \in Nat
      BY WorkflowAssumption DEF Actions
    <2> HIDE DEF a, f, stop
    <2> QED
      BY <1>1, <1>2, <1>5, <2>1, <2>2 DEF UndoingsMatch
  <1> QED
    BY <1>4, <1>7, <1>8, <1>9

\* Recording a failure marks as compensated exactly what it undoes.
LEMMA FailureKeepsRecords ==
    ASSUME NEW w \in Workflows, NEW e \in Exec, NEW r \in [Actions -> Nat], NEW u \in [Actions -> Nat],
           NEW s \in ExecStates, NEW dead \in BOOLEAN, NEW undoes \in BOOLEAN,
           EffectsMatch(w, e, r), UndoingsMatch(w, e, u)
    PROVE  LET c == Compensated(w, [e EXCEPT !.state = s], dead, undoes)
               v == IF dead /\ undoes THEN Undoings(w, e, u) ELSE u
           IN /\ c \in Exec
              /\ v \in [Actions -> Nat]
              /\ EffectsMatch(w, c, r)
              /\ UndoingsMatch(w, c, v)
  <1> DEFINE b == [e EXCEPT !.state = s]
             c == Compensated(w, b, dead, undoes)
             v == IF dead /\ undoes THEN Undoings(w, e, u) ELSE u
             todo == ToUndo(w, e)
  <1>1. b \in Exec /\ b.next = e.next /\ b.undo = e.undo
    BY DEF Exec
  <1>2. ToUndo(w, b) = todo
    BY <1>1 DEF ToUndo
  <1>3. todo \subseteq Undoable[w] /\ \A i \in todo : i <= e.next /\ ~Undone(e, i)
    BY DEF ToUndo, Undone
  <1>3a. \A i \in Undoable[w] : i <= e.next /\ ~Undone(e, i) => i \in todo
    BY DEF ToUndo, Undone
  <1>4. v \in [Actions -> Nat]
    BY DEF Undoings
  <1>5. c \in Exec /\ c.next = e.next
    <2>1. CASE ~dead
      BY <1>1, <2>1 DEF Compensated
    <2>2. CASE dead
      <3> DEFINE d == [i \in Actions |->
                   IF i \notin todo THEN b.undo[i] ELSE IF undoes THEN "Completed" ELSE "Failed"]
      <3>1. c = [b EXCEPT !.undo = d]
        BY <1>2, <2>2 DEF Compensated
      <3>2. d \in [Actions -> {"None", "Completed", "Failed"}]
        <4>1. b.undo \in [Actions -> {"None", "Completed", "Failed"}]
          BY <1>1, ExecTyped
        <4> QED
          BY <4>1
      <3> HIDE DEF d, c, b
      <3> QED
        BY <1>1, <3>1, <3>2 DEF Exec
    <2> QED
      BY <2>1, <2>2
  <1>6. \A i \in Actions : Undone(c, i) <=> Undone(e, i) \/ (dead /\ undoes /\ i \in todo)
    <2>1. CASE ~dead
      BY <1>1, <2>1 DEF Compensated, Undone
    <2>2. CASE dead
      <3> DEFINE d == [i \in Actions |->
                   IF i \notin todo THEN b.undo[i] ELSE IF undoes THEN "Completed" ELSE "Failed"]
      <3>1. c = [b EXCEPT !.undo = d]
        BY <1>2, <2>2 DEF Compensated
      <3>2. c.undo = d
        <4> HIDE DEF c, b, d
        <4> QED
          BY <1>1, <3>1 DEF Exec
      <3>3. \A i \in Actions : d[i] = IF i \notin todo THEN e.undo[i] ELSE IF undoes THEN "Completed" ELSE "Failed"
        BY <1>1
      <3> HIDE DEF c, b, d, todo
      <3> QED
        BY <1>3, <2>2, <3>2, <3>3 DEF Undone
    <2> QED
      BY <2>1, <2>2
  <1>7. EffectsMatch(w, c, r)
    <2> HIDE DEF c
    <2> QED
      BY <1>5 DEF EffectsMatch
  <1>8. \A i \in Actions : v[i] = IF dead /\ undoes /\ i \in todo THEN u[i] + 1 ELSE u[i]
    BY DEF Undoings
  <1>9. UndoingsMatch(w, c, v)
    <2> SUFFICES ASSUME NEW i \in Actions
                 PROVE  /\ v[i] = IF Undone(c, i) THEN 1 ELSE 0
                        /\ Undone(c, i) => i <= c.next /\ i \in Undoable[w]
      BY DEF UndoingsMatch
    <2>1. u[i] = (IF Undone(e, i) THEN 1 ELSE 0) /\ (Undone(e, i) => i <= e.next /\ i \in Undoable[w])
      BY DEF UndoingsMatch
    <2> HIDE DEF c, v, todo, b
    <2> QED
      BY <1>3, <1>5, <1>6, <1>8, <2>1
  <1> QED
    BY <1>4, <1>5, <1>7, <1>9

-----------------------------------------------------------------------------
(* The system                                                              *)

LEMMA NoExecTyped == NoExec \in Exec /\ NoView \in [Versions -> Exec] /\ NoFailure \in Failure
  <1>1. [i \in Actions |-> "None"] \in [Actions -> {"None", "Completed", "Failed"}]
    OBVIOUS
  <1>2. 0 \in 0 .. MaxSteps
    BY WorkflowAssumption
  <1>3. NoExec \in Exec
    BY <1>1, <1>2 DEF NoExec, Exec, ExecStates
  <1>4. NoView \in [Versions -> Exec]
    BY <1>3 DEF NoView
  <1>5. NoFailure \in Failure
    BY DEF NoFailure, Failure, JobStates, ExecStates
  <1> QED
    BY <1>3, <1>4, <1>5

LEMMA InitWorkflowInv == Init => WorkflowInv
  <1> SUFFICES ASSUME Init PROVE WorkflowInv
    OBVIOUS
  <1>1. TypeOK
    <2>1. job \in [Jobs -> Job]
      BY DEF Init, Job, JobStates
    <2>2. exec \in [Jobs -> [Versions -> Exec]] /\ view \in [Workers -> [Versions -> Exec]]
          /\ failure \in [Workers -> Failure]
      BY NoExecTyped DEF Init
    <2>3. published \in [Workflows -> 1 .. MaxVersions]
      BY WorkflowAssumption DEF Init
    <2>4. /\ last \in [Jobs -> Versions \union {<<>>}]
          /\ resume \in [Jobs -> [Versions -> Nat]] /\ recent \in [Jobs -> [Versions -> Nat]]
          /\ ran \in [Jobs -> [Versions -> [Actions -> Nat]]]
          /\ undone \in [Jobs -> [Versions -> [Actions -> Nat]]]
          /\ replays \in Nat /\ crashes \in Nat
      BY DEF Init
    <2>5. /\ locked \in [Workers -> SUBSET Jobs] /\ list \in [Workers -> SUBSET Jobs]
          /\ phase \in [Workers -> {"idle", "running", "parked", "failing"}]
          /\ cur \in [Workers -> Jobs \union {NoJob}]
          /\ capped \in [Workers -> SUBSET Versions]
      BY DEF Init
    <2> QED
      BY <2>1, <2>2, <2>3, <2>4, <2>5 DEF TypeOK
  <1>2. RecordsMatch
    <2> SUFFICES ASSUME NEW j \in Jobs, NEW x \in Versions
                 PROVE  /\ EffectsMatch(x[1], exec[j][x], ran[j][x])
                        /\ UndoingsMatch(x[1], exec[j][x], undone[j][x])
      BY DEF RecordsMatch
    <2>1. exec[j][x] = NoExec /\ ran[j][x] = [i \in Actions |-> 0] /\ undone[j][x] = [i \in Actions |-> 0]
      BY DEF Init, NoView
    <2>2. NoExec.next = 0 /\ \A i \in Actions : ~Undone(NoExec, i)
      BY DEF NoExec, Undone
    <2>3. x[1] \in Workflows
      BY VersionsTyped
    <2>4. \A i \in Actions : ~(i <= 0)
      BY WorkflowAssumption DEF Actions
    <2>5. EffectsMatch(x[1], exec[j][x], ran[j][x])
      BY <2>1, <2>2, <2>3, <2>4, StepsTyped DEF EffectsMatch
    <2>6. UndoingsMatch(x[1], exec[j][x], undone[j][x])
      BY <2>1, <2>2 DEF UndoingsMatch
    <2> QED
      BY <2>5, <2>6
  <1>3. LocksExclude /\ RunsUnderLock
    BY DEF Init, LocksExclude, RunsUnderLock
  <1> QED
    BY <1>1, <1>2, <1>3 DEF WorkflowInv

LEMMA JobUpdates ==
    ASSUME NEW r \in Job, NEW s \in JobStates, NEW n \in Nat, NEW t \in Nat
    PROVE  /\ [r EXCEPT !.state = s] \in Job
           /\ [r EXCEPT !.state = s, !.wait = t] \in Job
           /\ [r EXCEPT !.wait = t] \in Job
           /\ [state |-> s, attempts |-> n, wait |-> t] \in Job
           /\ r.wait \in Nat /\ r.attempts \in Nat /\ r.state \in JobStates
  BY DEF Job

LEMMA JobStateNames ==
    {"Absent", "Pending", "Retry", "Waiting", "Rate Limited", "Completed", "Dead"} \subseteq JobStates
  BY DEF JobStates

\* What no worker does leaves the sessions and the records of executions alone.
LEMMA OthersKeepInv ==
    ASSUME WorkflowInv,
           (\E j \in Jobs : QueueWorkflowEvent(j) \/ ReplayDead(j))
             \/ (\E w \in Workflows : DeployWorkflowPackage(w)) \/ Tick
    PROVE  WorkflowInv'
  <1>1. UNCHANGED <<exec, last, session, crashes, ran, undone>>
    BY DEF QueueWorkflowEvent, ReplayDead, DeployWorkflowPackage, Tick
  <1>2. RecordsMatch' /\ LocksExclude' /\ RunsUnderLock'
    BY <1>1 DEF WorkflowInv, RecordsMatch, LocksExclude, RunsUnderLock, session,
                EffectsMatch, UndoingsMatch, Undone
  <1>3. TypeOK'
    <2>1. job' \in [Jobs -> Job]
      <3>1. CASE \E j \in Jobs : QueueWorkflowEvent(j)
        <4>1. PICK j \in Jobs : job' = [job EXCEPT ![j].state = "Pending"]
          BY <3>1 DEF QueueWorkflowEvent
        <4>2. [job[j] EXCEPT !.state = "Pending"] \in Job
          BY JobUpdates, JobStateNames DEF WorkflowInv, TypeOK
        <4> QED
          BY <4>1, <4>2 DEF WorkflowInv, TypeOK
      <3>2. CASE \E j \in Jobs : ReplayDead(j)
        <4> DEFINE r == [state |-> "Retry", attempts |-> 0, wait |-> 0]
        <4>1. PICK j \in Jobs : job' = [job EXCEPT ![j] = r]
          BY <3>2 DEF ReplayDead
        <4>2. r \in Job
          BY DEF Job, JobStates
        <4> HIDE DEF r
        <4> QED
          BY <4>1, <4>2 DEF WorkflowInv, TypeOK
      <3>3. CASE \E w \in Workflows : DeployWorkflowPackage(w)
        BY <3>3 DEF DeployWorkflowPackage, WorkflowInv, TypeOK
      <3>4. CASE Tick
        <4>1. \A j \in Jobs : job[j] \in Job /\ Less(job[j].wait) \in Nat
          BY DEF WorkflowInv, TypeOK, Job, Less
        <4>2. \A r \in Job, n \in Nat : [r EXCEPT !.wait = n] \in Job
          BY DEF Job
        <4>3. job' = [j \in Jobs |-> [job[j] EXCEPT !.wait = Less(job[j].wait)]]
          BY <3>4 DEF Tick
        <4> QED
          BY <4>1, <4>2, <4>3
      <3> QED
        BY <3>1, <3>2, <3>3, <3>4
    <2>2. resume' \in [Jobs -> [Versions -> Nat]] /\ recent' \in [Jobs -> [Versions -> Nat]]
      <3>1. CASE Tick
        <4>1. \A n \in Nat : Less(n) \in Nat
          BY DEF Less
        <4> QED
          BY <3>1, <4>1 DEF Tick, WorkflowInv, TypeOK
      <3>2. CASE ~Tick
        <4>1. resume' = resume /\ recent' = recent
          BY <3>2 DEF QueueWorkflowEvent, ReplayDead, DeployWorkflowPackage
        <4> QED
          BY <4>1 DEF WorkflowInv, TypeOK
      <3> QED
        BY <3>1, <3>2
    <2>3. published' \in [Workflows -> 1 .. MaxVersions]
      <3>1. CASE \E w \in Workflows : DeployWorkflowPackage(w)
        BY <3>1, WorkflowAssumption DEF DeployWorkflowPackage, WorkflowInv, TypeOK
      <3>2. CASE ~(\E w \in Workflows : DeployWorkflowPackage(w))
        BY <3>2 DEF QueueWorkflowEvent, ReplayDead, Tick, WorkflowInv, TypeOK
      <3> QED
        BY <3>1, <3>2
    <2>4. replays' \in Nat
      BY DEF QueueWorkflowEvent, ReplayDead, DeployWorkflowPackage, Tick, WorkflowInv, TypeOK
    <2> QED
      BY <1>1, <2>1, <2>2, <2>3, <2>4 DEF WorkflowInv, TypeOK, session
  <1> QED
    BY <1>2, <1>3 DEF WorkflowInv

\* Taking rows nobody else has locked keeps the locks apart.
LEMMA LockKeepsApart ==
    ASSUME WorkflowInv, NEW p \in Workers, NEW S \in SUBSET Jobs,
           S \intersect LockedByOthers(p) = {} \/ S \subseteq locked[p],
           locked' = [locked EXCEPT ![p] = S]
    PROVE  LocksExclude'
  <1>1. \A q \in Workers : q # p => S \intersect locked[q] = {}
    BY DEF LockedByOthers, WorkflowInv, LocksExclude
  <1> QED
    BY <1>1 DEF WorkflowInv, TypeOK, LocksExclude

\* The records match as long as neither executions nor effects change.
LEMMA SameRecords ==
    ASSUME RecordsMatch, UNCHANGED <<exec, ran, undone>>
    PROVE  RecordsMatch'
  BY DEF RecordsMatch, EffectsMatch, UndoingsMatch, Undone

LEMMA SelectKeepsInv ==
    ASSUME WorkflowInv, NEW p \in Workers, Select(p)
    PROVE  WorkflowInv'
  <1>1. PICK B \in SUBSET (Due \ LockedByOthers(p)) :
          list' = [list EXCEPT ![p] = B] /\ locked' = [locked EXCEPT ![p] = B]
    BY DEF Select
  <1>2. B \in SUBSET Jobs
    BY DEF Due
  <1>3. LocksExclude'
    BY <1>1, <1>2, LockKeepsApart
  <1>4. TypeOK'
    BY <1>1, <1>2 DEF Select, WorkflowInv, TypeOK, tables
  <1>5. RecordsMatch'
    BY SameRecords DEF Select, WorkflowInv, tables
  <1>6. RunsUnderLock'
    <2>1. \A q \in Workers : q # p => locked'[q] = locked[q]
      BY <1>1 DEF WorkflowInv, TypeOK
    <2> QED
      BY <2>1 DEF Select, WorkflowInv, RunsUnderLock, tables
  <1> QED
    BY <1>3, <1>4, <1>5, <1>6 DEF WorkflowInv

LEMMA StartJobKeepsInv ==
    ASSUME WorkflowInv, NEW p \in Workers, NEW j \in Jobs, StartJob(p, j)
    PROVE  WorkflowInv'
  <1>1. LocksExclude'
    <2>1. \A q \in Workers : q # p => (locked[p] \union {j}) \intersect locked[q] = {}
      BY DEF StartJob, MayLock, LockedByOthers, WorkflowInv, LocksExclude
    <2> QED
      BY <2>1 DEF StartJob, WorkflowInv, TypeOK, LocksExclude
  <1>2. TypeOK'
    BY DEF StartJob, WorkflowInv, TypeOK, tables
  <1>3. RecordsMatch'
    BY SameRecords DEF StartJob, WorkflowInv, tables
  <1>4. RunsUnderLock'
    BY DEF StartJob, WorkflowInv, TypeOK, RunsUnderLock, tables
  <1> QED
    BY <1>1, <1>2, <1>3, <1>4 DEF WorkflowInv


\* A worker that has ended its transaction, or records a failure, holds no lock
\* and has nothing in view.
LEMMA EndsApart ==
    ASSUME WorkflowInv, NEW p \in Workers, EndTransaction(p)
    PROVE  /\ LocksExclude'
           /\ locked' \in [Workers -> SUBSET Jobs] /\ view' \in [Workers -> [Versions -> Exec]]
           /\ capped' \in [Workers -> SUBSET Versions]
           /\ \A q \in Workers : q # p => locked'[q] = locked[q] /\ view'[q] = view[q]
  <1>1. locked' = [locked EXCEPT ![p] = {}]
    BY DEF EndTransaction
  <1>2. LocksExclude'
    BY <1>1, LockKeepsApart
  <1> QED
    BY <1>1, <1>2, NoExecTyped DEF EndTransaction, WorkflowInv, TypeOK

\* While a worker runs a job, no other worker runs it.
LEMMA OneRunsJob ==
    ASSUME WorkflowInv, NEW p \in Workers, NEW q \in Workers, p # q, phase[q] = "running",
           phase[p] = "running" \/ MayLock(p, cur[p])
    PROVE  cur[p] # cur[q]
  <1>1. cur[q] \in locked[q] /\ (phase[p] = "running" => cur[p] \in locked[p])
    BY DEF WorkflowInv, RunsUnderLock
  <1> QED
    BY <1>1 DEF WorkflowInv, LocksExclude, MayLock, LockedByOthers

LEMMA CommitJobKeepsInv ==
    ASSUME WorkflowInv, NEW p \in Workers, CommitJob(p)
    PROVE  WorkflowInv'
  <1> DEFINE j == cur[p]
             v == view[p]
             ex == Executed(v, capped[p])
             done == {Of(w) : w \in ex}
             fresh == {w \in ex : v[Of(w)].state = "None"}
             stops == {w \in Reached(v, capped[p]) : Blocked(v, capped[p], w)}
             waiting == stops \intersect ex
  <1>1. j \in Jobs /\ v = exec[j] /\ phase[p] = "running"
    BY DEF CommitJob, WorkflowInv, RunsUnderLock
  <1>2. ex \subseteq Workflows
    BY DEF Executed, Reached
  <1>3. \A w \in Workflows : Of(w) \in Versions
    BY DEF Of, Versions, WorkflowInv, TypeOK
  <1>4. LET ne == [x \in Versions |-> IF x \in done THEN Advanced(x[1], v[x]) ELSE exec[j][x]]
            nr == [x \in Versions |-> IF x \in done THEN Effects(x[1], v[x], ran[j][x]) ELSE ran[j][x]]
        IN /\ exec' = [exec EXCEPT ![j] = ne] /\ ran' = [ran EXCEPT ![j] = nr]
           /\ ne \in [Versions -> Exec] /\ nr \in [Versions -> [Actions -> Nat]]
           /\ \A x \in Versions : EffectsMatch(x[1], ne[x], nr[x])
                                  /\ UndoingsMatch(x[1], ne[x], undone[j][x])
    <2> DEFINE ne == [x \in Versions |-> IF x \in done THEN Advanced(x[1], v[x]) ELSE exec[j][x]]
               nr == [x \in Versions |-> IF x \in done THEN Effects(x[1], v[x], ran[j][x]) ELSE ran[j][x]]
    <2>1. exec' = [exec EXCEPT ![j] = ne] /\ ran' = [ran EXCEPT ![j] = nr]
      BY DEF CommitJob
    <2>2. \A x \in Versions :
            /\ Advanced(x[1], v[x]) \in Exec /\ Effects(x[1], v[x], ran[j][x]) \in [Actions -> Nat]
            /\ EffectsMatch(x[1], Advanced(x[1], v[x]), Effects(x[1], v[x], ran[j][x]))
            /\ UndoingsMatch(x[1], Advanced(x[1], v[x]), undone[j][x])
      <3> SUFFICES ASSUME NEW x \in Versions
                   PROVE  /\ Advanced(x[1], v[x]) \in Exec
                          /\ Effects(x[1], v[x], ran[j][x]) \in [Actions -> Nat]
                          /\ EffectsMatch(x[1], Advanced(x[1], v[x]), Effects(x[1], v[x], ran[j][x]))
                          /\ UndoingsMatch(x[1], Advanced(x[1], v[x]), undone[j][x])
        OBVIOUS
      <3>1. x[1] \in Workflows
        BY VersionsTyped
      <3>2. v[x] \in Exec /\ ran[j][x] \in [Actions -> Nat] /\ undone[j][x] \in [Actions -> Nat]
        BY <1>1 DEF WorkflowInv, TypeOK
      <3>3. EffectsMatch(x[1], v[x], ran[j][x]) /\ UndoingsMatch(x[1], v[x], undone[j][x])
        BY <1>1 DEF WorkflowInv, RecordsMatch
      <3> HIDE DEF v, j
      <3> QED
        BY <3>1, <3>2, <3>3, RunKeepsRecords
    <2>3. \A x \in Versions : exec[j][x] \in Exec /\ ran[j][x] \in [Actions -> Nat]
                              /\ EffectsMatch(x[1], exec[j][x], ran[j][x])
                              /\ UndoingsMatch(x[1], exec[j][x], undone[j][x])
      BY <1>1 DEF WorkflowInv, TypeOK, RecordsMatch
    <2> HIDE DEF done, v, j
    <2> QED
      BY <2>1, <2>2, <2>3
  <1>5. RecordsMatch'
    <2> SUFFICES ASSUME NEW i \in Jobs, NEW x \in Versions
                 PROVE  /\ EffectsMatch(x[1], exec'[i][x], ran'[i][x])
                        /\ UndoingsMatch(x[1], exec'[i][x], undone'[i][x])
      BY DEF RecordsMatch, EffectsMatch, UndoingsMatch, Undone
    <2>1. undone' = undone
      BY DEF CommitJob
    <2>2. CASE i = j
      BY <1>1, <1>4, <2>1, <2>2 DEF WorkflowInv, TypeOK
    <2>3. CASE i # j
      <3>1. exec'[i] = exec[i] /\ ran'[i] = ran[i]
        BY <1>1, <1>4, <2>3 DEF WorkflowInv, TypeOK
      <3> QED
        BY <2>1, <3>1 DEF WorkflowInv, RecordsMatch
    <2> QED
      BY <2>2, <2>3
  <1>6. EndTransaction(p)
    BY DEF CommitJob
  <1>7. RunsUnderLock'
    <2> SUFFICES ASSUME NEW q \in Workers
                 PROVE  /\ phase'[q] # "idle" => cur'[q] \in Jobs
                        /\ phase'[q] = "running" => cur'[q] \in locked'[q] /\ view'[q] = exec'[cur'[q]]
      BY DEF RunsUnderLock
    <2>0. /\ phase' = [phase EXCEPT ![p] = IF stops = {} THEN "idle" ELSE "parked"]
          /\ cur' = [cur EXCEPT ![p] = IF stops = {} THEN NoJob ELSE j]
      BY DEF CommitJob
    <2>1. CASE q = p
      <3> HIDE DEF stops
      <3> QED
        BY <1>1, <2>0, <2>1 DEF WorkflowInv, TypeOK
    <2>2. CASE q # p
      <3>1. phase'[q] = phase[q] /\ cur'[q] = cur[q]
        BY <2>0, <2>2 DEF WorkflowInv, TypeOK
      <3>2. locked'[q] = locked[q] /\ view'[q] = view[q]
        BY <1>6, <2>2, EndsApart
      <3>3. phase[q] = "running" => cur[q] # j
        BY <1>1, <2>2, OneRunsJob
      <3>4. phase[q] = "running" => exec'[cur[q]] = exec[cur[q]]
        <4>1. phase[q] = "running" => cur[q] \in Jobs
          BY DEF WorkflowInv, RunsUnderLock
        <4> QED
          BY <1>4, <3>3, <4>1 DEF WorkflowInv, TypeOK
      <3> QED
        BY <3>1, <3>2, <3>4 DEF WorkflowInv, RunsUnderLock
    <2> QED
      BY <2>1, <2>2
  <1>8. TypeOK'
    <2>1. exec' \in [Jobs -> [Versions -> Exec]] /\ ran' \in [Jobs -> [Versions -> [Actions -> Nat]]]
      BY <1>1, <1>4 DEF WorkflowInv, TypeOK
    <2>2. last' \in [Jobs -> Versions \union {<<>>}]
      <3>1. last' = last \/ \E w \in Workflows : last' = [last EXCEPT ![j] = Of(w)]
        BY <1>2 DEF CommitJob
      <3>2. last \in [Jobs -> Versions \union {<<>>}]
        BY DEF WorkflowInv, TypeOK
      <3> HIDE DEF j
      <3>3. CASE \E w \in Workflows : last' = [last EXCEPT ![j] = Of(w)]
        <4>1. PICK w \in Workflows : last' = [last EXCEPT ![j] = Of(w)]
          BY <3>3
        <4>2. Of(w) \in Versions \union {<<>>}
          BY <1>3
        <4> QED
          BY <1>1, <3>2, <4>1, <4>2
      <3> QED
        BY <3>1, <3>2, <3>3
    <2>3. resume' \in [Jobs -> [Versions -> Nat]]
      <3> DEFINE f == [x \in Versions |-> IF x \notin done THEN resume[j][x]
                                          ELSE IF x[1] \in waiting THEN WaitTime ELSE 0]
      <3>1. resume' = [resume EXCEPT ![j] = f]
        BY DEF CommitJob
      <3>2. WaitTime \in Nat /\ resume[j] \in [Versions -> Nat]
        BY <1>1, WorkflowAssumption DEF WorkflowInv, TypeOK
      <3>3. f \in [Versions -> Nat]
        <4> HIDE DEF done, waiting, j
        <4> QED
          BY <3>2
      <3> HIDE DEF f
      <3> QED
        BY <1>1, <3>1, <3>3 DEF WorkflowInv, TypeOK
    <2>4. recent' \in [Jobs -> [Versions -> Nat]]
      <3> DEFINE f == [x \in Versions |-> IF x \in done /\ x[1] \in fresh THEN Minute ELSE recent[j][x]]
      <3>1. recent' = [recent EXCEPT ![j] = f]
        BY DEF CommitJob
      <3>2. Minute \in Nat /\ recent[j] \in [Versions -> Nat]
        BY <1>1, WorkflowAssumption DEF WorkflowInv, TypeOK
      <3>3. f \in [Versions -> Nat]
        <4> HIDE DEF done, fresh, j
        <4> QED
          BY <3>2
      <3> HIDE DEF f
      <3> QED
        BY <1>1, <3>1, <3>3 DEF WorkflowInv, TypeOK
    <2>5. job' \in [Jobs -> Job]
      <3> DEFINE s == Outcome(stops, waiting)
                 t == IF stops = {} THEN 0 ELSE IF waiting # {} THEN WaitTime ELSE Minute
      <3>1. job' = [job EXCEPT ![j].state = s, ![j].wait = t]
        BY DEF CommitJob
      <3>2. s \in JobStates
        BY JobStateNames DEF Outcome
      <3>3. t \in Nat
        <4> HIDE DEF stops, waiting
        <4> QED
          BY WorkflowAssumption
      <3> HIDE DEF s, t
      <3>4. [job[j] EXCEPT !.state = s, !.wait = t] \in Job
        BY <1>1, <3>2, <3>3, JobUpdates DEF WorkflowInv, TypeOK
      <3>5. job' = [job EXCEPT ![j] = [job[j] EXCEPT !.state = s, !.wait = t]]
        BY <1>1, <3>1 DEF WorkflowInv, TypeOK
      <3> QED
        BY <1>1, <3>4, <3>5 DEF WorkflowInv, TypeOK
    <2>6. phase' \in [Workers -> {"idle", "running", "parked", "failing"}]
          /\ cur' \in [Workers -> Jobs \union {NoJob}]
      <3>1. /\ phase' = [phase EXCEPT ![p] = IF stops = {} THEN "idle" ELSE "parked"]
            /\ cur' = [cur EXCEPT ![p] = IF stops = {} THEN NoJob ELSE j]
        BY DEF CommitJob
      <3> HIDE DEF stops
      <3> QED
        BY <1>1, <3>1 DEF WorkflowInv, TypeOK
    <2>7. UNCHANGED <<published, list, failure, replays, crashes, undone>>
      BY DEF CommitJob
    <2>8. locked' \in [Workers -> SUBSET Jobs] /\ view' \in [Workers -> [Versions -> Exec]]
          /\ capped' \in [Workers -> SUBSET Versions]
      BY <1>6, EndsApart
    <2> QED
      BY <2>1, <2>2, <2>3, <2>4, <2>5, <2>6, <2>7, <2>8 DEF WorkflowInv, TypeOK
  <1> QED
    BY <1>5, <1>6, <1>7, <1>8, EndsApart DEF WorkflowInv

LEMMA LeaveParkedKeepsInv ==
    ASSUME WorkflowInv, NEW p \in Workers, LeaveParked(p)
    PROVE  WorkflowInv'
  <1> DEFINE j == cur[p]
  <1>1. j \in Jobs
    BY DEF LeaveParked, WorkflowInv, RunsUnderLock
  <1>2. job' \in [Jobs -> Job]
    <2>1. job' = job \/ job' = [job EXCEPT ![j].state = "Completed"]
      BY DEF LeaveParked
    <2>2. [job[j] EXCEPT !.state = "Completed"] \in Job
      BY <1>1, JobUpdates, JobStateNames DEF WorkflowInv, TypeOK
    <2> QED
      BY <1>1, <2>1, <2>2 DEF WorkflowInv, TypeOK
  <1>3. TypeOK'
    BY <1>2 DEF LeaveParked, WorkflowInv, TypeOK
  <1>4. RecordsMatch'
    BY SameRecords DEF LeaveParked, WorkflowInv
  <1>5. LocksExclude'
    BY DEF LeaveParked, WorkflowInv, LocksExclude
  <1>6. RunsUnderLock'
    BY DEF LeaveParked, WorkflowInv, TypeOK, RunsUnderLock
  <1> QED
    BY <1>3, <1>4, <1>5, <1>6 DEF WorkflowInv

LEMMA FailKeepsInv ==
    ASSUME WorkflowInv, NEW p \in Workers, Fail(p)
    PROVE  WorkflowInv'
  <1> DEFINE j == cur[p]
             was == IF last[j] = <<>> THEN "None" ELSE exec[j][last[j]].state
             f == [attempts |-> job[j].attempts, state |-> job[j].state, exec |-> last[j], was |-> was]
  <1>1. j \in Jobs
    BY DEF Fail, WorkflowInv, RunsUnderLock
  <1>2. job[j] \in Job /\ last[j] \in Versions \union {<<>>} /\ exec[j] \in [Versions -> Exec]
    BY <1>1 DEF WorkflowInv, TypeOK
  <1>3. was \in ExecStates
    <2>1. CASE last[j] = <<>>
      BY <2>1 DEF ExecStates
    <2>2. CASE last[j] # <<>>
      <3>1. exec[j][last[j]] \in Exec
        BY <1>2, <2>2
      <3> QED
        BY <2>2, <3>1, ExecTyped
    <2> QED
      BY <2>1, <2>2
  <1>4. f \in Failure
    <2>1. job[j].attempts \in Nat /\ job[j].state \in JobStates
      BY <1>2 DEF Job
    <2> HIDE DEF was, j
    <2> QED
      BY <1>2, <1>3, <2>1 DEF Failure
  <1>5. failure' = [failure EXCEPT ![p] = f] /\ phase' = [phase EXCEPT ![p] = "failing"]
        /\ EndTransaction(p) /\ UNCHANGED <<tables, list, cur, replays, crashes, ran, undone>>
    BY DEF Fail
  <1> HIDE DEF f
  <1>6. TypeOK'
    BY <1>4, <1>5, EndsApart DEF WorkflowInv, TypeOK, tables
  <1>7. RecordsMatch'
    BY <1>5, SameRecords DEF WorkflowInv, tables
  <1>8. RunsUnderLock'
    BY <1>1, <1>5, EndsApart DEF WorkflowInv, TypeOK, RunsUnderLock, tables
  <1> QED
    BY <1>5, <1>6, <1>7, <1>8, EndsApart DEF WorkflowInv

LEMMA CommitFailureKeepsInv ==
    ASSUME WorkflowInv, NEW p \in Workers, NEW undoes \in BOOLEAN, CommitFailure(p, undoes)
    PROVE  WorkflowInv'
  <1> DEFINE j == cur[p]
             f == failure[p]
             n == f.attempts + 1
             dead == n >= MaxAttempts
             S(x) == Written(f.was, IF dead THEN "Failed" ELSE "Retry", exec[j][x].state)
             C(x) == Compensated(x[1], [exec[j][x] EXCEPT !.state = S(x)], dead, undoes)
             U(x) == IF dead /\ undoes THEN Undoings(x[1], exec[j][x], undone[j][x]) ELSE undone[j][x]
             ne == [x \in Versions |-> IF x # f.exec THEN exec[j][x] ELSE C(x)]
             nu == [x \in Versions |-> IF x # f.exec THEN undone[j][x] ELSE U(x)]
  <1>1. j \in Jobs /\ f \in Failure /\ phase[p] = "failing" /\ MayLock(p, j)
    BY DEF CommitFailure, WorkflowInv, TypeOK, RunsUnderLock
  <1>2. exec' = [exec EXCEPT ![j] = ne]
    BY DEF CommitFailure, Marked
  <1>3. undone' = [undone EXCEPT ![j] = nu]
    <2>1. undone' = [undone EXCEPT ![j] = [x \in Versions |->
             IF x = f.exec /\ dead /\ undoes THEN Undoings(x[1], exec[j][x], undone[j][x]) ELSE undone[j][x]]]
      BY DEF CommitFailure
    <2>2. nu = [x \in Versions |->
             IF x = f.exec /\ dead /\ undoes THEN Undoings(x[1], exec[j][x], undone[j][x]) ELSE undone[j][x]]
      <3> HIDE DEF dead, f, j
      <3> QED
        OBVIOUS
    <2> QED
      BY <2>1, <2>2
  <1>4. ran' = ran
    BY DEF CommitFailure
  <1>5. \A x \in Versions :
          /\ exec[j][x] \in Exec /\ ran[j][x] \in [Actions -> Nat] /\ undone[j][x] \in [Actions -> Nat]
          /\ EffectsMatch(x[1], exec[j][x], ran[j][x])
          /\ UndoingsMatch(x[1], exec[j][x], undone[j][x])
    BY <1>1 DEF WorkflowInv, TypeOK, RecordsMatch
  <1>6. \A x \in Versions :
          /\ C(x) \in Exec /\ U(x) \in [Actions -> Nat]
          /\ EffectsMatch(x[1], C(x), ran[j][x])
          /\ UndoingsMatch(x[1], C(x), U(x))
    <2> SUFFICES ASSUME NEW x \in Versions
                 PROVE  /\ C(x) \in Exec /\ U(x) \in [Actions -> Nat]
                        /\ EffectsMatch(x[1], C(x), ran[j][x])
                        /\ UndoingsMatch(x[1], C(x), U(x))
      OBVIOUS
    <2>1. x[1] \in Workflows
      BY VersionsTyped
    <2>2. S(x) \in ExecStates
      <3>1. exec[j][x].state \in ExecStates
        BY <1>5, ExecTyped
      <3> HIDE DEF dead, f, j
      <3> QED
        BY <3>1 DEF Written, ExecStates
    <2>3. dead \in BOOLEAN
      OBVIOUS
    <2> HIDE DEF S, dead, f, j
    <2> QED
      BY <1>5, <2>1, <2>2, <2>3, FailureKeepsRecords
  <1>7. /\ ne \in [Versions -> Exec] /\ nu \in [Versions -> [Actions -> Nat]]
        /\ \A x \in Versions : EffectsMatch(x[1], ne[x], ran[j][x]) /\ UndoingsMatch(x[1], ne[x], nu[x])
    <2> HIDE DEF C, U, f, j
    <2> QED
      BY <1>5, <1>6
  <1> HIDE DEF ne, nu
  <1>8. RecordsMatch'
    <2> SUFFICES ASSUME NEW i \in Jobs, NEW x \in Versions
                 PROVE  /\ EffectsMatch(x[1], exec'[i][x], ran'[i][x])
                        /\ UndoingsMatch(x[1], exec'[i][x], undone'[i][x])
      BY DEF RecordsMatch, EffectsMatch, UndoingsMatch, Undone
    <2>1. CASE i = j
      BY <1>1, <1>2, <1>3, <1>4, <1>7, <2>1 DEF WorkflowInv, TypeOK
    <2>2. CASE i # j
      <3>1. exec'[i] = exec[i] /\ undone'[i] = undone[i]
        BY <1>1, <1>2, <1>3, <2>2 DEF WorkflowInv, TypeOK
      <3> QED
        BY <1>4, <3>1 DEF WorkflowInv, RecordsMatch
    <2> QED
      BY <2>1, <2>2
  <1>9. /\ phase' = [phase EXCEPT ![p] = "idle"] /\ cur' = [cur EXCEPT ![p] = NoJob]
        /\ failure' = [failure EXCEPT ![p] = NoFailure]
        /\ UNCHANGED <<last, resume, recent, published, locked, list, view, capped, replays, crashes, ran>>
    BY DEF CommitFailure
  <1>10. LocksExclude'
    BY <1>9 DEF WorkflowInv, LocksExclude
  <1>11. RunsUnderLock'
    <2> SUFFICES ASSUME NEW q \in Workers
                 PROVE  /\ phase'[q] # "idle" => cur'[q] \in Jobs
                        /\ phase'[q] = "running" => cur'[q] \in locked'[q] /\ view'[q] = exec'[cur'[q]]
      BY DEF RunsUnderLock
    <2>1. CASE q = p
      BY <1>9, <2>1 DEF WorkflowInv, TypeOK
    <2>2. CASE q # p
      <3>1. phase'[q] = phase[q] /\ cur'[q] = cur[q] /\ locked' = locked /\ view' = view
        BY <1>9, <2>2 DEF WorkflowInv, TypeOK
      <3>2. phase[q] = "running" => cur[q] # j /\ cur[q] \in Jobs
        BY <1>1, <2>2, OneRunsJob DEF WorkflowInv, RunsUnderLock
      <3>3. phase[q] = "running" => exec'[cur[q]] = exec[cur[q]]
        BY <1>2, <3>2 DEF WorkflowInv, TypeOK
      <3> QED
        BY <3>1, <3>3 DEF WorkflowInv, RunsUnderLock
    <2> QED
      BY <2>1, <2>2
  <1>12. job' \in [Jobs -> Job]
    <2> DEFINE s == Written(f.state, IF dead THEN "Dead" ELSE "Retry", job[j].state)
               t == IF dead THEN job[j].wait ELSE RetryDelay(n)
    <2>1. job' = [job EXCEPT ![j] = [state |-> s, attempts |-> n, wait |-> t]]
      BY <1>1 DEF CommitFailure, WorkflowInv, TypeOK
    <2>2. job[j] \in Job /\ job[j].state \in JobStates /\ job[j].wait \in Nat
      BY <1>1 DEF WorkflowInv, TypeOK, Job
    <2>3. n \in Nat
      BY <1>1 DEF Failure
    <2>4. t \in Nat
      <3>1. CASE dead
        BY <2>2, <3>1
      <3>2. CASE ~dead
        <4>1. n \in 0 .. MaxAttempts
          <5> HIDE DEF n
          <5> QED
            BY <2>3, <3>2, WorkflowAssumption
        <4> QED
          BY <3>2, <4>1, WorkflowDelayAssumption
      <3> QED
        BY <3>1, <3>2
    <2>5. s \in JobStates
      <3> HIDE DEF dead, f
      <3> QED
        BY <2>2, JobStateNames DEF Written
    <2> HIDE DEF s, t, n
    <2>6. [state |-> s, attempts |-> n, wait |-> t] \in Job
      BY <2>3, <2>4, <2>5 DEF Job
    <2> QED
      BY <1>1, <2>1, <2>6 DEF WorkflowInv, TypeOK
  <1>13. TypeOK'
    <2>1. exec' \in [Jobs -> [Versions -> Exec]] /\ undone' \in [Jobs -> [Versions -> [Actions -> Nat]]]
      BY <1>1, <1>2, <1>3, <1>7 DEF WorkflowInv, TypeOK
    <2>2. phase' \in [Workers -> {"idle", "running", "parked", "failing"}]
          /\ cur' \in [Workers -> Jobs \union {NoJob}] /\ failure' \in [Workers -> Failure]
      BY <1>9, NoExecTyped DEF WorkflowInv, TypeOK
    <2> QED
      BY <1>9, <1>12, <2>1, <2>2 DEF WorkflowInv, TypeOK
  <1> QED
    BY <1>8, <1>10, <1>11, <1>13 DEF WorkflowInv

LEMMA CrashKeepsInv ==
    ASSUME WorkflowInv, NEW p \in Workers, Crash(p)
    PROVE  WorkflowInv'
  <1>1. EndTransaction(p) /\ UNCHANGED <<tables, replays, ran, undone>>
    BY DEF Crash
  <1>2. TypeOK'
    <2>1. phase' \in [Workers -> {"idle", "running", "parked", "failing"}]
          /\ cur' \in [Workers -> Jobs \union {NoJob}] /\ failure' \in [Workers -> Failure]
          /\ list' \in [Workers -> SUBSET Jobs] /\ crashes' \in Nat
      BY NoExecTyped DEF Crash, WorkflowInv, TypeOK
    <2> QED
      BY <1>1, <2>1, EndsApart DEF WorkflowInv, TypeOK, tables
  <1>3. RecordsMatch'
    BY <1>1, SameRecords DEF WorkflowInv, tables
  <1>4. RunsUnderLock'
    <2>1. phase' = [phase EXCEPT ![p] = "idle"] /\ cur' = [cur EXCEPT ![p] = NoJob] /\ exec' = exec
      BY <1>1 DEF Crash, tables
    <2> QED
      BY <1>1, <2>1, EndsApart DEF WorkflowInv, TypeOK, RunsUnderLock
  <1> QED
    BY <1>1, <1>2, <1>3, <1>4, EndsApart DEF WorkflowInv

LEMMA NextKeepsInv == WorkflowInv /\ [Next]_vars => WorkflowInv'
  <1> SUFFICES ASSUME WorkflowInv, [Next]_vars PROVE WorkflowInv'
    OBVIOUS
  <1>1. CASE (\E j \in Jobs : QueueWorkflowEvent(j) \/ ReplayDead(j))
               \/ (\E w \in Workflows : DeployWorkflowPackage(w)) \/ Tick
    BY <1>1, OthersKeepInv
  <1>2. ASSUME NEW p \in Workers, Pass(p) \/ Crash(p)
        PROVE  WorkflowInv'
    BY <1>2, SelectKeepsInv, StartJobKeepsInv, CommitJobKeepsInv, LeaveParkedKeepsInv, FailKeepsInv,
       CommitFailureKeepsInv, CrashKeepsInv DEF Pass
  <1>3. CASE UNCHANGED vars
    BY <1>3 DEF vars, WorkflowInv, TypeOK, RecordsMatch, LocksExclude, RunsUnderLock,
                EffectsMatch, UndoingsMatch, Undone
  <1> QED
    BY <1>1, <1>2, <1>3 DEF Next

\* The invariant holds in every reachable state.
THEOREM WorkflowInvariant == Spec => []WorkflowInv
  BY InitWorkflowInv, NextKeepsInv, PTL DEF Spec

\* Every table and every session of process_workflow_jobs stays within its type:
\* in particular no committed job is ever left Running.
THEOREM WorkflowTypeOK == Spec => []TypeOK
  <1>1. WorkflowInv => TypeOK
    BY DEF WorkflowInv
  <1> QED
    BY <1>1, WorkflowInvariant, PTL

\* process_workflow_jobs commits the effect of an action at most once for a job
\* and a version, for any number of workers, jobs, crashes and replays.
THEOREM WorkflowStepsRunOnce == Spec => []StepsRunOnce
  <1>1. WorkflowInv => StepsRunOnce
    <2> SUFFICES ASSUME WorkflowInv, NEW j \in Jobs, NEW x \in Versions, NEW i \in Actions
                 PROVE  ran[j][x][i] <= 1
      BY DEF StepsRunOnce
    <2>1. EffectsMatch(x[1], exec[j][x], ran[j][x])
      BY DEF WorkflowInv, RecordsMatch
    <2> QED
      BY <2>1 DEF EffectsMatch
  <1> QED
    BY <1>1, WorkflowInvariant, PTL

\* compensate_workflow_execution undoes an action at most once, and only if it
\* was carried out.
THEOREM WorkflowUndoneOnce == Spec => []UndoneOnce
  <1>1. WorkflowInv => UndoneOnce
    <2> SUFFICES ASSUME WorkflowInv, NEW j \in Jobs, NEW x \in Versions, NEW i \in Actions
                 PROVE  undone[j][x][i] <= ran[j][x][i]
      BY DEF UndoneOnce
    <2>1. EffectsMatch(x[1], exec[j][x], ran[j][x]) /\ UndoingsMatch(x[1], exec[j][x], undone[j][x])
      BY DEF WorkflowInv, RecordsMatch
    <2>2. x[1] \in Workflows
      BY VersionsTyped
    <2>3. i \in Undoable[x[1]] => i \notin Waits[x[1]]
      BY <2>2, StepsTyped
    <2> QED
      BY <2>1, <2>3 DEF EffectsMatch, UndoingsMatch
  <1> QED
    BY <1>1, WorkflowInvariant, PTL

-----------------------------------------------------------------------------
(* One worker                                                              *)

OneWorker == \A p, q \in Workers : p = q

Unsettled == {"Pending", "Retry", "Waiting", "Rate Limited"}

\* A version of every workflow is executed for job j to its end.
ExecutedToEnd(j) ==
    \A w \in Workflows : \E n \in 1 .. MaxVersions :
        \A i \in 1 .. Steps[w] : i \notin Waits[w] => ran[j][<<w, n>>][i] = 1

Tried(w, e) == \A i \in Undoable[w] : i <= e.next => e.undo[i] # "None"

\* A Completed execution is at its end, a Completed job executed and a Dead one
\* compensated.
JobOK(j) ==
    /\ \A x \in Versions : exec[j][x].state = "Completed" => exec[j][x].next = Steps[x[1]]
    /\ job[j].state = "Completed" => ExecutedToEnd(j)
    /\ job[j].state = "Dead" /\ last[j] # <<>> => Tried(last[j][1], exec[j][last[j]])

\* A worker has only unsettled jobs at hand, and what it loaded of one that
\* failed is current.
AtWork(p) ==
    /\ \A j \in list[p] : job[j].state \in Unsettled
    /\ phase[p] # "idle" => job[cur[p]].state \in Unsettled /\ cur[p] \notin list[p]
    /\ phase[p] = "parked" => job[cur[p]].state \in {"Waiting", "Rate Limited"}
    /\ phase[p] = "failing" => failure[p].state = job[cur[p]].state /\ failure[p].exec = last[cur[p]]

SerialInv ==
    /\ WorkflowInv
    /\ \A j \in Jobs : JobOK(j)
    /\ \A p \in Workers : AtWork(p)

LEMMA AdvancedEnds ==
    ASSUME NEW w \in Workflows, NEW e \in Exec, NEW a, a = Advanced(w, e)
    PROVE  /\ a.state = "Completed" => a.next = Steps[w]
           /\ WaitsFrom(w, e.next) = {} => a.state = "Completed"
  <1>1. PICK n : n = StopAt(w, e.next)
    OBVIOUS
  <1>2. PICK s : s = IF WaitsFrom(w, e.next) = {} THEN "Completed" ELSE "Waiting"
    OBVIOUS
  <1>3. a = [e EXCEPT !.state = s, !.next = n]
    BY <1>1, <1>2 DEF Advanced, FirstAction
  <1>4. a.state = s /\ a.next = n
    BY <1>3 DEF Exec
  <1>5. WaitsFrom(w, e.next) = {} => n = Steps[w]
    BY <1>1 DEF StopAt
  <1> QED
    BY <1>2, <1>4, <1>5

LEMMA CompensatedFacts ==
    ASSUME NEW w \in Workflows, NEW e \in Exec, NEW was, NEW v, NEW dead \in BOOLEAN, NEW undoes \in BOOLEAN,
           NEW c, c = Compensated(w, Marked(e, was, v), dead, undoes)
    PROVE  /\ c.next = e.next /\ (c.state = e.state \/ c.state = v)
           /\ dead => Tried(w, c)
  <1>1. PICK s : s = Written(was, v, e.state)
    OBVIOUS
  <1>2. s = e.state \/ s = v
    BY <1>1 DEF Written
  <1>3. PICK m : m = [e EXCEPT !.state = s]
    OBVIOUS
  <1>4. m = Marked(e, was, v) /\ m.state = s /\ m.next = e.next /\ m.undo = e.undo
        /\ m = [state |-> s, next |-> e.next, undo |-> e.undo]
    BY <1>1, <1>3 DEF Marked, Exec
  <1>5. CASE ~dead
    BY <1>2, <1>4, <1>5 DEF Compensated
  <1>6. CASE dead
    <2>1. PICK u : u = [i \in Actions |->
                          IF i \notin ToUndo(w, m) THEN m.undo[i] ELSE IF undoes THEN "Completed" ELSE "Failed"]
      OBVIOUS
    <2>2. c = [m EXCEPT !.undo = u]
      BY <1>4, <1>6, <2>1 DEF Compensated
    <2>3. c.next = e.next /\ c.state = s /\ c.undo = u
      BY <1>4, <2>2
    <2>4. ASSUME NEW i \in Undoable[w], i <= e.next PROVE u[i] # "None"
      <3>1. i \in Actions
        BY StepsTyped
      <3>2. i \notin ToUndo(w, m) => m.undo[i] = "Completed"
        BY <1>4, <2>4 DEF ToUndo
      <3> QED
        BY <2>1, <3>1, <3>2
    <2> QED
      BY <1>2, <2>3, <2>4 DEF Tried
  <1> QED
    BY <1>5, <1>6

\* Jobs that nobody works on, and workers that do nothing.
LEMMA JobKept ==
    ASSUME NEW j \in Jobs, JobOK(j), exec'[j] = exec[j], last'[j] = last[j], ran'[j] = ran[j],
           job'[j].state \in {"Completed", "Dead"} => job'[j].state = job[j].state
    PROVE  JobOK(j)'
  BY DEF JobOK, ExecutedToEnd, Tried

LEMMA AtWorkKept ==
    ASSUME WorkflowInv, NEW p \in Workers, AtWork(p), list'[p] = list[p], phase'[p] = phase[p], cur'[p] = cur[p],
           failure'[p] = failure[p], last' = last,
           \A j \in Jobs : job[j].state \in Unsettled => job'[j].state = job[j].state
    PROVE  AtWork(p)'
  <1>1. list[p] \subseteq Jobs /\ (phase[p] # "idle" => cur[p] \in Jobs)
    BY DEF WorkflowInv, TypeOK, RunsUnderLock
  <1> QED
    BY <1>1 DEF AtWork

\* Nobody is blocked when a run stops nowhere: the first that is would be reached.
LEMMA NobodyBlocked ==
    ASSUME NEW v, NEW cap, {w \in Reached(v, cap) : Blocked(v, cap, w)} = {}
    PROVE  /\ \A w \in Workflows : ~Blocked(v, cap, w)
           /\ Reached(v, cap) = Workflows
  <1> DEFINE S == {w \in Workflows : Blocked(v, cap, w)}
  <1>1. S = {}
    <2> SUFFICES ASSUME S # {} PROVE FALSE
      OBVIOUS
    <2>1. S \subseteq Nat
      BY WorkflowAssumption
    <2>2. PICK w \in S : \A k \in S : w <= k
      BY <2>1, LeastExists
    <2>3. w \in Reached(v, cap)
      BY <2>2 DEF Reached
    <2> QED
      BY <2>2, <2>3
  <1> QED
    BY <1>1 DEF Reached

LEMMA InitSerial == Init => SerialInv
  <1> SUFFICES ASSUME Init PROVE SerialInv
    OBVIOUS
  <1>1. WorkflowInv
    BY InitWorkflowInv
  <1>2. ASSUME NEW j \in Jobs PROVE JobOK(j)
    <2>1. job[j].state = "Absent" /\ exec[j] = NoView
      BY DEF Init
    <2>2. \A x \in Versions : exec[j][x].state = "None"
      BY <2>1 DEF NoView, NoExec
    <2> QED
      BY <2>1, <2>2 DEF JobOK
  <1>3. ASSUME NEW p \in Workers PROVE AtWork(p)
    BY DEF Init, AtWork
  <1> QED
    BY <1>1, <1>2, <1>3 DEF SerialInv

\* A step of nobody's pass settles no job and touches none that is unsettled.
LEMMA SettlesNothing ==
    ASSUME SerialInv, WorkflowInv', exec' = exec, last' = last, ran' = ran,
           list' = list, phase' = phase, cur' = cur, failure' = failure,
           \A j \in Jobs : job'[j].state \in {"Completed", "Dead"} => job'[j].state = job[j].state,
           \A j \in Jobs : job[j].state \in Unsettled => job'[j].state = job[j].state
    PROVE  SerialInv'
  <1>1. ASSUME NEW j \in Jobs PROVE JobOK(j)'
    BY JobKept DEF SerialInv
  <1>2. ASSUME NEW p \in Workers PROVE AtWork(p)'
    BY AtWorkKept DEF SerialInv
  <1> QED
    BY <1>1, <1>2 DEF SerialInv

LEMMA OthersKeepSerial ==
    ASSUME SerialInv, WorkflowInv',
           (\E j \in Jobs : QueueWorkflowEvent(j) \/ ReplayDead(j))
             \/ (\E w \in Workflows : DeployWorkflowPackage(w)) \/ Tick
    PROVE  SerialInv'
  <1>1. job \in [Jobs -> Job]
    BY DEF SerialInv, WorkflowInv, TypeOK
  <1>2. exec' = exec /\ last' = last /\ ran' = ran
        /\ list' = list /\ phase' = phase /\ cur' = cur /\ failure' = failure
    BY DEF QueueWorkflowEvent, ReplayDead, DeployWorkflowPackage, Tick, session
  <1>3. /\ \A i \in Jobs : job'[i].state \in {"Completed", "Dead"} => job'[i].state = job[i].state
        /\ \A i \in Jobs : job[i].state \in Unsettled => job'[i].state = job[i].state
    <2>1. ASSUME NEW j \in Jobs, QueueWorkflowEvent(j)
          PROVE  <1>3!1 /\ <1>3!2
      <3>1. job' = [job EXCEPT ![j].state = "Pending"]
        BY <2>1 DEF QueueWorkflowEvent
      <3>2. \A i \in Jobs : job'[i].state = IF i = j THEN "Pending" ELSE job[i].state
        BY <1>1, <3>1 DEF Job
      <3>3. job[j].state = "Absent"
        BY <2>1 DEF QueueWorkflowEvent
      <3> QED
        BY <3>2, <3>3 DEF Unsettled
    <2>2. ASSUME NEW j \in Jobs, ReplayDead(j)
          PROVE  <1>3!1 /\ <1>3!2
      <3>1. job' = [job EXCEPT ![j] = [state |-> "Retry", attempts |-> 0, wait |-> 0]]
        BY <2>2 DEF ReplayDead
      <3>2. \A i \in Jobs : job'[i].state = IF i = j THEN "Retry" ELSE job[i].state
        BY <1>1, <3>1
      <3>3. job[j].state = "Dead"
        BY <2>2 DEF ReplayDead
      <3> QED
        BY <3>2, <3>3 DEF Unsettled
    <2>3. ASSUME NEW w \in Workflows, DeployWorkflowPackage(w)
          PROVE  <1>3!1 /\ <1>3!2
      BY <2>3 DEF DeployWorkflowPackage
    <2>4. CASE Tick
      <3>1. job' = [j \in Jobs |-> [job[j] EXCEPT !.wait = Less(@)]]
        BY <2>4 DEF Tick
      <3>2. \A i \in Jobs : job'[i].state = job[i].state
        BY <1>1, <3>1 DEF Job
      <3> QED
        BY <3>2
    <2> QED
      BY <2>1, <2>2, <2>3, <2>4
  <1> QED
    BY <1>2, <1>3, SettlesNothing

\* A pass takes up jobs that are unsettled, one after the other.
LEMMA SelectKeepsSerial ==
    ASSUME OneWorker, SerialInv, WorkflowInv', NEW p \in Workers, Select(p)
    PROVE  SerialInv'
  <1>1. PICK B \in SUBSET Due : list' = [list EXCEPT ![p] = B]
    BY DEF Select
  <1>2. phase[p] = "idle" /\ job' = job /\ exec' = exec /\ last' = last /\ ran' = ran /\ phase' = phase
    BY DEF Select, tables
  <1>3. ASSUME NEW j \in Jobs PROVE JobOK(j)'
    BY <1>2, JobKept DEF SerialInv
  <1>4. ASSUME NEW q \in Workers PROVE AtWork(q)'
    <2>1. q = p
      BY DEF OneWorker
    <2>2. list'[q] = B /\ phase'[q] = "idle"
      BY <1>1, <1>2, <2>1 DEF SerialInv, WorkflowInv, TypeOK
    <2>3. \A j \in B : job'[j].state \in Unsettled
      BY <1>2 DEF Due, Unsettled
    <2> QED
      BY <2>2, <2>3 DEF AtWork
  <1> QED
    BY <1>3, <1>4 DEF SerialInv

LEMMA StartJobKeepsSerial ==
    ASSUME OneWorker, SerialInv, WorkflowInv', NEW p \in Workers, NEW j \in Jobs, StartJob(p, j)
    PROVE  SerialInv'
  <1>1. j \in list[p] /\ list' = [list EXCEPT ![p] = @ \ {j}] /\ phase' = [phase EXCEPT ![p] = "running"]
        /\ cur' = [cur EXCEPT ![p] = j] /\ job' = job /\ exec' = exec /\ last' = last /\ ran' = ran
    BY DEF StartJob, tables
  <1>2. ASSUME NEW i \in Jobs PROVE JobOK(i)'
    BY <1>1, JobKept DEF SerialInv
  <1>3. ASSUME NEW q \in Workers PROVE AtWork(q)'
    <2>1. q = p
      BY DEF OneWorker
    <2>2. list'[q] = list[p] \ {j} /\ phase'[q] = "running" /\ cur'[q] = j
      BY <1>1, <2>1 DEF SerialInv, WorkflowInv, TypeOK
    <2>3. \A i \in list[p] : job'[i].state \in Unsettled
      BY <1>1 DEF SerialInv, AtWork
    <2> QED
      BY <1>1, <2>2, <2>3 DEF AtWork
  <1> QED
    BY <1>2, <1>3 DEF SerialInv

LEMMA LeaveParkedKeepsSerial ==
    ASSUME OneWorker, SerialInv, WorkflowInv', NEW p \in Workers, LeaveParked(p)
    PROVE  SerialInv'
  <1>1. phase[p] = "parked" /\ phase' = [phase EXCEPT ![p] = "idle"] /\ list' = list
        /\ exec' = exec /\ last' = last /\ ran' = ran
    BY DEF LeaveParked
  <1>2. job' = job
    <2>1. job[cur[p]].state \in {"Waiting", "Rate Limited"}
      BY <1>1 DEF SerialInv, AtWork
    <2> QED
      BY <2>1 DEF LeaveParked
  <1>3. ASSUME NEW i \in Jobs PROVE JobOK(i)'
    BY <1>1, <1>2, JobKept DEF SerialInv
  <1>4. ASSUME NEW q \in Workers PROVE AtWork(q)'
    <2>1. q = p
      BY DEF OneWorker
    <2>2. phase'[q] = "idle"
      BY <1>1, <2>1 DEF SerialInv, WorkflowInv, TypeOK
    <2> QED
      BY <1>1, <1>2, <2>2 DEF SerialInv, AtWork
  <1> QED
    BY <1>3, <1>4 DEF SerialInv

LEMMA FailKeepsSerial ==
    ASSUME OneWorker, SerialInv, WorkflowInv', NEW p \in Workers, Fail(p)
    PROVE  SerialInv'
  <1>1. PICK f : f = [attempts |-> job[cur[p]].attempts, state |-> job[cur[p]].state, exec |-> last[cur[p]],
                      was |-> IF last[cur[p]] = <<>> THEN "None" ELSE exec[cur[p]][last[cur[p]]].state]
    OBVIOUS
  <1>2. f.state = job[cur[p]].state /\ f.exec = last[cur[p]]
    BY <1>1
  <1>3. phase[p] = "running" /\ phase' = [phase EXCEPT ![p] = "failing"] /\ list' = list /\ cur' = cur
        /\ failure' = [failure EXCEPT ![p] = f] /\ job' = job /\ exec' = exec /\ last' = last /\ ran' = ran
    BY <1>1 DEF Fail, tables
  <1>4. ASSUME NEW i \in Jobs PROVE JobOK(i)'
    BY <1>3, JobKept DEF SerialInv
  <1>5. ASSUME NEW q \in Workers PROVE AtWork(q)'
    <2>1. q = p
      BY DEF OneWorker
    <2>2. phase'[q] = "failing" /\ failure'[q] = f
      BY <1>3, <2>1 DEF SerialInv, WorkflowInv, TypeOK
    <2> QED
      BY <1>2, <1>3, <2>1, <2>2 DEF SerialInv, AtWork
  <1> QED
    BY <1>4, <1>5 DEF SerialInv

LEMMA CrashKeepsSerial ==
    ASSUME OneWorker, SerialInv, WorkflowInv', NEW p \in Workers, Crash(p)
    PROVE  SerialInv'
  <1>1. phase' = [phase EXCEPT ![p] = "idle"] /\ list' = [list EXCEPT ![p] = {}]
        /\ job' = job /\ exec' = exec /\ last' = last /\ ran' = ran
    BY DEF Crash, tables
  <1>2. ASSUME NEW i \in Jobs PROVE JobOK(i)'
    BY <1>1, JobKept DEF SerialInv
  <1>3. ASSUME NEW q \in Workers PROVE AtWork(q)'
    <2>1. q = p
      BY DEF OneWorker
    <2>2. phase'[q] = "idle" /\ list'[q] = {}
      BY <1>1, <2>1 DEF SerialInv, WorkflowInv, TypeOK
    <2> QED
      BY <2>2 DEF AtWork
  <1> QED
    BY <1>2, <1>3 DEF SerialInv

\* A run that stops nowhere has brought the published version of every workflow
\* to its end; one that stops parks the job.
LEMMA CommitJobKeepsSerial ==
    ASSUME OneWorker, SerialInv, WorkflowInv', NEW p \in Workers, CommitJob(p)
    PROVE  SerialInv'
  <1>1. PICK j, v, cap : j = cur[p] /\ v = view[p] /\ cap = capped[p]
    OBVIOUS
  <1> DEFINE E == Executed(v, cap)
             done == {Of(w) : w \in E}
             stops == {w \in Reached(v, cap) : Blocked(v, cap, w)}
             waiting == stops \intersect E
  <1>2. phase[p] = "running" /\ j \in Jobs /\ v = exec[j] /\ job[j].state \in Unsettled /\ j \notin list[p]
    BY <1>1 DEF CommitJob, SerialInv, WorkflowInv, RunsUnderLock, AtWork
  <1>3. /\ exec' = [exec EXCEPT ![j] = [x \in Versions |-> IF x \in done THEN Advanced(x[1], v[x]) ELSE exec[j][x]]]
        /\ list' = list
        /\ phase' = [phase EXCEPT ![p] = IF stops = {} THEN "idle" ELSE "parked"]
        /\ cur' = [cur EXCEPT ![p] = IF stops = {} THEN NoJob ELSE j]
    BY <1>1, Zenon DEF CommitJob
  <1>4. \A i \in Jobs : i # j => ran'[i] = ran[i] /\ last'[i] = last[i]
    <2>1. \E r : ran' = [ran EXCEPT ![j] = r]
      BY <1>1 DEF CommitJob
    <2>2. last' = last \/ \E y : last' = [last EXCEPT ![j] = y]
      BY <1>1 DEF CommitJob
    <2> QED
      BY <2>1, <2>2 DEF SerialInv, WorkflowInv, TypeOK
  <1>5. /\ \A i \in Jobs : i # j => job'[i] = job[i]
        /\ job'[j].state = Outcome(stops, waiting)
    <2>1. \E t : job' = [job EXCEPT ![j].state = Outcome(stops, waiting), ![j].wait = t]
      BY <1>1 DEF CommitJob
    <2>2. PICK s, t : s = Outcome(stops, waiting) /\ job' = [job EXCEPT ![j].state = s, ![j].wait = t]
      BY <2>1
    <2>3. job \in [Jobs -> Job]
      BY DEF SerialInv, WorkflowInv, TypeOK
    <2>4. (\A i \in Jobs : i # j => job'[i] = job[i]) /\ job'[j].state = s
      <3> HIDE DEF stops, waiting
      <3> QED
        BY <1>2, <2>2, <2>3 DEF Job
    <2> QED
      BY <2>2, <2>4
  <1>6. /\ \A i \in Jobs : i # j => exec'[i] = exec[i]
        /\ \A x \in Versions : exec'[j][x] = IF x \in done THEN Advanced(x[1], v[x]) ELSE v[x]
    <2> HIDE DEF done
    <2> QED
      BY <1>2, <1>3 DEF SerialInv, WorkflowInv, TypeOK
  <1>7. \A x \in Versions : v[x] \in Exec /\ (v[x].state = "Completed" => v[x].next = Steps[x[1]])
    BY <1>2 DEF SerialInv, WorkflowInv, TypeOK, JobOK
  <1>8. \A x \in Versions : exec'[j][x].state = "Completed" => exec'[j][x].next = Steps[x[1]]
    <2> SUFFICES ASSUME NEW x \in Versions, exec'[j][x].state = "Completed"
                 PROVE  exec'[j][x].next = Steps[x[1]]
      OBVIOUS
    <2>1. CASE x \in done
      <3>1. x[1] \in Workflows /\ v[x] \in Exec
        BY <1>7, VersionsTyped
      <3>2. PICK a : a = Advanced(x[1], v[x])
        OBVIOUS
      <3>3. a.state = "Completed" => a.next = Steps[x[1]]
        BY <3>1, <3>2, AdvancedEnds
      <3>4. exec'[j][x] = a
        BY <1>6, <2>1, <3>2
      <3> QED
        BY <3>3, <3>4
    <2>2. CASE x \notin done
      <3>1. exec'[j][x] = v[x]
        BY <1>6, <2>2
      <3> QED
        BY <1>7, <3>1
    <2> QED
      BY <2>1, <2>2
  <1>9. ASSUME stops = {} PROVE ExecutedToEnd(j)'
    <2>1. (\A w \in Workflows : ~Blocked(v, cap, w)) /\ Reached(v, cap) = Workflows
      BY <1>9, NobodyBlocked
    <2> SUFFICES ASSUME NEW w \in Workflows
                 PROVE  \E n \in 1 .. MaxVersions :
                          \A i \in 1 .. Steps[w] : i \notin Waits[w] => ran'[j][<<w, n>>][i] = 1
      BY DEF ExecutedToEnd
    <2>2. PICK x, n : n = published[w] /\ x = <<w, n>>
      OBVIOUS
    <2>3. n \in 1 .. MaxVersions /\ x = Of(w) /\ x \in Versions /\ x[1] = w
      BY <2>2 DEF Of, Versions, SerialInv, WorkflowInv, TypeOK
    <2>4. ~Blocked(v, cap, w) /\ w \in Reached(v, cap)
      BY <2>1
    <2>5. w \in E <=> v[x].state # "Completed"
      BY <2>3, <2>4 DEF Executed, Blocked
    <2>6. exec'[j][x].state = "Completed"
      <3>1. CASE w \in E
        <4>1. x \in done
          BY <2>3, <3>1
        <4>2. WaitsFrom(w, v[x].next) = {}
          BY <2>3, <2>4, <2>5, <3>1 DEF Blocked
        <4>3. PICK a : a = Advanced(w, v[x])
          OBVIOUS
        <4>4. a.state = "Completed"
          BY <1>7, <2>3, <4>2, <4>3, AdvancedEnds
        <4> QED
          BY <1>6, <2>3, <4>1, <4>3, <4>4
      <3>2. CASE w \notin E
        <4>1. x \notin done
          <5> SUFFICES ASSUME NEW u \in E, x = Of(u) PROVE FALSE
            OBVIOUS
          <5>1. u = w
            BY <2>3 DEF Of
          <5> QED
            BY <3>2, <5>1
        <4> QED
          BY <1>6, <2>3, <2>5, <3>2, <4>1
      <3> QED
        BY <3>1, <3>2
    <2>7. exec'[j][x].next = Steps[w]
      BY <1>8, <2>3, <2>6
    <2>8. EffectsMatch(w, exec'[j][x], ran'[j][x])
      BY <1>2, <2>3 DEF WorkflowInv, RecordsMatch
    <2>9. \A i \in 1 .. Steps[w] : i \notin Waits[w] => ran'[j][x][i] = 1
      <3>1. \A i \in 1 .. Steps[w] : i \in Actions /\ i <= Steps[w]
        BY StepsTyped DEF Actions
      <3> QED
        BY <2>7, <2>8, <3>1 DEF EffectsMatch
    <2> QED
      BY <2>2, <2>3, <2>9
  <1>10. /\ job'[j].state = "Completed" <=> stops = {}
         /\ job'[j].state \in {"Completed", "Waiting", "Rate Limited"}
    <2> HIDE DEF stops, waiting
    <2> QED
      BY <1>5 DEF Outcome
  <1> HIDE DEF stops, waiting, done, E
  <1>11. JobOK(j)'
    BY <1>8, <1>9, <1>10 DEF JobOK
  <1>12. ASSUME NEW i \in Jobs PROVE JobOK(i)'
    <2>1. CASE i = j
      BY <1>11, <2>1
    <2>2. CASE i # j
      <3>1. exec'[i] = exec[i] /\ last'[i] = last[i] /\ ran'[i] = ran[i] /\ job'[i].state = job[i].state
        BY <1>4, <1>5, <1>6, <2>2
      <3> QED
        BY <3>1, JobKept DEF SerialInv
    <2> QED
      BY <2>1, <2>2
  <1>13. ASSUME NEW q \in Workers PROVE AtWork(q)'
    <2>1. q = p
      BY DEF OneWorker
    <2>2. list[p] \subseteq Jobs /\ \A i \in list[p] : job[i].state \in Unsettled
      BY DEF SerialInv, WorkflowInv, TypeOK, AtWork
    <2>3. \A i \in list'[q] : job'[i].state \in Unsettled
      <3>1. \A i \in list[p] : i \in Jobs /\ i # j
        BY <1>2, <2>2
      <3>2. \A i \in list[p] : job'[i].state = job[i].state
        BY <1>5, <3>1
      <3> QED
        BY <1>3, <2>1, <2>2, <3>2
    <2>4. phase'[q] = (IF stops = {} THEN "idle" ELSE "parked") /\ cur'[q] = IF stops = {} THEN NoJob ELSE j
      BY <1>3, <2>1 DEF SerialInv, WorkflowInv, TypeOK
    <2>5. stops # {} => job'[j].state \in {"Waiting", "Rate Limited"} /\ job'[j].state \in Unsettled
      BY <1>10 DEF Unsettled
    <2>6. j \notin list'[q]
      BY <1>2, <1>3, <2>1
    <2> QED
      BY <2>3, <2>4, <2>5, <2>6 DEF AtWork
  <1> QED
    BY <1>12, <1>13 DEF SerialInv

\* A failure is recorded on the job and the execution that failed: the job is
\* tried again, or Dead and its latest execution compensated.
LEMMA CommitFailureKeepsSerial ==
    ASSUME OneWorker, SerialInv, WorkflowInv', NEW p \in Workers, NEW undoes \in BOOLEAN, CommitFailure(p, undoes)
    PROVE  SerialInv'
  <1>1. PICK j, f : j = cur[p] /\ f = failure[p]
    OBVIOUS
  <1> DEFINE dead == f.attempts + 1 >= MaxAttempts
  <1>2. dead \in BOOLEAN
    OBVIOUS
  <1>3. PICK d, y : d = (IF dead THEN "Dead" ELSE "Retry") /\ y = (IF dead THEN "Failed" ELSE "Retry")
    OBVIOUS
  <1>4. phase[p] = "failing" /\ j \in Jobs /\ j \notin list[p]
    BY <1>1 DEF CommitFailure, SerialInv, WorkflowInv, RunsUnderLock, AtWork
  <1>5. f.state = job[j].state /\ f.exec = last[j] /\ job[j].state \in Unsettled
    BY <1>1, <1>4 DEF SerialInv, AtWork
  <1>6. last' = last /\ ran' = ran /\ list' = list /\ phase' = [phase EXCEPT ![p] = "idle"]
    BY DEF CommitFailure
  <1>7. (\A i \in Jobs : i # j => job'[i] = job[i]) /\ job'[j].state = d
    <2>1. job' = [job EXCEPT ![j] =
               [state |-> Written(f.state, d, @.state), attempts |-> f.attempts + 1,
                wait |-> IF dead THEN @.wait ELSE RetryDelay(f.attempts + 1)]]
      BY <1>1, <1>3 DEF CommitFailure
    <2>2. Written(f.state, d, job[j].state) = d
      BY <1>3, <1>5 DEF Written, Unsettled
    <2>3. PICK n, t : n = f.attempts + 1 /\ t = IF dead THEN job[j].wait ELSE RetryDelay(f.attempts + 1)
      OBVIOUS
    <2> HIDE DEF dead
    <2>4. job' = [job EXCEPT ![j] = [state |-> d, attempts |-> n, wait |-> t]]
      BY <1>4, <2>1, <2>2, <2>3 DEF SerialInv, WorkflowInv, TypeOK
    <2> QED
      BY <1>4, <2>4 DEF SerialInv, WorkflowInv, TypeOK
  <1>8. /\ \A i \in Jobs : i # j => exec'[i] = exec[i]
        /\ \A x \in Versions : exec'[j][x] = IF x # f.exec THEN exec[j][x]
                                             ELSE Compensated(x[1], Marked(exec[j][x], f.was, y), dead, undoes)
    <2>1. exec' = [exec EXCEPT ![j] = [x \in Versions |->
             IF x # f.exec THEN exec[j][x]
             ELSE Compensated(x[1], Marked(exec[j][x], f.was, y), dead, undoes)]]
      BY <1>1, <1>3, Zenon DEF CommitFailure
    <2> HIDE DEF dead
    <2> QED
      BY <1>4, <2>1 DEF SerialInv, WorkflowInv, TypeOK
  <1> HIDE DEF dead
  <1>9. \A x \in Versions : exec[j][x] \in Exec /\ (exec[j][x].state = "Completed" => exec[j][x].next = Steps[x[1]])
    BY <1>4 DEF SerialInv, WorkflowInv, TypeOK, JobOK
  <1>10. \A x \in Versions : exec'[j][x].state = "Completed" => exec'[j][x].next = Steps[x[1]]
    <2> SUFFICES ASSUME NEW x \in Versions, exec'[j][x].state = "Completed"
                 PROVE  exec'[j][x].next = Steps[x[1]]
      OBVIOUS
    <2>1. CASE x # f.exec
      BY <1>8, <1>9, <2>1
    <2>2. CASE x = f.exec
      <3>1. PICK e, c : e = exec[j][x] /\ c = Compensated(x[1], Marked(e, f.was, y), dead, undoes)
        OBVIOUS
      <3>2. x[1] \in Workflows /\ e \in Exec
        BY <1>9, <3>1, VersionsTyped
      <3>3. c.next = e.next /\ (c.state = e.state \/ c.state = y)
        BY <1>2, <3>1, <3>2, CompensatedFacts
      <3>4. exec'[j][x] = c /\ y # "Completed"
        BY <1>3, <1>8, <2>2, <3>1
      <3> QED
        BY <1>9, <3>1, <3>3, <3>4
    <2> QED
      BY <2>1, <2>2
  <1>11. ASSUME dead, last[j] # <<>> PROVE Tried(last[j][1], exec'[j][last[j]])
    <2>1. PICK x : x = last[j]
      OBVIOUS
    <2>2. x \in Versions /\ x = f.exec /\ x[1] \in Workflows
      BY <1>4, <1>5, <1>11, <2>1, VersionsTyped DEF SerialInv, WorkflowInv, TypeOK
    <2>3. PICK e, c : e = exec[j][x] /\ c = Compensated(x[1], Marked(e, f.was, y), dead, undoes)
      OBVIOUS
    <2>4. e \in Exec
      BY <1>9, <2>2, <2>3
    <2>5. Tried(x[1], c)
      BY <1>2, <1>11, <2>2, <2>3, <2>4, CompensatedFacts
    <2>6. exec'[j][x] = c
      BY <1>8, <2>2, <2>3
    <2> QED
      BY <2>1, <2>5, <2>6
  <1>12. JobOK(j)'
    <2>1. job'[j].state # "Completed" /\ (job'[j].state = "Dead" => dead)
      BY <1>3, <1>7
    <2>2. job'[j].state = "Dead" /\ last'[j] # <<>> => Tried(last'[j][1], exec'[j][last'[j]])
      BY <1>6, <1>11, <2>1
    <2> QED
      BY <1>10, <2>1, <2>2 DEF JobOK, Tried
  <1>13. ASSUME NEW i \in Jobs PROVE JobOK(i)'
    <2>1. CASE i = j
      BY <1>12, <2>1
    <2>2. CASE i # j
      <3>1. exec'[i] = exec[i] /\ last'[i] = last[i] /\ ran'[i] = ran[i] /\ job'[i].state = job[i].state
        BY <1>6, <1>7, <1>8, <2>2
      <3> QED
        BY <3>1, JobKept DEF SerialInv
    <2> QED
      BY <2>1, <2>2
  <1>14. ASSUME NEW q \in Workers PROVE AtWork(q)'
    <2>1. q = p
      BY DEF OneWorker
    <2>2. phase'[q] = "idle" /\ list'[q] = list[p]
      BY <1>6, <2>1 DEF SerialInv, WorkflowInv, TypeOK
    <2>3. \A i \in list[p] : job[i].state \in Unsettled /\ i \in Jobs /\ i # j
      BY <1>4 DEF SerialInv, WorkflowInv, TypeOK, AtWork
    <2>4. \A i \in list'[q] : job'[i].state \in Unsettled
      BY <1>7, <2>2, <2>3
    <2> QED
      BY <2>2, <2>4 DEF AtWork
  <1> QED
    BY <1>13, <1>14 DEF SerialInv

LEMMA NextKeepsSerial == OneWorker /\ SerialInv /\ [Next]_vars => SerialInv'
  <1> SUFFICES ASSUME OneWorker, SerialInv, [Next]_vars PROVE SerialInv'
    OBVIOUS
  <1>1. WorkflowInv'
    BY NextKeepsInv DEF SerialInv
  <1>2. CASE (\E j \in Jobs : QueueWorkflowEvent(j) \/ ReplayDead(j))
               \/ (\E w \in Workflows : DeployWorkflowPackage(w)) \/ Tick
    BY <1>1, <1>2, OthersKeepSerial
  <1>3. ASSUME NEW p \in Workers, Pass(p) \/ Crash(p)
        PROVE  SerialInv'
    BY <1>1, <1>3, SelectKeepsSerial, StartJobKeepsSerial, CommitJobKeepsSerial, LeaveParkedKeepsSerial,
       FailKeepsSerial, CommitFailureKeepsSerial, CrashKeepsSerial DEF Pass
  <1>4. CASE UNCHANGED vars
    <2>1. job' = job /\ exec' = exec /\ last' = last /\ ran' = ran /\ list' = list /\ phase' = phase
          /\ cur' = cur /\ failure' = failure
      BY <1>4 DEF vars
    <2> QED
      BY <1>1, <2>1, SettlesNothing
  <1> QED
    BY <1>2, <1>3, <1>4 DEF Next

\* OneWorker is constant; it is carried along so that every step may use it.
LEMMA SerialInvariant == OneWorker => (Spec => []SerialInv)
  <1> SUFFICES ASSUME OneWorker PROVE Spec => []SerialInv
    OBVIOUS
  <1>1. SerialInv /\ [Next]_vars => SerialInv'
    BY NextKeepsSerial
  <1> QED
    BY <1>1, InitSerial, PTL DEF Spec

\* With one worker (the chart deploys one replica of it), a job that
\* process_workflow_jobs marks Completed has run every action of a version of
\* every matching workflow, whatever waits, limits, failures, crashes, replays
\* and new versions came in between, for any number of jobs and workflows.
THEOREM WorkflowCompletedIsExecuted == OneWorker => (Spec => []CompletedIsExecuted)
  <1> SUFFICES ASSUME OneWorker PROVE Spec => []CompletedIsExecuted
    OBVIOUS
  <1>1. SerialInv => CompletedIsExecuted
    BY DEF SerialInv, JobOK, ExecutedToEnd, CompletedIsExecuted
  <1>2. Spec => []SerialInv
    BY SerialInvariant
  <1> QED
    BY <1>1, <1>2, PTL

\* With one worker, a job that is given up leaves no completed action of its
\* latest execution with a compensation that was not tried.
THEOREM WorkflowDeadIsCompensated == OneWorker => (Spec => []DeadIsCompensated)
  <1> SUFFICES ASSUME OneWorker PROVE Spec => []DeadIsCompensated
    OBVIOUS
  <1>1. SerialInv => DeadIsCompensated
    BY DEF SerialInv, JobOK, Tried, DeadIsCompensated
  <1>2. Spec => []SerialInv
    BY SerialInvariant
  <1> QED
    BY <1>1, <1>2, PTL
=============================================================================
