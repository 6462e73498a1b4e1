-------------------------- MODULE BackgroundProofs --------------------------
(***************************************************************************)
(* Proofs about the work that survives its process, for any number of      *)
(* workers and every bound: an import is carried out once and only after a *)
(* preview of its own (SyncJobs), and the pointer of a deployment on a     *)
(* Kubo node only moves forward (Checkpoints).                             *)
(***************************************************************************)
EXTENDS MCBackground, TLAPS

-----------------------------------------------------------------------------
(* Synchronization jobs                                                    *)

Doing == [at : {"idle", "locked", "starting", "running", "checked", "written"}, job : Nat]

JobTypeOK ==
    /\ TypeOK
    /\ worker \in [Workers -> Doing]
    /\ \A w \in Workers : worker[w].at # "idle" => worker[w].job \in Ids
    /\ page # NoPage => page.job \in Ids

\* Worker w has passed its last question about job j and ends it whatever
\* happens to the lock.
Past(w, j) == worker[w].at \in {"checked", "written"} /\ worker[w].job = j

\* Worker w may still pass it: it has the lock since it found the job Pending.
Holds(w, j) == lock = w /\ worker[w].at \in {"starting", "running"} /\ worker[w].job = j

\* Job j has come to its last question, whatever its status says now.
Reached(j) == jobs[j].usable \/ wrote[j] > 0 \/ \E w \in Workers : Past(w, j)

\* It is not begun again, and nobody who holds the lock is on the way there.
ReachedOnce ==
    \A j \in Ids : Reached(j) =>
        jobs[j].status # "Pending" /\ \A w \in Workers : ~Holds(w, j)

\* A started job is not Pending.
StartedIsNotPending ==
    \A w \in Workers : worker[w].at = "running" => jobs[worker[w].job].status # "Pending"

\* Only one worker is past the last question, before it writes nothing was
\* written, and once the job is marked it is not written any more.
OneWriter ==
    /\ \A j \in Ids : \A v, w \in Workers : Past(v, j) /\ Past(w, j) => v = w
    /\ \A w \in Workers : worker[w].at = "checked" => wrote[worker[w].job] = 0
    /\ \A j \in Ids : jobs[j].usable => \A w \in Workers : ~Past(w, j)

\* How often a job is written, and what was there before an import.
Counted == \A j \in Ids : wrote[j] <= 1 /\ (jobs[j].dry => wrote[j] = 0)
Previewed == \A j \in Ids : ~jobs[j].dry => j > 1 /\ jobs[j - 1].dry /\ jobs[j - 1].usable

JobInv == JobTypeOK /\ ReachedOnce /\ StartedIsNotPending /\ OneWriter /\ Counted /\ Previewed

LEMMA JobsTyped ==
    ASSUME JobTypeOK
    PROVE  /\ jobs \in Seq(Job) /\ Len(jobs) \in Nat /\ Ids = 1 .. Len(jobs)
           /\ DOMAIN wrote = Ids /\ wrote \in Seq(Nat) /\ Len(wrote) = Len(jobs)
           /\ \A j \in Ids : j \in Nat /\ jobs[j] \in Job /\ wrote[j] \in Nat
           /\ \A w \in Workers : worker[w] \in Doing
  <1>1. jobs \in Seq(Job) /\ Len(jobs) \in Nat /\ Ids = 1 .. Len(jobs)
    BY DEF JobTypeOK, TypeOK, Ids
  <1>2. wrote \in [1 .. Len(jobs) -> Nat]
    BY <1>1 DEF JobTypeOK, TypeOK
  <1>3. wrote \in Seq(Nat) /\ Len(wrote) = Len(jobs)
    BY <1>1, <1>2
  <1>4. \A j \in Ids : j \in Nat /\ jobs[j] \in Job
    BY <1>1 DEF Ids
  <1> QED
    BY <1>1, <1>2, <1>3, <1>4 DEF JobTypeOK

LEMMA JobInit == Init => JobInv
  <1> SUFFICES ASSUME Init PROVE JobInv
    OBVIOUS
  <1>1. Ids = {} /\ jobs \in Seq(Job) /\ wrote \in [Ids -> Nat]
    BY DEF Init, Ids
  <1>2. JobTypeOK
    BY <1>1 DEF Init, JobTypeOK, TypeOK, Doing, Idle, NoPage
  <1> QED
    BY <1>1, <1>2 DEF Init, JobInv, ReachedOnce, StartedIsNotPending, OneWriter, Counted, Previewed, Idle

\* Every step that begins nothing and writes nothing: workers that change end
\* their work or begin to look at a job, the lock is at most taken by one that
\* looks, no job becomes Pending or usable, and only the last one stops being
\* usable.
LEMMA QuietStep ==
    ASSUME JobInv, JobTypeOK', DOMAIN jobs' = DOMAIN jobs, wrote' = wrote,
           \A j \in Ids :
               /\ jobs'[j].dry = jobs[j].dry
               /\ jobs'[j].status = "Pending" => jobs[j].status = "Pending"
               /\ jobs'[j].usable => jobs[j].usable
               /\ jobs[j].usable /\ ~jobs'[j].usable => j = Len(jobs),
           \A w \in Workers : worker'[w] = worker[w] \/ worker'[w].at \in {"idle", "locked"},
           \A w \in Workers : lock' = w => lock = w \/ worker'[w].at = "locked"
    PROVE  JobInv'
  <1>0. /\ Ids' = Ids /\ Ids = 1 .. Len(jobs) /\ Len(jobs) \in Nat /\ JobTypeOK
        /\ \A w \in Workers : worker[w].at # "idle" => worker[w].job \in Ids
    BY JobsTyped DEF JobInv, Ids, JobTypeOK
  <1>1. \A w \in Workers : \A j \in Ids : Past(w, j)' => Past(w, j)
    BY DEF Past
  <1>2. \A w \in Workers : \A j \in Ids : Holds(w, j)' => Holds(w, j)
    BY DEF Holds
  <1>3. \A j \in Ids : Reached(j)' => Reached(j)
    BY <1>1 DEF Reached
  <1>4. ReachedOnce'
    BY <1>0, <1>2, <1>3 DEF ReachedOnce, JobInv
  <1>5. StartedIsNotPending'
    BY <1>0 DEF StartedIsNotPending, JobInv
  <1>6. OneWriter'
    <2>1. \A j \in Ids : \A v, w \in Workers : Past(v, j)' /\ Past(w, j)' => v = w
      BY <1>1 DEF JobInv, OneWriter
    <2>2. \A w \in Workers : worker'[w].at = "checked" => wrote'[worker'[w].job] = 0
      BY DEF JobInv, OneWriter
    <2>3. \A j \in Ids : jobs'[j].usable => \A w \in Workers : ~Past(w, j)'
      BY <1>1 DEF JobInv, OneWriter
    <2> QED
      BY <1>0, <2>1, <2>2, <2>3 DEF OneWriter
  <1>7. Counted'
    BY <1>0 DEF JobInv, Counted
  <1>8. Previewed'
    <2>1. ASSUME NEW j \in Ids, ~jobs'[j].dry PROVE j > 1 /\ jobs'[j - 1].dry /\ jobs'[j - 1].usable
      <3>1. j > 1 /\ jobs[j - 1].dry /\ jobs[j - 1].usable
        BY <2>1 DEF JobInv, Previewed
      <3>2. j - 1 \in Ids /\ j - 1 # Len(jobs)
        BY <1>0, <3>1
      <3> QED
        BY <3>1, <3>2
    <2> QED
      BY <1>0, <2>1 DEF Previewed
  <1> QED
    BY <1>4, <1>5, <1>6, <1>7, <1>8 DEF JobInv

LEMMA QueueStep ==
    ASSUME JobInv, NEW dry \in BOOLEAN, Queue(dry)
    PROVE  JobInv'
  <1> DEFINE e == [dry |-> dry, status |-> "Pending", cancel |-> FALSE, usable |-> FALSE]
  <1> PICK n : n = Len(jobs) + 1
    OBVIOUS
  <1>0. /\ jobs \in Seq(Job) /\ Len(jobs) \in Nat /\ Ids = 1 .. Len(jobs)
        /\ wrote \in Seq(Nat) /\ Len(wrote) = Len(jobs)
        /\ \A w \in Workers : worker[w] \in Doing /\ (worker[w].at # "idle" => worker[w].job \in Ids)
    BY JobsTyped DEF JobInv, JobTypeOK
  <1>1. e \in Job /\ jobs' = Append(jobs, e) /\ wrote' = Append(wrote, 0)
    BY DEF Queue, Job, Active
  <1>2. /\ jobs' \in Seq(Job) /\ Len(jobs') = n /\ Ids' = 1 .. n /\ jobs'[n] = e
        /\ \A j \in Ids : jobs'[j] = jobs[j]
    <2> HIDE DEF e
    <2> QED
      BY <1>0, <1>1 DEF Ids
  <1>3. wrote' \in [1 .. n -> Nat] /\ wrote'[n] = 0 /\ \A j \in Ids : wrote'[j] = wrote[j]
    <2>1. wrote' \in Seq(Nat) /\ Len(wrote') = n
      BY <1>0, <1>1
    <2>2. wrote' \in [1 .. n -> Nat]
      BY <2>1
    <2>3. wrote'[n] = 0 /\ \A j \in 1 .. Len(wrote) : wrote'[j] = wrote[j]
      BY <1>0, <1>1
    <2> QED
      BY <1>0, <2>2, <2>3
  <1>4. /\ worker' = worker /\ lock' = lock /\ page' = page
        /\ dry \/ PreviewForImport(Len(jobs))
    BY DEF Queue
  <1>5. e.status = "Pending" /\ e.usable = FALSE /\ e.dry = dry
    OBVIOUS
  <1>6. n \notin Ids /\ n \in Nat /\ \A j \in Ids' : j # n => j \in Ids
    BY <1>0, <1>2
  <1> HIDE DEF e
  <1>7. JobTypeOK'
    BY <1>0, <1>2, <1>3, <1>4, <1>6 DEF JobInv, JobTypeOK, TypeOK
  <1>8. \A w \in Workers : ~Past(w, n)'
    BY <1>0, <1>4, <1>6 DEF Past
  <1>9. \A w \in Workers : \A j \in Ids : (Past(w, j)' <=> Past(w, j)) /\ (Holds(w, j)' <=> Holds(w, j))
    BY <1>4 DEF Past, Holds
  <1>10. ~Reached(n)' /\ \A j \in Ids : Reached(j)' => Reached(j)
    <2>1. ~Reached(n)'
      BY <1>2, <1>3, <1>5, <1>8 DEF Reached
    <2>2. \A j \in Ids : Reached(j)' => Reached(j)
      BY <1>2, <1>3, <1>9 DEF Reached
    <2> QED
      BY <2>1, <2>2
  <1>11. ReachedOnce'
    <2>1. ASSUME NEW j \in Ids', Reached(j)' PROVE jobs'[j].status # "Pending" /\ \A w \in Workers : ~Holds(w, j)'
      BY <1>2, <1>6, <1>9, <1>10, <2>1 DEF JobInv, ReachedOnce
    <2> QED
      BY <2>1 DEF ReachedOnce
  <1>12. StartedIsNotPending'
    BY <1>0, <1>2, <1>4 DEF JobInv, StartedIsNotPending
  <1>13. OneWriter'
    <2>1. \A j \in Ids' : \A v, w \in Workers : Past(v, j)' /\ Past(w, j)' => v = w
      BY <1>6, <1>8, <1>9 DEF JobInv, OneWriter
    <2>2. \A w \in Workers : worker'[w].at = "checked" => wrote'[worker'[w].job] = 0
      BY <1>0, <1>3, <1>4 DEF JobInv, OneWriter
    <2>3. \A j \in Ids' : jobs'[j].usable => \A w \in Workers : ~Past(w, j)'
      BY <1>2, <1>6, <1>8, <1>9 DEF JobInv, OneWriter
    <2> QED
      BY <2>1, <2>2, <2>3 DEF OneWriter
  <1>14. Counted'
    <2>1. ASSUME NEW j \in Ids' PROVE wrote'[j] <= 1 /\ (jobs'[j].dry => wrote'[j] = 0)
      BY <1>2, <1>3, <1>6 DEF JobInv, Counted
    <2> QED
      BY <2>1 DEF Counted
  <1>15. Previewed'
    <2>1. CASE dry
      <3>1. ASSUME NEW j \in Ids', ~jobs'[j].dry PROVE j > 1 /\ jobs'[j - 1].dry /\ jobs'[j - 1].usable
        <4>1. j \in Ids /\ j > 1 /\ jobs[j - 1].dry /\ jobs[j - 1].usable
          BY <1>2, <1>5, <1>6, <2>1, <3>1 DEF JobInv, Previewed
        <4>2. j - 1 \in Ids
          BY <1>0, <4>1
        <4> QED
          BY <1>2, <4>1, <4>2
      <3> QED
        BY <3>1 DEF Previewed
    <2>2. CASE PreviewForImport(Len(jobs))
      <3>1. Len(jobs) > 0 /\ jobs[Len(jobs)].dry /\ jobs[Len(jobs)].usable
        BY <2>2 DEF PreviewForImport
      <3>2. n > 1 /\ n - 1 = Len(jobs) /\ Len(jobs) \in Ids
        BY <1>0, <3>1
      <3>3. ASSUME NEW j \in Ids, ~jobs'[j].dry PROVE j > 1 /\ jobs'[j - 1].dry /\ jobs'[j - 1].usable
        <4>1. j > 1 /\ jobs[j - 1].dry /\ jobs[j - 1].usable
          BY <1>2, <3>3 DEF JobInv, Previewed
        <4>2. j - 1 \in Ids
          BY <1>0, <4>1
        <4> QED
          BY <1>2, <4>1, <4>2
      <3> QED
        BY <1>2, <1>6, <3>1, <3>2, <3>3 DEF Previewed
    <2> QED
      BY <1>4, <2>1, <2>2
  <1> QED
    BY <1>7, <1>11, <1>12, <1>13, <1>14, <1>15 DEF JobInv

\* The other steps change one worker and at most one job: what they do to the
\* types, and what a worker that begins or writes does to the rest.
LEMMA JobChanged ==
    ASSUME JobTypeOK, NEW k \in Ids, NEW x \in Job, jobs' = [jobs EXCEPT ![k] = x]
    PROVE  /\ jobs' \in Seq(Job) /\ Ids' = Ids /\ Len(jobs') = Len(jobs) /\ jobs'[k] = x
           /\ \A j \in Ids : j # k => jobs'[j] = jobs[j]
  <1>1. jobs \in Seq(Job) /\ Len(jobs) \in Nat /\ Ids = 1 .. Len(jobs)
    BY JobsTyped
  <1>2. jobs' \in [1 .. Len(jobs) -> Job]
    BY <1>1 DEF Ids
  <1> QED
    BY <1>1, <1>2 DEF Ids

LEMMA OpenCancelStep ==
    ASSUME JobInv, NEW j \in Ids, OpenCancel(j)
    PROVE  JobInv'
  <1>1. UNCHANGED <<jobs, lock, worker, wrote>> /\ page'.job = j
    BY DEF OpenCancel
  <1>2. JobTypeOK'
    BY <1>1 DEF JobInv, JobTypeOK, TypeOK, Ids
  <1> QED
    BY <1>1, <1>2, QuietStep

LEMMA SaveCancelStep ==
    ASSUME JobInv, SaveCancel
    PROVE  JobInv'
  <1>1. PICK k \in Ids : k = page.job
    BY DEF SaveCancel, JobInv, JobTypeOK
  <1>2. PICK x : x = [jobs[k] EXCEPT !.cancel = TRUE,
                                     !.status = IF page.status = "Pending" THEN "Cancelled" ELSE @]
    OBVIOUS
  <1>3. jobs[k] \in Job /\ JobTypeOK
    BY JobsTyped DEF JobInv
  <1>4. /\ x \in Job /\ x.dry = jobs[k].dry /\ x.usable = jobs[k].usable
        /\ x.status = "Pending" => jobs[k].status = "Pending"
    BY <1>2, <1>3 DEF Job, Active, Terminal
  <1>5. jobs' = [jobs EXCEPT ![k] = x] /\ page' = NoPage /\ UNCHANGED <<lock, worker, wrote>>
    BY <1>1, <1>2 DEF SaveCancel
  <1>6. /\ jobs' \in Seq(Job) /\ Ids' = Ids /\ jobs'[k] = x
        /\ \A j \in Ids : j # k => jobs'[j] = jobs[j]
    BY <1>3, <1>4, <1>5, JobChanged
  <1>7. JobTypeOK'
    BY <1>3, <1>5, <1>6 DEF JobTypeOK, TypeOK
  <1>8. \A j \in Ids : /\ jobs'[j].dry = jobs[j].dry /\ jobs'[j].usable = jobs[j].usable
                       /\ jobs'[j].status = "Pending" => jobs[j].status = "Pending"
    BY <1>4, <1>6
  <1> QED
    BY <1>5, <1>6, <1>7, <1>8, QuietStep DEF Ids

LEMMA ExpireStep ==
    ASSUME JobInv, Expire
    PROVE  JobInv'
  <1>1. /\ Len(jobs) \in Ids /\ JobTypeOK /\ jobs[Len(jobs)] \in Job
    BY JobsTyped DEF JobInv, Expire, PreviewForImport
  <1>2. PICK k \in Ids : k = Len(jobs)
    BY <1>1
  <1>3. PICK x : x = [jobs[k] EXCEPT !.usable = FALSE]
    OBVIOUS
  <1>4. x \in Job /\ x.dry = jobs[k].dry /\ x.usable = FALSE /\ x.status = jobs[k].status
    BY <1>1, <1>2, <1>3 DEF Job
  <1>5. jobs' = [jobs EXCEPT ![k] = x] /\ UNCHANGED <<lock, worker, page, wrote>>
    BY <1>2, <1>3 DEF Expire
  <1>6. /\ jobs' \in Seq(Job) /\ Ids' = Ids /\ jobs'[k] = x
        /\ \A j \in Ids : j # k => jobs'[j] = jobs[j]
    BY <1>1, <1>4, <1>5, JobChanged
  <1>7. JobTypeOK'
    BY <1>1, <1>5, <1>6 DEF JobTypeOK, TypeOK
  <1>8. \A j \in Ids : /\ jobs'[j].dry = jobs[j].dry /\ jobs'[j].status = jobs[j].status
                       /\ (jobs'[j].usable => jobs[j].usable)
                       /\ (jobs[j].usable /\ ~jobs'[j].usable => j = Len(jobs))
    BY <1>2, <1>4, <1>6
  <1> QED
    BY <1>5, <1>6, <1>7, <1>8, QuietStep DEF Ids

\* A worker begins to look at a job, or ends its work, the job possibly ended
\* with it.
LEMMA LookStep ==
    ASSUME JobInv, NEW w \in Workers, NEW x \in Doing, x.at \in {"idle", "locked"},
           x.at = "locked" => x.job \in Ids,
           worker' = [worker EXCEPT ![w] = x], lock' \in Workers \cup {NoWorker},
           \A v \in Workers : lock' = v => lock = v \/ (v = w /\ x.at = "locked"),
           page' = page, wrote' = wrote,
           \/ jobs' = jobs
           \/ \E k \in Ids : \E s \in Terminal : jobs' = [jobs EXCEPT ![k].status = s]
    PROVE  JobInv'
  <1>0. /\ JobTypeOK /\ \A j \in Ids : jobs[j] \in Job
    BY JobsTyped DEF JobInv
  <1>1. worker' \in [Workers -> Doing] /\ worker'[w] = x /\ \A v \in Workers : v # w => worker'[v] = worker[v]
    BY <1>0 DEF JobTypeOK
  <1>2. /\ jobs' \in Seq(Job) /\ Ids' = Ids
        /\ \A j \in Ids : /\ jobs'[j].dry = jobs[j].dry /\ jobs'[j].usable = jobs[j].usable
                          /\ jobs'[j].status = "Pending" => jobs[j].status = "Pending"
    <2>1. CASE jobs' = jobs
      BY <1>0, <2>1 DEF JobTypeOK, TypeOK, Ids
    <2>2. ASSUME NEW k \in Ids, NEW s \in Terminal, jobs' = [jobs EXCEPT ![k].status = s]
          PROVE  /\ jobs' \in Seq(Job) /\ Ids' = Ids
                 /\ \A j \in Ids : /\ jobs'[j].dry = jobs[j].dry /\ jobs'[j].usable = jobs[j].usable
                                   /\ jobs'[j].status = "Pending" => jobs[j].status = "Pending"
      <3>1. PICK y : y = [jobs[k] EXCEPT !.status = s]
        OBVIOUS
      <3>2. y \in Job /\ y.dry = jobs[k].dry /\ y.usable = jobs[k].usable /\ y.status # "Pending"
        BY <1>0, <3>1 DEF Job, Terminal
      <3>3. jobs' = [jobs EXCEPT ![k] = y]
        BY <2>2, <3>1
      <3>4. /\ jobs' \in Seq(Job) /\ Ids' = Ids /\ jobs'[k] = y
            /\ \A j \in Ids : j # k => jobs'[j] = jobs[j]
        BY <1>0, <3>2, <3>3, JobChanged
      <3>5. ASSUME NEW j \in Ids
            PROVE  /\ jobs'[j].dry = jobs[j].dry /\ jobs'[j].usable = jobs[j].usable
                   /\ jobs'[j].status = "Pending" => jobs[j].status = "Pending"
        BY <3>2, <3>4
      <3> QED
        BY <3>4, <3>5
    <2> QED
      BY <2>1, <2>2
  <1>3. JobTypeOK'
    BY <1>0, <1>1, <1>2 DEF JobTypeOK, TypeOK
  <1> QED
    BY <1>1, <1>2, <1>3, QuietStep DEF Ids

LEMMA TakeStep ==
    ASSUME JobInv, NEW w \in Workers, Take(w)
    PROVE  JobInv'
  <1>1. PICK j \in Candidates : worker' = [worker EXCEPT ![w] = [at |-> "locked", job |-> j]]
    BY DEF Take
  <1>2. PICK x : x = [at |-> "locked", job |-> j]
    OBVIOUS
  <1>3. j \in Ids /\ j \in Nat
    BY <1>1, JobsTyped DEF Candidates, JobInv
  <1>4. x \in Doing /\ x.at = "locked" /\ x.job = j
    BY <1>2, <1>3 DEF Doing
  <1>5. /\ worker' = [worker EXCEPT ![w] = x] /\ lock' = w
        /\ page' = page /\ wrote' = wrote /\ jobs' = jobs
    BY <1>1, <1>2 DEF Take
  <1> QED
    BY <1>3, <1>4, <1>5, LookStep

\* A worker that ends its work gives the lock back when it has it.
LEMMA EndStep ==
    ASSUME JobInv, NEW w \in Workers, worker' = [worker EXCEPT ![w] = Idle], Unlock(w),
           page' = page, wrote' = wrote,
           \/ jobs' = jobs
           \/ \E k \in Ids : \E s \in Terminal : jobs' = [jobs EXCEPT ![k].status = s]
    PROVE  JobInv'
  <1>1. Idle \in Doing /\ Idle.at = "idle"
    BY DEF Idle, Doing
  <1>2. lock' \in Workers \cup {NoWorker} /\ \A v \in Workers : lock' = v => lock = v
    BY SyncJobsAssumption DEF Unlock, JobInv, JobTypeOK, TypeOK
  <1> QED
    BY <1>1, <1>2, LookStep

LEMMA GiveUpStep ==
    ASSUME JobInv, NEW w \in Workers, GiveUp(w) \/ Crash(w)
    PROVE  JobInv'
  <1>1. CASE Crash(w)
    BY <1>1, EndStep DEF Crash
  <1>2. CASE GiveUp(w)
    <2>1. worker[w].job \in Ids
      BY <1>2 DEF GiveUp, JobInv, JobTypeOK
    <2>2. \E s \in Terminal : jobs' = [jobs EXCEPT ![worker[w].job].status = s]
      BY <1>2 DEF GiveUp, Terminal
    <2>3. worker' = [worker EXCEPT ![w] = Idle] /\ Unlock(w) /\ page' = page /\ wrote' = wrote
      BY <1>2 DEF GiveUp
    <2> QED
      BY <2>1, <2>2, <2>3, EndStep
  <1> QED
    BY <1>1, <1>2

LEMMA LoseLockStep ==
    ASSUME JobInv, NEW w \in Workers, LoseLock(w)
    PROVE  JobInv'
  <1>1. lock' = NoWorker /\ UNCHANGED <<jobs, worker, page, wrote>>
    BY DEF LoseLock
  <1>2. JobTypeOK'
    BY <1>1 DEF JobInv, JobTypeOK, TypeOK, Ids
  <1> QED
    BY <1>1, <1>2, QuietStep, SyncJobsAssumption

\* A worker begins a job it found Pending: nobody has come further with it.
LEMMA BeginStep ==
    ASSUME JobInv, NEW w \in Workers, worker[w].at = "locked",
           jobs[worker[w].job].status = "Pending",
           worker' = [worker EXCEPT ![w].at = "starting"],
           jobs' = jobs, lock' = lock, page' = page, wrote' = wrote
    PROVE  JobInv'
  <1>0. PICK k \in Ids : k = worker[w].job
    BY DEF JobInv, JobTypeOK
  <1>1. /\ worker' \in [Workers -> Doing] /\ worker'[w].at = "starting" /\ worker'[w].job = k
        /\ \A v \in Workers : v # w => worker'[v] = worker[v]
    BY <1>0 DEF JobInv, JobTypeOK, Doing
  <1>2. Ids' = Ids
    BY DEF Ids
  <1>3. JobTypeOK'
    BY <1>1, <1>2 DEF JobInv, JobTypeOK, TypeOK
  <1>4. \A v \in Workers : \A j \in Ids : /\ Past(v, j)' <=> Past(v, j)
                                          /\ Holds(v, j)' => Holds(v, j) \/ j = k
    BY <1>0, <1>1 DEF Past, Holds
  <1>5. \A j \in Ids : Reached(j)' => Reached(j)
    BY <1>4 DEF Reached
  <1>6. ReachedOnce'
    BY <1>0, <1>2, <1>4, <1>5 DEF JobInv, ReachedOnce
  <1>7. StartedIsNotPending' /\ Counted' /\ Previewed'
    BY <1>1, <1>2 DEF JobInv, StartedIsNotPending, Counted, Previewed
  <1>8. OneWriter'
    BY <1>1, <1>2, <1>4 DEF JobInv, OneWriter
  <1> QED
    BY <1>3, <1>6, <1>7, <1>8 DEF JobInv

LEMMA ExamineStep ==
    ASSUME JobInv, NEW w \in Workers, Examine(w)
    PROVE  JobInv'
  <1>1. PICK k \in Ids : k = worker[w].job
    BY DEF JobInv, JobTypeOK, Examine
  <1>2. page' = page /\ wrote' = wrote
    BY DEF Examine
  <1>3. CASE /\ worker' = [worker EXCEPT ![w] = Idle] /\ Unlock(w)
             /\ \/ jobs' = jobs
                \/ \E s \in Terminal : jobs' = [jobs EXCEPT ![k].status = s]
    BY <1>2, <1>3, EndStep
  <1>4. CASE /\ jobs[k].status = "Pending" /\ worker' = [worker EXCEPT ![w].at = "starting"]
             /\ UNCHANGED <<jobs, lock>>
    BY <1>1, <1>2, <1>4, BeginStep DEF Examine
  <1> QED
    BY <1>1, <1>3, <1>4 DEF Examine, Recovered, Terminal

\* The status becomes Running, also when the lock is gone and somebody else has
\* ended the job meanwhile.
LEMMA StartStep ==
    ASSUME JobInv, NEW w \in Workers, Start(w)
    PROVE  JobInv'
  <1>0. PICK k \in Ids : k = worker[w].job
    BY DEF JobInv, JobTypeOK, Start
  <1>1. JobTypeOK /\ jobs[k] \in Job
    BY JobsTyped DEF JobInv
  <1>2. PICK x : x = [jobs[k] EXCEPT !.status = "Running"]
    OBVIOUS
  <1>3. x \in Job /\ x.dry = jobs[k].dry /\ x.usable = jobs[k].usable /\ x.status # "Pending"
    BY <1>1, <1>2 DEF Job, Active
  <1>4. /\ worker[w].at = "starting" /\ jobs' = [jobs EXCEPT ![k] = x]
        /\ worker' = [worker EXCEPT ![w].at = "running"]
        /\ lock' = lock /\ page' = page /\ wrote' = wrote
    BY <1>0, <1>2 DEF Start
  <1>5. /\ jobs' \in Seq(Job) /\ Ids' = Ids /\ jobs'[k] = x
        /\ \A j \in Ids : j # k => jobs'[j] = jobs[j]
    BY <1>1, <1>3, <1>4, JobChanged
  <1>6. /\ worker' \in [Workers -> Doing] /\ worker'[w].at = "running" /\ worker'[w].job = k
        /\ \A v \in Workers : v # w => worker'[v] = worker[v]
    BY <1>0, <1>4 DEF JobInv, JobTypeOK, Doing
  <1>7. JobTypeOK'
    BY <1>1, <1>4, <1>5, <1>6 DEF JobTypeOK, TypeOK
  <1>8. \A j \in Ids : /\ jobs'[j].dry = jobs[j].dry /\ jobs'[j].usable = jobs[j].usable
                       /\ jobs'[j].status = "Pending" => jobs[j].status = "Pending"
    BY <1>3, <1>5
  <1>9. \A v \in Workers : \A j \in Ids : (Past(v, j)' <=> Past(v, j)) /\ (Holds(v, j)' <=> Holds(v, j))
    BY <1>0, <1>4, <1>6 DEF Past, Holds
  <1>10. \A j \in Ids : Reached(j)' => Reached(j)
    BY <1>4, <1>8, <1>9 DEF Reached
  <1>11. ReachedOnce'
    BY <1>5, <1>8, <1>9, <1>10 DEF JobInv, ReachedOnce
  <1>12. StartedIsNotPending'
    <2>1. \A v \in Workers : worker[v].at = "running" => worker[v].job \in Ids
      BY <1>1 DEF JobTypeOK
    <2> QED
      BY <1>3, <1>5, <1>6, <1>8, <2>1 DEF JobInv, StartedIsNotPending
  <1>13. OneWriter'
    <2>1. \A v \in Workers : worker'[v].at = "checked" => wrote'[worker'[v].job] = 0
      BY <1>4, <1>6 DEF JobInv, OneWriter
    <2> QED
      BY <1>5, <1>8, <1>9, <2>1 DEF JobInv, OneWriter
  <1>14. Counted'
    BY <1>4, <1>5, <1>8 DEF JobInv, Counted
  <1>15. Previewed'
    <2>1. \A j \in Ids : j > 1 => j - 1 \in Ids
      BY <1>1, JobsTyped
    <2> QED
      BY <1>5, <1>8, <2>1 DEF JobInv, Previewed
  <1> QED
    BY <1>7, <1>11, <1>12, <1>13, <1>14, <1>15 DEF JobInv

\* The last question: the worker still has the lock, so nobody has come so far
\* before it.
LEMMA ReadStep ==
    ASSUME JobInv, NEW w \in Workers, Read(w)
    PROVE  JobInv'
  <1>0. PICK k \in Ids : k = worker[w].job
    BY DEF JobInv, JobTypeOK, Read
  <1>1. /\ worker[w].at = "running" /\ lock = w /\ worker' = [worker EXCEPT ![w].at = "checked"]
        /\ jobs' = jobs /\ lock' = lock /\ page' = page /\ wrote' = wrote
    BY DEF Read, MayGoOn
  <1>2. /\ worker' \in [Workers -> Doing] /\ worker'[w].at = "checked" /\ worker'[w].job = k
        /\ \A v \in Workers : v # w => worker'[v] = worker[v]
    BY <1>0, <1>1 DEF JobInv, JobTypeOK, Doing
  <1>3. Ids' = Ids
    BY <1>1 DEF Ids
  <1>4. JobTypeOK'
    BY <1>1, <1>2, <1>3 DEF JobInv, JobTypeOK, TypeOK
  <1>5. Holds(w, k)
    BY <1>0, <1>1 DEF Holds
  <1>6. ~Reached(k)
    BY <1>5 DEF JobInv, ReachedOnce
  <1>7. ~jobs[k].usable /\ wrote[k] = 0 /\ \A v \in Workers : ~Past(v, k)
    <2>1. wrote[k] \in Nat
      BY JobsTyped DEF JobInv
    <2> QED
      BY <1>6, <2>1 DEF Reached
  <1>8. jobs[k].status # "Pending"
    BY <1>0, <1>1 DEF JobInv, StartedIsNotPending
  <1>9. \A v \in Workers : \A j \in Ids : Past(v, j)' => Past(v, j) \/ (v = w /\ j = k)
    BY <1>2 DEF Past
  <1>10. \A v \in Workers : \A j \in Ids : Holds(v, j)' => Holds(v, j) /\ v # w
    BY <1>1, <1>2 DEF Holds
  <1>11. \A v \in Workers : ~Holds(v, k)'
    BY <1>1, <1>10 DEF Holds
  <1>12. ReachedOnce'
    <2>1. ASSUME NEW j \in Ids, Reached(j)' PROVE j = k \/ Reached(j)
      BY <1>1, <1>9, <2>1 DEF Reached
    <2>2. ASSUME NEW j \in Ids, Reached(j)'
          PROVE  jobs'[j].status # "Pending" /\ \A v \in Workers : ~Holds(v, j)'
      BY <1>1, <1>8, <1>10, <1>11, <2>1, <2>2 DEF JobInv, ReachedOnce
    <2> QED
      BY <1>3, <2>2 DEF ReachedOnce
  <1>13. StartedIsNotPending'
    BY <1>1, <1>2 DEF JobInv, StartedIsNotPending
  <1>14. OneWriter'
    <2>1. \A j \in Ids : \A u, v \in Workers : Past(u, j)' /\ Past(v, j)' => u = v
      BY <1>7, <1>9 DEF JobInv, OneWriter
    <2>2. \A v \in Workers : worker'[v].at = "checked" => wrote'[worker'[v].job] = 0
      BY <1>1, <1>2, <1>7 DEF JobInv, OneWriter
    <2>3. \A j \in Ids : jobs'[j].usable => \A v \in Workers : ~Past(v, j)'
      BY <1>1, <1>7, <1>9 DEF JobInv, OneWriter
    <2> QED
      BY <1>3, <2>1, <2>2, <2>3 DEF OneWriter
  <1>15. Counted' /\ Previewed'
    BY <1>1, <1>3 DEF JobInv, Counted, Previewed
  <1> QED
    BY <1>4, <1>12, <1>13, <1>14, <1>15 DEF JobInv

LEMMA WriteStep ==
    ASSUME JobInv, NEW w \in Workers, Write(w)
    PROVE  JobInv'
  <1>0. PICK k \in Ids : k = worker[w].job
    BY DEF JobInv, JobTypeOK, Write
  <1>1. /\ worker[w].at = "checked" /\ worker' = [worker EXCEPT ![w].at = "written"]
        /\ jobs' = jobs /\ lock' = lock /\ page' = page
        /\ wrote' = [wrote EXCEPT ![k] = IF jobs[k].dry THEN @ ELSE @ + 1]
    BY <1>0 DEF Write
  <1>2. /\ worker' \in [Workers -> Doing] /\ worker'[w].at = "written" /\ worker'[w].job = k
        /\ \A v \in Workers : v # w => worker'[v] = worker[v]
    BY <1>0, <1>1 DEF JobInv, JobTypeOK, Doing
  <1>3. Ids' = Ids
    BY <1>1 DEF Ids
  <1>4. wrote[k] = 0 /\ wrote \in [Ids -> Nat]
    BY <1>0, <1>1 DEF JobInv, OneWriter, JobTypeOK, TypeOK
  <1>5. /\ wrote' \in [Ids -> Nat] /\ wrote'[k] = (IF jobs[k].dry THEN 0 ELSE 1)
        /\ \A j \in Ids : j # k => wrote'[j] = wrote[j]
    BY <1>1, <1>4
  <1>6. JobTypeOK'
    BY <1>1, <1>2, <1>3, <1>5 DEF JobInv, JobTypeOK, TypeOK
  <1>7. \A v \in Workers : \A j \in Ids : (Past(v, j)' <=> Past(v, j)) /\ (Holds(v, j)' <=> Holds(v, j))
    BY <1>0, <1>1, <1>2 DEF Past, Holds
  <1>8. Past(w, k)
    BY <1>0, <1>1 DEF Past
  <1>9. \A j \in Ids : Reached(j)' => Reached(j)
    <2>1. Reached(k)
      BY <1>8 DEF Reached
    <2>2. \A j \in Ids : j # k /\ Reached(j)' => Reached(j)
      BY <1>1, <1>5, <1>7 DEF Reached
    <2> QED
      BY <2>1, <2>2
  <1>10. ReachedOnce'
    BY <1>1, <1>3, <1>7, <1>9 DEF JobInv, ReachedOnce
  <1>11. StartedIsNotPending' /\ Previewed'
    BY <1>1, <1>2, <1>3 DEF JobInv, StartedIsNotPending, Previewed
  <1>12. OneWriter'
    <2>1. ASSUME NEW v \in Workers, worker'[v].at = "checked" PROVE wrote'[worker'[v].job] = 0
      <3>1. v # w /\ worker[v].at = "checked" /\ worker'[v].job = worker[v].job /\ worker[v].job \in Ids
        BY <1>2, <2>1 DEF JobInv, JobTypeOK
      <3>2. worker[v].job # k
        BY <1>8, <3>1 DEF JobInv, OneWriter, Past
      <3> QED
        BY <1>5, <3>1, <3>2 DEF JobInv, OneWriter
    <2>2. \A j \in Ids : \A u, v \in Workers : Past(u, j)' /\ Past(v, j)' => u = v
      BY <1>7 DEF JobInv, OneWriter
    <2>3. \A j \in Ids : jobs'[j].usable => \A v \in Workers : ~Past(v, j)'
      BY <1>1, <1>7 DEF JobInv, OneWriter
    <2> QED
      BY <1>3, <2>1, <2>2, <2>3 DEF OneWriter
  <1>13. Counted'
    BY <1>1, <1>3, <1>5 DEF JobInv, Counted
  <1> QED
    BY <1>6, <1>10, <1>11, <1>12, <1>13 DEF JobInv

\* The job is marked, and with it perhaps becomes a preview to import from: no
\* other worker is going to mark or write it.
LEMMA FinishStep ==
    ASSUME JobInv, NEW w \in Workers, Finish(w)
    PROVE  JobInv'
  <1>0. PICK k \in Ids : k = worker[w].job
    BY DEF JobInv, JobTypeOK, Finish
  <1>1. JobTypeOK /\ jobs[k] \in Job
    BY JobsTyped DEF JobInv
  <1>2. PICK usable \in {FALSE, jobs[k].dry} :
            jobs' = [jobs EXCEPT ![k].status = "Completed", ![k].usable = usable]
    BY <1>0 DEF Finish
  <1>3. PICK x : x = [jobs[k] EXCEPT !.status = "Completed", !.usable = usable]
    OBVIOUS
  <1>4. x \in Job /\ x.dry = jobs[k].dry /\ x.status # "Pending"
    BY <1>1, <1>2, <1>3 DEF Job, Terminal
  <1>5. /\ worker[w].at = "written" /\ jobs' = [jobs EXCEPT ![k] = x]
        /\ worker' = [worker EXCEPT ![w] = Idle] /\ page' = page /\ wrote' = wrote
        /\ lock' \in Workers \cup {NoWorker} /\ \A v \in Workers : lock' = v => lock = v
    BY <1>1, <1>2, <1>3, SyncJobsAssumption DEF Finish, Unlock, JobTypeOK, TypeOK
  <1>6. /\ jobs' \in Seq(Job) /\ Ids' = Ids /\ jobs'[k] = x
        /\ \A j \in Ids : j # k => jobs'[j] = jobs[j]
    BY <1>1, <1>4, <1>5, JobChanged
  <1>7. /\ worker' \in [Workers -> Doing] /\ worker'[w].at = "idle"
        /\ \A v \in Workers : v # w => worker'[v] = worker[v]
    BY <1>1, <1>5 DEF JobTypeOK, Doing, Idle
  <1>8. JobTypeOK'
    BY <1>1, <1>5, <1>6, <1>7 DEF JobTypeOK, TypeOK
  <1>9. \A v \in Workers : \A j \in Ids : /\ Past(v, j)' => Past(v, j) /\ v # w
                                          /\ Holds(v, j)' => Holds(v, j)
    BY <1>5, <1>7 DEF Past, Holds
  <1>10. Past(w, k) /\ Reached(k)
    BY <1>0, <1>5 DEF Past, Reached
  <1>11. \A j \in Ids : Reached(j)' => Reached(j)
    <2>1. \A j \in Ids : j # k /\ Reached(j)' => Reached(j)
      BY <1>5, <1>6, <1>9 DEF Reached
    <2> QED
      BY <1>10, <2>1
  <1>12. \A j \in Ids : jobs'[j].status = "Pending" => jobs[j].status = "Pending"
    BY <1>4, <1>6
  <1>13. ReachedOnce'
    BY <1>6, <1>9, <1>11, <1>12 DEF JobInv, ReachedOnce
  <1>14. StartedIsNotPending'
    <2>1. \A v \in Workers : worker[v].at = "running" => worker[v].job \in Ids
      BY <1>1 DEF JobTypeOK
    <2> QED
      BY <1>7, <1>12, <2>1 DEF JobInv, StartedIsNotPending
  <1>15. OneWriter'
    <2>1. \A j \in Ids : \A u, v \in Workers : Past(u, j)' /\ Past(v, j)' => u = v
      BY <1>9 DEF JobInv, OneWriter
    <2>2. \A v \in Workers : worker'[v].at = "checked" => wrote'[worker'[v].job] = 0
      BY <1>5, <1>7 DEF JobInv, OneWriter
    <2>3. \A v \in Workers : ~Past(v, k)'
      BY <1>9, <1>10 DEF JobInv, OneWriter
    <2>4. \A j \in Ids : jobs'[j].usable => \A v \in Workers : ~Past(v, j)'
      BY <1>6, <1>9, <2>3 DEF JobInv, OneWriter
    <2> QED
      BY <1>6, <2>1, <2>2, <2>4 DEF OneWriter
  <1>16. Counted'
    BY <1>4, <1>5, <1>6 DEF JobInv, Counted
  <1>17. Previewed'
    <2>1. ~jobs[k].usable
      BY <1>10 DEF JobInv, OneWriter
    <2>2. \A j \in Ids : j > 1 => j - 1 \in Ids
      BY <1>1, JobsTyped
    <2>3. ASSUME NEW j \in Ids, ~jobs'[j].dry PROVE j > 1 /\ jobs'[j - 1].dry /\ jobs'[j - 1].usable
      <3>1. j > 1 /\ jobs[j - 1].dry /\ jobs[j - 1].usable
        BY <1>4, <1>6, <2>3 DEF JobInv, Previewed
      <3>2. j - 1 \in Ids /\ j - 1 # k
        BY <2>1, <2>2, <3>1
      <3> QED
        BY <1>6, <3>1, <3>2
    <2> QED
      BY <1>6, <2>3 DEF Previewed
  <1> QED
    BY <1>8, <1>13, <1>14, <1>15, <1>16, <1>17 DEF JobInv

LEMMA JobNext == JobInv /\ [Next]_vars => JobInv'
  <1> SUFFICES ASSUME JobInv, [Next]_vars PROVE JobInv'
    OBVIOUS
  <1>1. CASE UNCHANGED vars
    <2>1. UNCHANGED <<jobs, lock, worker, page, wrote>>
      BY <1>1 DEF vars
    <2>2. JobTypeOK'
      BY <2>1 DEF JobInv, JobTypeOK, TypeOK, Ids
    <2> QED
      BY <2>1, <2>2, QuietStep
  <1>2. CASE \E dry \in BOOLEAN : Queue(dry)
    BY <1>2, QueueStep
  <1>3. CASE \E j \in Ids : OpenCancel(j)
    BY <1>3, OpenCancelStep
  <1>4. CASE SaveCancel \/ Expire
    BY <1>4, SaveCancelStep, ExpireStep
  <1>5. ASSUME NEW w \in Workers, Work(w) \/ Crash(w) \/ LoseLock(w) PROVE JobInv'
    BY <1>5, TakeStep, ExamineStep, StartStep, ReadStep, WriteStep, FinishStep, GiveUpStep, LoseLockStep DEF Work
  <1> QED
    BY <1>1, <1>2, <1>3, <1>4, <1>5 DEF Next

\* However many workers take, lose and recover the jobs and whoever cancels: an
\* import that reaches the CMDB is committed once, and the job before it is a
\* preview that no other import follows (_queue_sync, _run_integration_sync_job).
THEOREM ImportsFollowTheirPreview == Spec => []ImportedOncePerPreview
  <1>1. JobInv => ImportedOncePerPreview
    <2> SUFFICES ASSUME JobInv, NEW j \in Ids, wrote[j] > 0
                 PROVE  /\ wrote[j] = 1
                        /\ ~jobs[j].dry /\ j > 1 /\ jobs[j - 1].dry /\ jobs[j - 1].usable
      BY DEF ImportedOncePerPreview
    <2>1. wrote[j] \in Nat /\ wrote[j] <= 1 /\ ~jobs[j].dry
      BY JobsTyped DEF JobInv, Counted
    <2>2. j > 1 /\ jobs[j - 1].dry /\ jobs[j - 1].usable
      BY <2>1 DEF JobInv, Previewed
    <2>3. wrote[j] = 1
      BY <2>1
    <2> QED
      BY <2>1, <2>2, <2>3
  <1> QED
    BY <1>1, JobInit, JobNext, PTL DEF Spec

-----------------------------------------------------------------------------
(* Checkpoints                                                             *)

Publishers == [at : {"not started", "waiting", "publishing"}, holds : SUBSET Nat, latest : BOOLEAN]

\* The rows of a deployment on a Kubo node: the tables, committed or not, the
\* numbers given out, and what the connection still holds while the lock is free.
RowsOK ==
    /\ publisher \in Publishers
    /\ inserts \in Nat
    /\ uncommitted \subseteq tables /\ tables \subseteq 1 .. inserts
    /\ committed \subseteq 1 .. inserts /\ abandoned \subseteq 1 .. inserts
    /\ committed \cap uncommitted = {}
    /\ holder = "nobody" => uncommitted \subseteq abandoned
    /\ tables \ uncommitted \subseteq committed \cup abandoned

\* Rows that a checkpoint may hold: those of the connection are not among them.
Storable(rows) == rows \subseteq committed \cup abandoned /\ rows \cap uncommitted = {}

\* What is committed in one checkpoint is in another.
Carries(rows, more) == rows \cap committed \subseteq more

\* Everything between the pointer and the tables is in order: what is published
\* is in the checkpoint being published, that one in the pending one, that one in
\* the copy the backend has, and that one in the tables.
InOrder ==
    /\ Storable(published) /\ Storable(saved) /\ Carries(saved, tables \ uncommitted)
    /\ \A p \in pending : Storable(p) /\ Carries(published, p) /\ Carries(p, saved)
    /\ \A p, q \in pending : p = q
    /\ publisher.at = "publishing" =>
           /\ Storable(publisher.holds)
           /\ Carries(published, publisher.holds) /\ Carries(publisher.holds, saved)
           /\ \A p \in pending : Carries(publisher.holds, p)
    /\ process # "down" => Carries(published, saved)
    /\ process # "serving" => pending = {} /\ publisher.at # "publishing" /\ uncommitted = {}

KuboInv == provider = "kubo" => RowsOK /\ InOrder

LEMMA KuboInit == Storage!Init => KuboInv
  <1> SUFFICES ASSUME Storage!Init PROVE RowsOK /\ InOrder
    BY DEF KuboInv
  <1>1. RowsOK
    BY DEF Storage!Init, Storage!NotStarted, RowsOK, Publishers
  <1>2. InOrder
    BY DEF Storage!Init, Storage!NotStarted, InOrder, Storable, Carries
  <1> QED
    BY <1>1, <1>2

\* save_checkpoint of rows that hold what was committed of those saved before, and
\* none of those still on the connection.
LEMMA SaveStep ==
    ASSUME RowsOK, InOrder, provider = "kubo", NEW rows, NEW fault, Storage!SaveCheckpoint(rows, fault),
           rows \subseteq committed \cup abandoned, rows \cap uncommitted' = {},
           Carries(saved, rows), Carries(rows, tables' \ uncommitted'), process # "down",
           tables' \ uncommitted' = tables \ uncommitted, tables' \subseteq tables,
           uncommitted' \subseteq uncommitted, uncommitted' \subseteq tables',
           inserts' = inserts, committed' = committed, abandoned' = abandoned, holder' = holder,
           process' # "serving" => process = "starting" /\ fault = "add"
    PROVE  RowsOK' /\ InOrder' /\ Storage!Grows
  <1>1. saved' = rows /\ published' = published
    BY DEF Storage!SaveCheckpoint
  <1>2. \/ pending' = {rows} /\ fault = "none"
        \/ pending' = pending
    BY DEF Storage!SaveCheckpoint
  <1>3. /\ publisher' \in Publishers /\ publisher'.holds = publisher.holds
        /\ publisher'.at = "publishing" => publisher.at = "publishing"
    <2>1. CASE publisher' = publisher
      BY <2>1 DEF RowsOK
    <2>2. CASE publisher' = [publisher EXCEPT !.at = IF @ = "not started" THEN "waiting" ELSE @, !.latest = FALSE]
      BY <2>2 DEF RowsOK, Publishers
    <2> QED
      BY <2>1, <2>2 DEF Storage!SaveCheckpoint
  <1>4. RowsOK'
    BY <1>3 DEF RowsOK
  <1>5. Carries(published, rows) /\ Carries(published, saved)
    BY DEF InOrder, Carries
  <1>6. \A r : Storable(r) => Storable(r)'
    BY DEF Storable
  <1>7. \A p \in pending' : Storable(p)' /\ Carries(published, p) /\ Carries(p, rows)
    BY <1>2, <1>5, <1>6 DEF InOrder, Carries, Storable
  <1>8. PICK h : h = publisher.holds
    OBVIOUS
  <1>9. publisher'.at = "publishing" =>
            /\ Storable(h)' /\ Carries(published, h) /\ Carries(h, rows)
            /\ \A p \in pending' : Carries(h, p)
    <2>1. publisher'.at = "publishing" =>
            /\ Storable(h) /\ Carries(published, h) /\ Carries(h, saved)
            /\ \A p \in pending : Carries(h, p)
      BY <1>3, <1>8 DEF InOrder
    <2>2. Carries(h, saved) => Carries(h, rows)
      BY DEF Carries
    <2> QED
      BY <1>2, <1>6, <2>1, <2>2
  <1>10. process' # "serving" => pending' = {} /\ publisher'.at # "publishing" /\ uncommitted' = {}
    BY <1>2, <1>3 DEF InOrder
  <1>11. Storable(published)' /\ Storable(rows)'
    BY <1>1 DEF InOrder, Storable
  <1>12. \A p, q \in pending' : p = q
    BY <1>2 DEF InOrder
  <1>13. \A r, t : Carries(r, t)' <=> Carries(r, t)
    BY DEF Carries
  <1>14. Carries(rows, tables \ uncommitted)'
    BY DEF Carries
  <1>15. /\ Storable(saved)' /\ Carries(saved, tables \ uncommitted)' /\ Carries(published, saved)'
         /\ \A p \in pending' : Storable(p)' /\ Carries(published, p)' /\ Carries(p, saved)'
         /\ publisher'.at = "publishing" =>
                /\ Storable(publisher.holds)'
                /\ Carries(published, publisher.holds)' /\ Carries(publisher.holds, saved)'
                /\ \A p \in pending' : Carries(publisher.holds, p)'
    BY <1>1, <1>3, <1>5, <1>7, <1>8, <1>9, <1>11, <1>13, <1>14 DEF Carries, Storable
  <1>16. InOrder'
    BY <1>10, <1>11, <1>12, <1>15 DEF InOrder
  <1> QED
    BY <1>1, <1>4, <1>16 DEF InOrder, Storable, Storage!Grows

LEMMA CheckpointStep ==
    ASSUME RowsOK, InOrder, provider = "kubo", NEW fault, Storage!CheckpointLoop(fault) \/ Storage!FirstCheckpoint(fault)
    PROVE  RowsOK' /\ InOrder' /\ Storage!Grows
  <1>1. /\ Storage!SaveCheckpoint(tables, fault) /\ holder = "nobody" /\ process # "down"
        /\ tables' = tables \ uncommitted /\ uncommitted' = {}
        /\ inserts' = inserts /\ committed' = committed /\ abandoned' = abandoned /\ holder' = holder
    BY DEF Storage!CheckpointLoop, Storage!FirstCheckpoint, Storage!Checkpoint, Storage!LockFree,
           Storage!ReturnConnection, Storage!lock
  <1>2. tables \subseteq committed \cup abandoned /\ Carries(saved, tables) /\ Carries(tables, tables' \ uncommitted')
    BY <1>1 DEF RowsOK, InOrder, Carries
  <1>3. process' # "serving" => process = "starting" /\ fault = "add"
    BY DEF Storage!CheckpointLoop, Storage!FirstCheckpoint
  <1>4. /\ tables \cap uncommitted' = {} /\ tables' \ uncommitted' = tables \ uncommitted /\ tables' \subseteq tables
        /\ uncommitted' \subseteq uncommitted /\ uncommitted' \subseteq tables'
    BY <1>1
  <1> QED
    BY <1>1, <1>2, <1>3, <1>4, SaveStep

LEMMA SaveFileStep ==
    ASSUME RowsOK, InOrder, provider = "kubo", NEW fault, Storage!SaveFile(fault)
    PROVE  RowsOK' /\ InOrder' /\ Storage!Grows
  <1>1. /\ Storage!SaveCheckpoint(saved, fault) /\ process = "serving" /\ process' = process
        /\ tables' = tables /\ uncommitted' = uncommitted /\ inserts' = inserts /\ committed' = committed
        /\ abandoned' = abandoned /\ holder' = holder
    BY DEF Storage!SaveFile, Storage!lock
  <1>2. /\ saved \subseteq committed \cup abandoned /\ saved \cap uncommitted = {}
        /\ Carries(saved, saved) /\ Carries(saved, tables \ uncommitted) /\ uncommitted \subseteq tables
    BY DEF InOrder, RowsOK, Storable, Carries
  <1> QED
    BY <1>1, <1>2, SaveStep

LEMMA PublishStep ==
    ASSUME RowsOK, InOrder, provider = "kubo", Storage!Publishing
    PROVE  RowsOK' /\ InOrder' /\ Storage!Grows
  <1>1. CASE Storage!PublishLoopReads
    <2>1. PICK p \in pending : publisher' = [at |-> "publishing", holds |-> p, latest |-> TRUE]
      BY <1>1 DEF Storage!PublishLoopReads
    <2>2. /\ process' = process /\ tables' = tables /\ uncommitted' = uncommitted /\ saved' = saved
          /\ pending' = pending /\ published' = published /\ inserts' = inserts /\ committed' = committed
          /\ abandoned' = abandoned /\ holder' = holder
      BY <1>1 DEF Storage!PublishLoopReads, Storage!lock
    <2>3. publisher' \in Publishers /\ publisher'.at = "publishing" /\ publisher'.holds = p
      <3>1. p \subseteq committed \cup abandoned
        BY <2>1 DEF InOrder, Storable
      <3>2. p \subseteq Nat
        BY <3>1 DEF RowsOK
      <3> QED
        BY <2>1, <3>2 DEF Publishers
    <2>4. RowsOK'
      BY <2>2, <2>3 DEF RowsOK
    <2>5. \A q \in pending : Carries(p, q)
      BY DEF InOrder, Carries
    <2>6. InOrder'
      BY <2>2, <2>3, <2>5 DEF InOrder, Storable, Carries
    <2> QED
      BY <2>2, <2>4, <2>6 DEF InOrder, Storable, Storage!Grows
  <1>2. ASSUME NEW fault, Storage!PublishLoopEnds(fault) PROVE RowsOK' /\ InOrder' /\ Storage!Grows
    <2>1. /\ process' = process /\ tables' = tables /\ uncommitted' = uncommitted /\ saved' = saved
          /\ inserts' = inserts /\ committed' = committed /\ publisher.at = "publishing"
          /\ published' \in {published, publisher.holds} /\ pending' \subseteq pending
          /\ publisher' = [publisher EXCEPT !.at = "waiting"]
          /\ abandoned' = abandoned /\ holder' = holder
      BY <1>2 DEF Storage!PublishLoopEnds, Storage!AfterPublishing, Storage!lock
    <2>2. publisher' \in Publishers /\ publisher'.at = "waiting"
      BY <2>1 DEF RowsOK, Publishers
    <2>3. RowsOK'
      BY <2>1, <2>2 DEF RowsOK
    <2>4. /\ published \cap committed \subseteq published' /\ Storable(published') /\ Carries(published', saved)
          /\ process # "down"
      BY <2>1 DEF RowsOK, InOrder, Carries
    <2>5. \A p \in pending' : Storable(p) /\ Carries(published', p) /\ Carries(p, saved)
      BY <2>1 DEF InOrder
    <2>6. \A p, q \in pending' : p = q
      BY <2>1 DEF InOrder
    <2>7. process' # "serving" => pending' = {} /\ uncommitted' = {}
      BY <2>1 DEF InOrder
    <2>8. Storable(saved) /\ Carries(saved, tables \ uncommitted)
      BY DEF InOrder
    <2>9. InOrder'
      BY <2>1, <2>2, <2>4, <2>5, <2>6, <2>7, <2>8 DEF InOrder, Storable, Carries
    <2> QED
      BY <2>1, <2>3, <2>4, <2>9 DEF Storable, Storage!Grows
  <1> QED
    BY <1>1, <1>2 DEF Storage!Publishing

\* Whoever returns the connection drops what is uncommitted on it; a commit makes
\* it permanent, and no checkpoint has seen it before.
LEMMA ConnectionStep ==
    ASSUME RowsOK, InOrder, provider = "kubo",
           \/ tables' = tables \ uncommitted /\ uncommitted' = {} /\ committed' = committed /\ abandoned' = abandoned
           \/ tables' = tables /\ uncommitted' = {} /\ committed' = committed \cup uncommitted /\ abandoned' = abandoned
           \/ /\ tables' = tables /\ uncommitted' = uncommitted /\ committed' = committed
              /\ abandoned' = abandoned \cup uncommitted
           \/ /\ tables' = tables /\ uncommitted' = uncommitted /\ committed' = committed /\ abandoned' = abandoned
              /\ holder' = holder,
           process' = process, saved' = saved, pending' = pending, publisher' = publisher,
           published' = published, inserts' = inserts
    PROVE  RowsOK' /\ InOrder' /\ Storage!Grows
  <1>1. RowsOK'
    BY DEF RowsOK
  <1>2. \A r : Storable(r) => Storable(r)'
    BY DEF Storable
  <1>3. \A r, t : Storable(r) /\ Carries(r, t) => Carries(r, t)'
    BY DEF Storable, Carries
  <1>4. Storable(saved) /\ Carries(saved, tables \ uncommitted) => Carries(saved, tables \ uncommitted)'
    BY DEF Storable, Carries
  <1>5. PICK h, ps : h = publisher.holds /\ ps = pending
    OBVIOUS
  <1>6. /\ Storable(published)' /\ Storable(saved)' /\ Carries(saved, tables \ uncommitted)'
        /\ \A p \in ps : Storable(p)' /\ Carries(published, p)' /\ Carries(p, saved)'
        /\ process # "down" => Carries(published, saved)'
    <2>1. /\ Storable(published) /\ Storable(saved) /\ Carries(saved, tables \ uncommitted)
          /\ \A p \in ps : Storable(p) /\ Carries(published, p) /\ Carries(p, saved)
          /\ process # "down" => Carries(published, saved)
      BY <1>5 DEF InOrder
    <2>2. \A p : Storable(published) /\ Carries(published, p) => Carries(published, p)'
      BY DEF Storable, Carries
    <2>3. \A p : Storable(p) /\ Carries(p, saved) => Carries(p, saved)'
      BY DEF Storable, Carries
    <2>4. /\ Storable(published) => Storable(published)'
          /\ Storable(saved) => Storable(saved)'
          /\ Storable(published) /\ Carries(published, saved) => Carries(published, saved)'
      BY DEF Storable, Carries
    <2> QED
      BY <1>2, <1>4, <2>1, <2>2, <2>3, <2>4
  <1>7. publisher.at = "publishing" =>
          /\ Storable(h)' /\ Carries(published, h)' /\ Carries(h, saved)' /\ \A p \in ps : Carries(h, p)'
    <2>1. publisher.at = "publishing" =>
            /\ Storable(h) /\ Carries(published, h) /\ Carries(h, saved) /\ \A p \in ps : Carries(h, p)
      BY <1>5 DEF InOrder
    <2>2. Storable(published) /\ Carries(published, h) => Carries(published, h)'
      BY DEF Storable, Carries
    <2>3. Storable(h) /\ Carries(h, saved) => Carries(h, saved)'
      BY DEF Storable, Carries
    <2>4. Storable(published)
      BY DEF InOrder
    <2> QED
      BY <1>2, <1>3, <2>1, <2>2, <2>3, <2>4
  <1>8. \A p, q \in ps : p = q
    BY <1>5 DEF InOrder
  <1>9. process # "serving" => ps = {} /\ publisher.at # "publishing" /\ uncommitted' = {}
    BY <1>5 DEF InOrder
  <1>10. publisher'.holds = h /\ pending' = ps
    BY <1>5
  <1>11. InOrder'
    BY <1>6, <1>7, <1>8, <1>9, <1>10 DEF InOrder, Storable, Carries
  <1> QED
    BY <1>1, <1>6, <1>11 DEF Storable, Storage!Grows

LEMMA RequestStep ==
    ASSUME RowsOK, InOrder, provider = "kubo",
           \/ \E by \in {"request", "worker"} : Storage!Insert(by)
           \/ Storage!EndRequest \/ Storage!Recover \/ Storage!ReadOnly \/ Storage!Heartbeat
    PROVE  RowsOK' /\ InOrder' /\ Storage!Grows
  <1>1. ASSUME NEW by, by \in {"request", "worker"}, Storage!Insert(by) PROVE RowsOK' /\ InOrder' /\ Storage!Grows
    <2>1. /\ process' = process /\ saved' = saved /\ pending' = pending /\ publisher' = publisher
          /\ published' = published /\ inserts' = inserts + 1 /\ tables' = tables \cup {inserts + 1}
          /\ uncommitted' = uncommitted \cup {inserts + 1} /\ committed' = committed /\ abandoned' = abandoned
          /\ holder' # "nobody" /\ process = "serving"
      BY <1>1 DEF Storage!Insert, Storage!LockFree
    <2>2. /\ 1 .. inserts \subseteq 1 .. inserts + 1 /\ inserts + 1 \in 1 .. inserts + 1
          /\ inserts + 1 \notin 1 .. inserts /\ inserts + 1 \in Nat
      BY DEF RowsOK
    <2>3. inserts + 1 \notin tables /\ inserts + 1 \notin committed /\ inserts + 1 \notin abandoned
      BY <2>2 DEF RowsOK
    <2>4. RowsOK'
      BY <2>1, <2>2, <2>3 DEF RowsOK
    <2>5. (\A r : Storable(r) => Storable(r)') /\ (\A r, t : Carries(r, t) <=> Carries(r, t)')
      BY <2>1, <2>3 DEF Storable, Carries
    <2>6. Carries(saved, tables \ uncommitted)'
      BY <2>1, <2>3 DEF InOrder, Carries
    <2>7. InOrder'
      BY <2>1, <2>5, <2>6 DEF InOrder
    <2> QED
      BY <2>1, <2>4, <2>7 DEF InOrder, Storable, Storage!Grows
  <1>2. CASE Storage!EndRequest \/ Storage!Recover \/ Storage!ReadOnly \/ Storage!Heartbeat
    <2>1. /\ process' = process /\ saved' = saved /\ pending' = pending /\ publisher' = publisher
          /\ published' = published /\ inserts' = inserts
      BY <1>2 DEF Storage!EndRequest, Storage!Commit, Storage!Rollback, Storage!PassFails, Storage!Recover,
                  Storage!ReadOnly, Storage!Heartbeat, Storage!storage
    <2>2. \/ tables' = tables \ uncommitted /\ uncommitted' = {} /\ committed' = committed /\ abandoned' = abandoned
          \/ tables' = tables /\ uncommitted' = {} /\ committed' = committed \cup uncommitted /\ abandoned' = abandoned
          \/ /\ tables' = tables /\ uncommitted' = uncommitted /\ committed' = committed
             /\ abandoned' = abandoned \cup uncommitted
          \/ /\ tables' = tables /\ uncommitted' = uncommitted /\ committed' = committed /\ abandoned' = abandoned
             /\ holder' = holder
      BY <1>2 DEF Storage!EndRequest, Storage!Commit, Storage!Rollback, Storage!PassFails, Storage!Recover,
                  Storage!ReadOnly, Storage!Heartbeat, Storage!ReturnConnection, Storage!lock
    <2> QED
      BY <2>1, <2>2, ConnectionStep
  <1> QED
    BY <1>1, <1>2

\* A restart loses the memory, and what was being published may still arrive;
\* the next boot begins from what the pointer names.
LEMMA RestartStep ==
    ASSUME RowsOK, InOrder, provider = "kubo", Storage!Crash \/ Storage!Booting
    PROVE  RowsOK' /\ InOrder' /\ Storage!Grows
  <1>1. CASE Storage!Crash
    <2>1. /\ process' = "down" /\ tables' = {} /\ uncommitted' = {} /\ saved' = {} /\ pending' = {}
          /\ publisher' = Storage!NotStarted /\ inserts' = inserts /\ committed' = committed
          /\ abandoned' = abandoned
          /\ published' = published \/ (publisher.at = "publishing" /\ published' = publisher.holds)
      BY <1>1 DEF Storage!Crash
    <2>2. publisher' \in Publishers /\ publisher'.at = "not started"
      BY <2>1 DEF Storage!NotStarted, Publishers
    <2>3. RowsOK'
      BY <2>1, <2>2 DEF RowsOK
    <2>4. published \cap committed \subseteq published' /\ published' \subseteq committed \cup abandoned
      BY <2>1 DEF RowsOK, InOrder, Storable, Carries
    <2> QED
      BY <2>1, <2>2, <2>3, <2>4 DEF InOrder, Storable, Carries, Storage!Grows
  <1>2. ASSUME NEW fault, Storage!Boot(fault) PROVE RowsOK' /\ InOrder' /\ Storage!Grows
    <2>1. fault = "none"
      BY <1>2 DEF Storage!Boot, Storage!Calls, Storage!ResolveFaults
    <2>2. /\ process = "down" /\ process' = "starting" /\ tables' = published /\ saved' = published
          /\ uncommitted' = uncommitted /\ pending' = pending /\ publisher' = publisher
          /\ published' = published /\ inserts' = inserts /\ committed' = committed
          /\ abandoned' = abandoned /\ holder' = holder
      BY <1>2, <2>1 DEF Storage!Boot, Storage!NameResolve, Storage!lock
    <2>3. uncommitted = {} /\ pending = {} /\ publisher.at # "publishing"
      BY <2>2 DEF InOrder
    <2>4. RowsOK'
      BY <2>2, <2>3 DEF RowsOK, InOrder, Storable
    <2> QED
      BY <2>2, <2>3, <2>4 DEF InOrder, Storable, Carries, Storage!Grows
  <1> QED
    BY <1>1, <1>2 DEF Storage!Booting

LEMMA KuboNext ==
    ASSUME KuboInv, [Storage!Next]_(Storage!vars)
    PROVE  KuboInv' /\ (provider = "kubo" => Storage!Grows)
  <1>1. provider' = provider
    BY DEF Storage!Next, Storage!vars, Storage!Saving, Storage!CheckpointLoop, Storage!FirstCheckpoint,
           Storage!Checkpoint, Storage!Publishing, Storage!PublishLoopReads, Storage!PublishLoopEnds,
           Storage!Booting, Storage!Boot, Storage!Crash, Storage!Insert, Storage!EndRequest,
           Storage!Commit, Storage!Rollback, Storage!PassFails, Storage!Recover, Storage!ReadOnly,
           Storage!Heartbeat, Storage!SaveFile, Storage!storage
  <1>2. SUFFICES ASSUME provider = "kubo" PROVE RowsOK' /\ InOrder' /\ Storage!Grows
    BY <1>1 DEF KuboInv
  <1>3. RowsOK /\ InOrder
    BY <1>2 DEF KuboInv
  <1>4. CASE UNCHANGED Storage!vars
    <2>1. RowsOK'
      BY <1>3, <1>4 DEF RowsOK, Storage!vars, Storage!lock
    <2>2. InOrder'
      BY <1>3, <1>4 DEF InOrder, Storable, Carries, Storage!vars, Storage!lock
    <2> QED
      BY <1>3, <1>4, <2>1, <2>2 DEF InOrder, Storable, Storage!Grows, Storage!vars
  <1>5. CASE Storage!Saving \/ \E fault \in Storage!SaveFaults \cup {"none"} : Storage!SaveFile(fault)
    BY <1>2, <1>3, <1>5, CheckpointStep, SaveFileStep DEF Storage!Saving
  <1>6. CASE Storage!Publishing
    BY <1>2, <1>3, <1>6, PublishStep
  <1>7. CASE Storage!Booting \/ Storage!Crash
    BY <1>2, <1>3, <1>7, RestartStep
  <1>8. CASE \/ \E by \in {"request", "worker"} : Storage!Insert(by)
             \/ Storage!EndRequest \/ Storage!Recover \/ Storage!ReadOnly \/ Storage!Heartbeat
    BY <1>2, <1>3, <1>8, RequestStep
  <1> QED
    BY <1>4, <1>5, <1>6, <1>7, <1>8 DEF Storage!Next

\* On a Kubo node the pointer only ever moves to a checkpoint that holds every
\* committed row the last one did, and no row nobody committed but for those a
\* failed pass of the worker left behind: for any number of requests, passes,
\* failed calls, late publications and restarts (save_checkpoint, _publish_loop,
\* load_checkpoint, ipfs_background_worker).
THEOREM PointerMovesForward == Storage!Spec => PublishedGrows
  <1>1. KuboInv /\ [Storage!Next]_(Storage!vars) => KuboInv'
    BY KuboNext
  <1>2. KuboInv /\ [Storage!Next]_(Storage!vars) => [provider = "kubo" => Storage!Grows]_(Storage!vars)
    BY KuboNext
  <1> QED
    BY <1>1, <1>2, KuboInit, PTL DEF Storage!Spec, PublishedGrows, Storage!PublishedGrows
=============================================================================
