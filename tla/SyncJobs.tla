------------------------------ MODULE SyncJobs ------------------------------
(***************************************************************************)
(* The previewed, cancellable synchronizations of one inventory source     *)
(* (NetBox or Snipe-IT) of a tenant: an administrator queues a dry run,    *)
(* reviews it and queues the import; background workers take the jobs under *)
(* a session advisory lock, recover jobs whose worker disappeared and obey *)
(* a request to cancel between batches.                                    *)
(***************************************************************************)
EXTENDS Integers, Sequences, FiniteSets

CONSTANTS
    Workers,    \* background worker processes
    MaxJobs,    \* bound: jobs ever queued
    MaxFaults   \* bound: crashed workers and lost lock connections together

NoWorker == "nobody"

ASSUME SyncJobsAssumption ==
    IsFiniteSet(Workers) /\ NoWorker \notin Workers /\ MaxJobs \in Nat /\ MaxFaults \in Nat

VARIABLES
    jobs,       \* the rows of integration_sync_job, by id
    lock,       \* the worker whose connection holds the advisory lock
    worker,     \* what each worker is doing
    page,       \* the cancel page that has loaded its job and not yet saved
    faults,     \* crashes and lost connections so far
    wrote       \* history: how often the import of each job was committed

vars == <<jobs, lock, worker, page, faults, wrote>>

NoPage == [job |-> 0, status |-> "none"]
Active == {"Pending", "Running"}
Terminal == {"Completed", "Failed", "Cancelled"}
\* usable: a recent preview that saw records and hit no errors.
Job == [dry : BOOLEAN, status : Active \cup Terminal, cancel : BOOLEAN,
        usable : BOOLEAN]
Idle == [at |-> "idle", job |-> 0]

Init ==
    /\ jobs = <<>>
    /\ lock = NoWorker
    /\ worker = [w \in Workers |-> Idle]
    /\ page = NoPage
    /\ faults = 0
    /\ wrote = <<>>

Ids == DOMAIN jobs

-----------------------------------------------------------------------------
(* The pages of the administrator.                                         *)

\* _sync_preview_for_import: the most recent job must be a dry run that
\* completed recently, saw records and hit no errors.
\* The plausible mistake: any earlier preview will do.
PreviewForImportAny(j) == \E i \in 1..j : jobs[i].dry /\ jobs[i].status = "Completed" /\ jobs[i].usable
PreviewForImport(j) == j > 0 /\ jobs[j].dry /\ jobs[j].status = "Completed" /\ jobs[j].usable

\* _queue_sync, serialized by an advisory lock of the transaction.
Queue(dry) ==
    /\ Len(jobs) < MaxJobs
    /\ \A j \in Ids : jobs[j].status \notin Active
    /\ dry \/ PreviewForImport(Len(jobs))
    /\ jobs' = Append(jobs, [dry |-> dry, status |-> "Pending", cancel |-> FALSE,
                             usable |-> FALSE])
    /\ wrote' = Append(wrote, 0)
    /\ UNCHANGED <<lock, worker, page, faults>>

\* _cancel_sync_job loads the job ...
OpenCancel(j) ==
    /\ page = NoPage /\ jobs[j].status \in Active
    /\ page' = [job |-> j, status |-> jobs[j].status]
    /\ UNCHANGED <<jobs, lock, worker, faults, wrote>>

\* ... and saves what it decided from the status it loaded.
SaveCancel ==
    /\ page # NoPage
    /\ jobs' = [jobs EXCEPT ![page.job].cancel = TRUE,
                            ![page.job].status = IF page.status = "Pending" THEN "Cancelled" ELSE @]
    /\ page' = NoPage
    /\ UNCHANGED <<lock, worker, faults, wrote>>

\* A preview is only good for NETBOX_PREVIEW_VALID_HOURS.
Expire ==
    /\ PreviewForImport(Len(jobs))
    /\ jobs' = [jobs EXCEPT ![Len(jobs)].usable = FALSE]
    /\ UNCHANGED <<lock, worker, page, faults, wrote>>

-----------------------------------------------------------------------------
(* A worker: process_integration_sync_jobs and _run_integration_sync_job.  *)

\* The plausible mistake: only new jobs are looked at.
CandidatesNew == {j \in Ids : jobs[j].status = "Pending"}
Candidates == {j \in Ids : jobs[j].status \in Active}

\* A worker looks for jobs and takes the lock with pg_try_advisory_lock; the
\* jobs of another owner are passed over.
Take(w) ==
    /\ worker[w] = Idle /\ lock = NoWorker
    /\ \E j \in Candidates : worker' = [worker EXCEPT ![w] = [at |-> "locked", job |-> j]]
    /\ lock' = w
    /\ UNCHANGED <<jobs, page, faults, wrote>>

\* The lock is given back, unless the connection that held it is gone.
Unlock(w) == lock' = IF lock = w THEN NoWorker ELSE lock

\* What becomes of a job whose worker disappeared.
\* The plausible mistake: it is queued again.
RecoveredAgain(job) == IF job.cancel THEN "Cancelled" ELSE "Pending"
Recovered(job) == IF job.cancel THEN "Cancelled" ELSE "Failed"

\* The job is loaded again. One that is still Running has no owner: it is
\* ended, never replayed. A cancelled one is not started, nor is one whose
\* tenant was deactivated.
Examine(w) ==
    /\ worker[w].at = "locked"
    /\ LET j == worker[w].job IN
           \/ /\ jobs[j].status \notin Active
              /\ worker' = [worker EXCEPT ![w] = Idle] /\ Unlock(w)
              /\ UNCHANGED jobs
           \/ /\ jobs[j].status = "Running"
              /\ jobs' = [jobs EXCEPT ![j].status = Recovered(jobs[j])]
              /\ worker' = [worker EXCEPT ![w] = Idle] /\ Unlock(w)
           \/ /\ jobs[j].status = "Pending"   \* cancelled, or its tenant is not active
              /\ jobs' = [jobs EXCEPT ![j].status = "Cancelled"]
              /\ worker' = [worker EXCEPT ![w] = Idle] /\ Unlock(w)
           \/ /\ jobs[j].status = "Pending" /\ ~jobs[j].cancel
              /\ worker' = [worker EXCEPT ![w].at = "starting"]
              /\ UNCHANGED <<jobs, lock>>
    /\ UNCHANGED <<page, faults, wrote>>

Start(w) ==
    /\ worker[w].at = "starting"
    /\ jobs' = [jobs EXCEPT ![worker[w].job].status = "Running"]
    /\ worker' = [worker EXCEPT ![w].at = "running"]
    /\ UNCHANGED <<lock, page, faults, wrote>>

\* assert_owned and the question whether somebody asked to cancel, before
\* every batch and once more before the commit.
MayGoOn(w) == lock = w /\ ~jobs[worker[w].job].cancel

\* All batches are read and merged.
Read(w) ==
    /\ worker[w].at = "running" /\ MayGoOn(w)
    /\ worker' = [worker EXCEPT ![w].at = "checked"]
    /\ UNCHANGED <<jobs, lock, page, faults, wrote>>

\* One of these questions, or a request to the remote system, fails: the
\* exception handler marks a job somebody asked to cancel as Cancelled.
GiveUp(w) ==
    /\ worker[w].at = "running"
    /\ jobs' = [jobs EXCEPT ![worker[w].job].status =
                    IF jobs[worker[w].job].cancel THEN "Cancelled" ELSE "Failed"]
    /\ worker' = [worker EXCEPT ![w] = Idle] /\ Unlock(w)
    /\ UNCHANGED <<page, faults, wrote>>

\* sync_from_netbox, sync_from_snipeit: one commit for everything, or the
\* rollback of a dry run.
Write(w) ==
    /\ worker[w].at = "checked"
    /\ wrote' = [wrote EXCEPT ![worker[w].job] = IF jobs[worker[w].job].dry THEN @ ELSE @ + 1]
    /\ worker' = [worker EXCEPT ![w].at = "written"]
    /\ UNCHANGED <<jobs, lock, page, faults>>

\* The job is marked in a transaction of its own.
Finish(w) ==
    /\ worker[w].at = "written"
    /\ \E usable \in {FALSE, jobs[worker[w].job].dry} :
           jobs' = [jobs EXCEPT ![worker[w].job].status = "Completed", ![worker[w].job].usable = usable]
    /\ worker' = [worker EXCEPT ![w] = Idle] /\ Unlock(w)
    /\ UNCHANGED <<page, faults, wrote>>

\* The process dies, and its connections with it.
Crash(w) ==
    /\ faults < MaxFaults /\ worker[w] # Idle
    /\ faults' = faults + 1
    /\ worker' = [worker EXCEPT ![w] = Idle] /\ Unlock(w)
    /\ UNCHANGED <<jobs, page, wrote>>

\* The connection that holds the lock is lost, and the worker goes on.
LoseLock(w) ==
    /\ faults < MaxFaults /\ lock = w
    /\ faults' = faults + 1 /\ lock' = NoWorker
    /\ UNCHANGED <<jobs, worker, page, wrote>>

Work(w) ==
    \/ Take(w) \/ Examine(w) \/ Start(w)
    \/ Read(w) \/ Write(w) \/ Finish(w) \/ GiveUp(w)

Next ==
    \/ \E dry \in BOOLEAN : Queue(dry)
    \/ \E j \in Ids : OpenCancel(j)
    \/ SaveCancel \/ Expire
    \/ \E w \in Workers : Work(w) \/ Crash(w) \/ LoseLock(w)

Spec == Init /\ [][Next]_vars

\* The loop of tools/outbox_worker.py calls the worker again and again, and
\* an opened page is answered.
FairSpec == Spec /\ WF_vars(SaveCancel) /\ \A w \in Workers : WF_vars(Work(w))

-----------------------------------------------------------------------------
TypeOK ==
    /\ jobs \in Seq(Job)
    /\ lock \in Workers \cup {NoWorker}
    /\ wrote \in [Ids -> Nat]

(* Every import that reached the CMDB follows a preview of its own that    *)
(* completed before it was queued and that no other import used, whoever   *)
(* cancels, crashes or loses the lock: the code promises that an import    *)
(* consumes the preview. And it is carried out once: a job whose worker    *)
(* disappeared is ended, never replayed.                                   *)
ImportedOncePerPreview ==
    \A j \in Ids : wrote[j] > 0 =>
        /\ wrote[j] = 1
        /\ ~jobs[j].dry /\ j > 1 /\ jobs[j - 1].dry /\ jobs[j - 1].usable

(* Every queued synchronization comes to an end, also when workers crash   *)
(* or lose their lock in the middle of it.                                 *)
EveryJobEnds ==
    \A j \in 1..MaxJobs :
        (j \in Ids /\ jobs[j].status \in Active) ~> (j \in Ids /\ jobs[j].status \in Terminal)
=============================================================================
