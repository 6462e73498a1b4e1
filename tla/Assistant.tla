------------------------------ MODULE Assistant ------------------------------
(* The chat turns of the AI assistant: pages queue a run and stop it, the    *)
(* administrator changes the settings, and workers claim runs, plan which    *)
(* services may answer, call them and publish the answer (ai/service.py,     *)
(* ai/routing.py, ai/quota.py, ai/routes.py, tools/ai_worker.py).            *)
(*                                                                           *)
(* A service is private or external and may be edited from one to the other. *)
(* What is asked and answered is abstracted to whether it is sensitive; the  *)
(* order in which eligible services are tried (load, health, preference) is  *)
(* left open.  A step of a worker is one transaction or one network call.    *)
EXTENDS Integers, SequencesExt

CONSTANTS
    Users,
    Workers,
    Services,
    FirstExternal,   \* the services that are external at first
    Limit            \* calls a service's allowance admits in a window
CONSTANTS            \* bounds
    MaxRuns,         \* runs, in all
    MaxRevisions,    \* saved settings and services
    MaxFaults        \* deaths and suspensions of workers

ASSUME AssistantAssumption ==
    /\ IsFiniteSet(Workers) /\ Workers # {} /\ IsFiniteSet(Services) /\ FirstExternal \subseteq Services
    /\ Limit \in Nat /\ MaxRuns \in Nat /\ MaxRevisions \in Nat /\ MaxFaults \in Nat

VARIABLES
    config,     \* AIConfiguration: on, consent, revision
    external,   \* AIConnection: the services that are external now
    calls,      \* AICall: calls logged against each service
    runs,       \* AIRun, in the order of creation
    draft,      \* the revision a chat page of the user has loaded, 0 when none is open
    deleting,   \* the users whose conversation is being deleted
    worker,     \* what each worker is doing
    slow,       \* workers suspended long enough for a heartbeat to expire
    faults,
    claims,     \* history: how often each run was claimed
    disclosed,  \* history: sensitive runs sent outside, and whether still running then
    raced       \* history: runs sent while their conversation was being deleted

pages == <<draft, deleting>>
history == <<claims, disclosed, raced>>
vars == <<config, external, calls, runs, pages, worker, slow, faults, history>>

Active == {"queued", "running"}
Ended == {"completed", "failed", "cancelled"}
Ids == 1 .. Len(runs)

\* text: the question, the answer and its sources; proposal: whether route_json
\* holds a draft or an action made from them; kept: whether the conversation exists
Run == [status: Active \union Ended, user: Users, revision: Nat, sensitive: BOOLEAN,
        text: {"", "question", "answer"}, proposal: BOOLEAN, kept: BOOLEAN]

Steps == {"idle", "prepare", "decline", "planning call", "plan", "block", "dial",
          "call", "refused", "streaming", "finish", "stopped", "failed"}
\* holds: whether the messages hold sensitive text; reasons: whether the plan knows
Idle == [at |-> "idle", run |-> 0, holds |-> FALSE, reasons |-> FALSE, candidates |-> <<>>, retried |-> {}]

TypeOK ==
    /\ config \in [on: BOOLEAN, consent: BOOLEAN, revision: Nat]
    /\ external \subseteq Services
    /\ calls \in [Services -> Nat]
    /\ runs \in Seq(Run)
    /\ draft \in [Users -> Nat]
    /\ deleting \subseteq Users
    /\ worker \in [Workers -> [at: Steps, run: Nat, holds: BOOLEAN, reasons: BOOLEAN,
                               candidates: Seq(Services), retried: SUBSET Services]]
    /\ slow \subseteq Workers
    /\ faults \in Nat
    /\ claims \in [1 .. MaxRuns -> Nat]
    /\ disclosed \subseteq (1 .. MaxRuns) \X BOOLEAN
    /\ raced \subseteq 1 .. MaxRuns

Init ==
    /\ config = [on |-> TRUE, consent |-> TRUE, revision |-> 1]
    /\ external = FirstExternal
    /\ calls = [s \in Services |-> 0]
    /\ runs = <<>>
    /\ draft = [u \in Users |-> 0]
    /\ deleting = {}
    /\ worker = [w \in Workers |-> Idle]
    /\ slow = {}
    /\ faults = 0
    /\ claims = [r \in 1 .. MaxRuns |-> 0]
    /\ disclosed = {}
    /\ raced = {}

-----------------------------------------------------------------------------
(* The pages                                                               *)

\* chat_send begins: the settings are read without a lock, and the object read
\* is what the locked query later returns.
OpenChat(u) ==
    /\ config.on /\ draft[u] = 0 /\ Len(runs) < MaxRuns
    /\ draft' = [draft EXCEPT ![u] = config.revision]
    /\ UNCHANGED <<config, external, calls, runs, deleting, worker, slow, faults, history>>

\* chat_send ends, under the lock of the settings: refused at the daily limit
\* and while the user has an answer in progress.
Send(u, sensitive) ==
    LET refused == Len(runs) >= MaxRuns \/ \E r \in Ids : runs[r].user = u /\ runs[r].status \in Active
    IN /\ draft[u] # 0
       /\ draft' = [draft EXCEPT ![u] = 0]
       /\ IF refused THEN UNCHANGED <<runs, raced>>
          ELSE /\ runs' = Append(runs, [status |-> "queued", user |-> u, revision |-> draft[u],
                                        sensitive |-> sensitive, text |-> "question",
                                        proposal |-> FALSE, kept |-> TRUE])
               /\ raced' = IF u \in deleting THEN raced \union {Len(runs')} ELSE raced
       /\ UNCHANGED <<config, external, calls, deleting, worker, slow, faults, claims, disclosed>>

\* cancel: the run stops and its question goes.
Cancel(r) ==
    /\ config.on /\ runs[r].status \in Active
    /\ runs' = [runs EXCEPT ![r].status = "cancelled", ![r].text = ""]
    /\ UNCHANGED <<config, external, calls, pages, worker, slow, faults, history>>

BeginDeleteActive(u) ==
    /\ u \notin deleting /\ \E r \in Ids : runs[r].user = u /\ runs[r].kept
    /\ deleting' = deleting \union {u}
    /\ runs' = [r \in Ids |-> IF runs[r].user = u /\ runs[r].kept /\ runs[r].status \in Active
                              THEN [runs[r] EXCEPT !.status = "cancelled", !.text = ""] ELSE runs[r]]
    /\ UNCHANGED <<config, external, calls, draft, worker, slow, faults, history>>
\* delete_conversation, first statement: every run of the conversation is
\* cancelled and loses its text; what route_json holds of it stays.
BeginDelete(u) ==
    /\ u \notin deleting /\ \E r \in Ids : runs[r].user = u /\ runs[r].kept
    /\ deleting' = deleting \union {u}
    /\ runs' = [r \in Ids |-> IF runs[r].user = u /\ runs[r].kept
                              THEN [runs[r] EXCEPT !.status = "cancelled", !.text = ""] ELSE runs[r]]
    /\ UNCHANGED <<config, external, calls, draft, worker, slow, faults, history>>

\* The rest: the messages and the conversation go.  It waits for a chat_send
\* that holds the conversation, and takes the messages that one added along.
EndDelete(u) ==
    /\ u \in deleting
    /\ deleting' = deleting \ {u}
    /\ runs' = [r \in Ids |-> IF runs[r].user = u THEN [runs[r] EXCEPT !.kept = FALSE] ELSE runs[r]]
    /\ UNCHANGED <<config, external, calls, draft, worker, slow, faults, history>>

-----------------------------------------------------------------------------
(* The administrator                                                       *)

\* cancel_active: stopped with the text they hold.
CancelActive ==
    runs' = [r \in Ids |-> IF runs[r].status \in Active
                           THEN [runs[r] EXCEPT !.status = "cancelled"] ELSE runs[r]]

\* The settings page saves or disables, holding the lock of the settings.
SaveSettings(on, consent) ==
    /\ config.revision < MaxRevisions
    /\ config' = [on |-> on, consent |-> consent, revision |-> config.revision + 1]
    /\ CancelActive
    /\ UNCHANGED <<external, calls, pages, worker, slow, faults, history>>

\* save_service: a service gets another destination.
EditService(s) ==
    /\ config.revision < MaxRevisions
    /\ config' = [config EXCEPT !.revision = @ + 1]
    /\ external' = IF s \in external THEN external \ {s} ELSE external \union {s}
    /\ CancelActive
    /\ UNCHANGED <<calls, pages, worker, slow, faults, history>>

-----------------------------------------------------------------------------
(* process_one                                                             *)

Awake(w, step) == worker[w].at = step /\ w \notin slow
Go(w, step) == worker' = [worker EXCEPT ![w].at = step]
Leave(w) == worker' = [worker EXCEPT ![w] = Idle]
\* The loop over the candidates is over.
Close(w, step) == worker' = [worker EXCEPT ![w] = [Idle EXCEPT !.at = step, !.run = worker[w].run]]

\* Nobody has written a heartbeat for longer than a call may last.
SilentHeld(r) == runs[r].status = "running" /\ \E w \in slow : worker[w].run = r
Silent(r) == runs[r].status = "running" /\ \A w \in Workers : worker[w].run = r => w \in slow

Requeued(run) == [run EXCEPT !.status = "queued"]
Interrupted(run) == [run EXCEPT !.status = "failed"]

Expire(w) ==
    /\ Awake(w, "idle")
    /\ \E r \in Ids : Silent(r)
    /\ runs' = [r \in Ids |-> IF Silent(r) THEN Interrupted(runs[r]) ELSE runs[r]]
    /\ UNCHANGED <<config, external, calls, pages, worker, slow, faults, history>>

\* The oldest queued run, claimed by a conditional UPDATE.
Claim(w) ==
    /\ Awake(w, "idle")
    /\ \E r \in Ids :
         /\ runs[r].status = "queued" /\ \A q \in 1 .. r - 1 : runs[q].status # "queued"
         /\ runs' = [runs EXCEPT ![r].status = "running"]
         /\ worker' = [worker EXCEPT ![w].at = "prepare", ![w].run = r]
         /\ claims' = [claims EXCEPT ![r] = @ + 1]
    /\ UNCHANGED <<config, external, calls, pages, slow, faults, disclosed, raced>>

\* routing.plan: services the privacy rule admits, whose allowance has room
\* (quota.headroom), in an order, and without the ones, that load and health
\* decide.
Eligible(sensitive) == {s \in Services : s \notin external \/ (config.consent /\ ~sensitive)}
HasRoomUnmetered(s) == TRUE
HasRoom(s) == calls[s] < Limit
Plans(sensitive) ==
    SetToAllKPermutations({s \in Eligible(sensitive) : HasRoom(s)})

\* The run and the settings are read again; a question may be declined or
\* answered from memory, or the model be asked first which tools would help.
Prepare(w) ==
    LET r == worker[w].run
        valid == runs[r].status = "running" /\ config.on /\ config.revision = runs[r].revision
    IN /\ Awake(w, "prepare")
       /\ \/ ~valid /\ Go(w, "stopped")
          \/ valid /\ Go(w, "decline")
          \/ /\ valid
             /\ \E tools \in BOOLEAN, p \in Plans(runs[r].sensitive) :
                  worker' = [worker EXCEPT ![w].holds = runs[r].sensitive, ![w].reasons = runs[r].sensitive,
                                           ![w].at = IF tools /\ p # <<>> THEN "planning call" ELSE "plan",
                                           ![w].candidates = IF tools /\ p # <<>> THEN <<p[1]>> ELSE <<>>]
       /\ UNCHANGED <<config, external, calls, runs, pages, slow, faults, history>>

\* _decline and _block: a fixed sentence, written if the run still runs.  A
\* conversation deleted meanwhile makes the write fail, and nobody catches it.
Publish(r) ==
    IF runs[r].status = "running" /\ runs[r].kept
    THEN runs' = [runs EXCEPT ![r].status = "completed", ![r].text = "answer"]
    ELSE UNCHANGED runs
Reply(w) ==
    /\ Awake(w, "decline") \/ Awake(w, "block")
    /\ Publish(worker[w].run)
    /\ Leave(w)
    /\ UNCHANGED <<config, external, calls, pages, slow, faults, history>>

\* What leaves the organization: a snapshot of the service and the settings is
\* taken when the call starts, and an external one is refused without consent.
Refused(s) == s \in external /\ ~config.consent
Disclose(w, s) ==
    LET r == worker[w].run
    IN disclosed' = IF s \in external /\ config.consent /\ worker[w].holds
                    THEN disclosed \union {<<r, runs[r].status = "running">>} ELSE disclosed

QuestionReasons(before, results) == before
Reasons(before, results) == before \/ results

\* _use_connected_tools: a call that plans, then the tools.  Their results may
\* be sensitive; any failure leaves the answer to continue without them.
PlanTools(w) ==
    LET s == worker[w].candidates[1]
    IN /\ Awake(w, "planning call")
       /\ calls' = [calls EXCEPT ![s] = @ + 1]
       /\ Disclose(w, s)
       /\ \E results \in BOOLEAN :
            /\ results => ~Refused(s)
            /\ worker' = [worker EXCEPT ![w].at = "plan", ![w].candidates = <<>>,
                                        ![w].holds = @ \/ results,
                                        ![w].reasons = Reasons(@, results)]
       /\ UNCHANGED <<config, external, runs, pages, slow, faults, claims, raced>>

Plan(w) ==
    /\ Awake(w, "plan")
    /\ \E p \in Plans(worker[w].reasons) :
         worker' = [worker EXCEPT ![w].at = IF p = <<>> THEN "block" ELSE "dial",
                                  ![w].candidates = SubSeq(p, 1, IF Len(p) < 3 THEN Len(p) ELSE 3)]
    /\ UNCHANGED <<config, external, calls, runs, pages, slow, faults, history>>

\* open_call and _stream up to the request: whether the run still runs is not
\* looked at.
Dial(w) ==
    LET s == worker[w].candidates[1]
    IN /\ Awake(w, "dial")
       /\ calls' = [calls EXCEPT ![s] = @ + 1]
       /\ Disclose(w, s)
       /\ Go(w, IF Refused(s) THEN "refused" ELSE "call")
       /\ UNCHANGED <<config, external, runs, pages, slow, faults, claims, raced>>

\* flush: progress is published if the run still runs under its settings.
Continues(r) == runs[r].status = "running" /\ config.on /\ config.revision = runs[r].revision
Flush(w) ==
    /\ Awake(w, "call") \/ Awake(w, "streaming")
    /\ Close(w, IF Continues(worker[w].run) THEN "streaming" ELSE "stopped")
    /\ UNCHANGED <<config, external, calls, runs, pages, slow, faults, history>>

\* The call fails before its first words: a busy service is tried once more,
\* then the next candidate is.
CallFails(w, busy) ==
    LET me == worker[w]
        s == me.candidates[1]
    IN /\ Awake(w, "call") \/ (Awake(w, "refused") /\ ~busy)
       /\ worker' = [worker EXCEPT ![w] =
            IF busy /\ s \notin me.retried THEN [me EXCEPT !.at = "dial", !.retried = @ \union {s}]
            ELSE IF Len(me.candidates) = 1 THEN [Idle EXCEPT !.at = "failed", !.run = me.run]
            ELSE [me EXCEPT !.at = "dial", !.candidates = Tail(@)]]
       /\ UNCHANGED <<config, external, calls, runs, pages, slow, faults, history>>

\* After its first words an answer ends or breaks off.
StreamEnds(w, whole) ==
    /\ Awake(w, "streaming")
    /\ Go(w, IF whole THEN "finish" ELSE "failed")
    /\ UNCHANGED <<config, external, calls, runs, pages, slow, faults, history>>

\* _finish: under the locks of the settings and of the run everything is
\* checked again; access to a source may have been lost.  The answer may come
\* with a draft of a ticket or an action to review.
FinishUnchecked(r) == runs[r].kept
MayFinish(r) == runs[r].kept /\ Continues(r)
Finish(w) ==
    LET r == worker[w].run
    IN /\ Awake(w, "finish")
       /\ \/ /\ MayFinish(r)
             /\ \E p \in BOOLEAN :
                  runs' = [runs EXCEPT ![r].status = "completed", ![r].text = "answer", ![r].proposal = p]
             /\ Leave(w)
          \/ Go(w, "stopped") /\ UNCHANGED runs
          \/ Continues(r) /\ ~runs[r].kept /\ Leave(w) /\ UNCHANGED runs
       /\ UNCHANGED <<config, external, calls, pages, slow, faults, history>>

\* The handler of process_one.
Settle(w) ==
    LET r == worker[w].run
    IN /\ Awake(w, "stopped") \/ Awake(w, "failed")
       /\ runs' = IF runs[r].status # "running" THEN runs
                  ELSE [runs EXCEPT ![r].text = "",
                          ![r].status = IF worker[w].at = "failed" THEN "failed" ELSE "cancelled"]
       /\ Leave(w)
       /\ UNCHANGED <<config, external, calls, pages, slow, faults, history>>

-----------------------------------------------------------------------------
(* Failures of the worker process                                          *)

Crash(w) ==
    /\ worker[w].at # "idle" /\ faults < MaxFaults
    /\ faults' = faults + 1
    /\ Leave(w)
    /\ slow' = slow \ {w}
    /\ UNCHANGED <<config, external, calls, runs, pages, history>>

Suspend(w) ==
    /\ worker[w].at # "idle" /\ w \notin slow /\ faults < MaxFaults
    /\ faults' = faults + 1
    /\ slow' = slow \union {w}
    /\ UNCHANGED <<config, external, calls, runs, pages, worker, history>>

Resume(w) ==
    /\ w \in slow
    /\ slow' = slow \ {w}
    /\ UNCHANGED <<config, external, calls, runs, pages, worker, faults, history>>

-----------------------------------------------------------------------------
Work(w) ==
    \/ Expire(w) \/ Claim(w) \/ Prepare(w) \/ Reply(w) \/ PlanTools(w) \/ Plan(w) \/ Dial(w)
    \/ Flush(w) \/ Finish(w) \/ Settle(w)
    \/ \E b \in BOOLEAN : CallFails(w, b) \/ StreamEnds(w, b)

Pages ==
    \/ \E u \in Users : OpenChat(u) \/ BeginDelete(u) \/ EndDelete(u)
    \/ \E u \in Users, sensitive \in BOOLEAN : Send(u, sensitive)
    \/ \E r \in Ids : Cancel(r)
    \/ \E on, consent \in BOOLEAN : SaveSettings(on, consent)
    \/ \E s \in Services : EditService(s)

Next ==
    \/ Pages
    \/ \E w \in Workers : Work(w) \/ Crash(w) \/ Suspend(w) \/ Resume(w)

\* The worker's loop polls for ever, its calls end by their timeouts, and a
\* suspended process is resumed.  Nobody has to use a page.
Fairness == \A w \in Workers : WF_vars(Work(w)) /\ WF_vars(Resume(w))

Spec == Init /\ [][Next]_vars
FairSpec == Spec /\ Fairness

-----------------------------------------------------------------------------
(* Properties                                                              *)

\* Claim once (process_one): however workers die, are suspended or find a run
\* interrupted, no second worker starts on a run, so that no provider is called
\* again for it after an uncertain failure.
ClaimedOnce == \A r \in 1 .. MaxRuns : claims[r] <= 1

\* Sensitive text of a run that still runs never reaches an external service,
\* neither by a fallback or a retry nor after a tool has added sensitive
\* results to a question that was not (routing.plan, _use_connected_tools).
PrivateWhileRunning == \A r \in 1 .. MaxRuns : <<r, TRUE>> \notin disclosed

\* What a user stopped, the settings cancelled or a worker lost stays so: no
\* worker that comes late publishes an answer for it (_finish, _decline,
\* _block and the handler of process_one).
StoppedStaysStopped ==
    [][\A r \in Ids : runs[r].status \in {"failed", "cancelled"}
                       => runs'[r].status \in {"failed", "cancelled"}]_vars

\* The pages that open a draft or review an action ask for a completed run.
Opens(r) == runs[r].status = "completed" /\ runs[r].proposal

\* Once a conversation is deleted no run holds a question, an answer or sources
\* of it, and the draft or action that a run still holds cannot be opened,
\* whatever workers were doing with its runs, unless a question was sent during
\* the deletion (delete_conversation).
DeletedIsWithdrawn == \A r \in Ids \ raced : ~runs[r].kept => runs[r].text = "" /\ ~Opens(r)

\* The allowance of a service is exceeded at most by what workers that looked
\* at the same time then call, each with one retry (quota.headroom is not
\* asked again for a retry or a fallback).
AllowanceBounded == \A s \in Services : calls[s] < Limit + 2 * Cardinality(Workers)

\* Every turn ends, although workers die in the middle of it: the heartbeat of
\* a run nobody works on expires and the next poll ends it.
EveryTurnEnds ==
    \A r \in 1 .. MaxRuns :
        (r \in Ids /\ runs[r].status = "queued") ~> (r \in Ids /\ runs[r].status \in Ended)

\* "If so, only services on the organization's own network are eligible. This
\* is a hard rule" (routing.py): no sensitive text reaches an external service.
PrivateStaysPrivate == disclosed = {}
=============================================================================
