# ServiceOps: a TLA+ verification project

ServiceOps is a Flask service-management application over PostgreSQL: tickets (incidents, problems, changes),
catalog requests, approvals, service levels, a CMDB, a workflow engine, an AI assistant and integrations. Web requests
run in several gunicorn workers; background work runs in one or more worker processes (`tools/outbox_worker.py`) that
call the `process_*` functions in a loop. All shared state is in the database, under READ COMMITTED: what one
request checked may have changed by the time it commits, unless it took a row lock. That is where the interesting
behaviour of this system lies, and what the models keep.

The project holds TLA+ modules translated from the source, TLC configurations that check them on small instances, and
TLAPS proofs for every value of the constants. `PROJECT.json` lists the components, the runs, a mutant for every
property of every passing run, the map from definitions to source lines, the findings, the hazards and the theorems.

## Inventory

| Component | State | Operations | What is hard | What makes it correct |
|---|---|---|---|---|
| **Outbox** (`app.py` 2380-2560) | `outbox_event`, `integration_delivery`, the claims of the workers | enqueue, claim, deliver per channel, persist, retry, give up | several workers, crashes between claim and commit, leases that expire, lost acknowledgements, one channel of several failing | no event settled with a channel left out; no recorded delivery repeated; every event eventually settled |
| **Approval chains and changes** (`app.py` 3160-3460, 4150-4530; `web/tickets.py`) | `approval_chain`, `approval_gate`, `approval_vote`, `ticket` | submit, vote, supersede, cancel, delete, transition | votes, revisions and transitions in concurrent requests, partly without locks | gates in order; Approved means enough approvals; a change starts only if approved |
| **Catalog requests** (`web/service_requests.py`, `request_withdrawal.py`, `app.py`) | REQ, its RITMs, their chains and SCTASKs | order, add item or task, decide, work on a task, withdraw, settle | pages reading the siblings of what they write | nothing fulfilled without approval; the REQ is open exactly while an item is |
| **Service-level clocks** (`app.py` 4531-4660, 5040-5100) | `task_sla` rows of a record | attach, pause, resume, complete, retarget, flag breaches | pauses and priority changes in any order | working time is counted exactly; no early breach |
| **Workflow engine** (`app.py` 5104-5257, 5836-5957) | `workflow_job`, `workflow_execution` and its steps, published versions | publish, queue, run, wait, retry, compensate, replay | batches whose locks end at the first commit, failures recorded after a rollback | an action and a compensation happen once; jobs complete only when executed; every event is settled |
| **Incidents and their hierarchy** (`app.py` 3225-3456, `incident_hierarchy.py`, `web/tickets.py`, `web/api.py`) | tickets, parent links, incident tasks, holds, outages | transition with synchronization of children, set parent, add task, link CI, reply | unlocked parent links; children written past the guards of the transition | no loops of parents; nothing open behind a finished incident |
| **CMDB sources** (`ci_precedence.py`, `cmdb_import.py`, `netbox_sync.py`, `snipeit_sync.py`, `network_discovery.py`, `web/cmdb.py`) | a column of an item, its provenance, the order of the sources | import, synchronize, discover, edit, reorder | many writers, each applying the precedence by itself | no source overrules a higher one |
| **Projects' sprints** (`projects/sprints.py`, `service.py`, `operations.py`) | sprints, memberships, their log, items, statuses | save, start, assign, complete, delete; edit, convert, move, delete items; edit statuses | the report is recomputed from a log that a dozen pages write | what is credited and reported is what happened |
| **REST API and audit trail** (`app.py` 820-900, 1263-1480, `web/api.py`) | idempotency records, counters of numbers, rate windows, the hash chain | admit, look up the key, number, append, commit | the same key twice at once, locks taken in different orders | an operation once per key; consecutive numbers; an append-only log; no request waits for ever |
| **Sign-in** (`mfa.py`, `web/auth.py`, `web/mobile_auth.py`, `app.py`) | codes, challenges, refresh tokens, the session version | sign in, refresh, sign out, change credentials | single use under concurrency | a code or token is used once; a change of credentials ends older sessions |
| **Integration synchronization** (`integration_job_lock.py`, `netbox_sync.py`, `snipeit_sync.py`, `app.py`) | jobs, the advisory lock on a connection of its own | enqueue, lock, preview, import, cancel, recover | the lock disappears with its connection | an import follows its preview and is written once; every job ends |
| **Checkpoint storage** (`storage/ipfs_*.py`, `storage/pinata_client.py`) | tables in memory, the last saved copy, the published pointer | commit, save, publish, boot, heartbeat | failed calls, restarts between save and publication | the pointer never loses what is committed; what is committed is published in the end |
| **AI assistant** (`ai/service.py`, `ai/routing.py`, `ai/quota.py`, `ai/routes.py`) | runs, messages, calls, services, settings | ask, claim, plan, call, publish, cancel, delete | settings and services that change in the middle of a turn; workers that die | claimed once, stopped stays stopped, sensitive text stays inside, deleted is withdrawn, every turn ends |
| **Live events** (`tools/events_server.py`, `realtime.py`) | streams, queues, the LISTEN connection | connect, dispatch, resync, recheck | lost signals; checks before an await | a lost signal is followed by a resync; a signed-out account loses its streams |
| **E-mail intake** (`app.py` 4675-4882, `email_ingest.py`) | mailboxes, read flags, client tickets and messages | poll, recognize, thread, create, acknowledge | two systems without a common commit | every mail is filed once or dropped on purpose, none is held up |
| Change tasks; workflow schedules; client management; assets; chat; notifications; retention | tables of their own | pages and scans | see `PROJECT.json` | - |
| Pages, dashboards, settings, installer, localization, MCP | - | rendering, forms, translation of requests | - | not worth a model |

How they interact: every page commits its business rows, the audit row, the history and the notifications (outbox
rows) in one transaction. `transition_ticket` calls `sync_slas`, cancels chains and child tasks and synchronizes child
incidents. `decide_vote` moves the record the chain belongs to (a ticket or a RITM), creates fulfilment tasks and
settles the REQ. The worker loop calls `process_outbox`, `process_sla_breaches`, `process_workflow_jobs`,
`process_client_email_inbox`, the synchronization jobs and the others in turn (in `STORAGE_MODE=ipfs` a thread of the one process does); only
`process_outbox` has another caller, the page `/admin/integrations/process`, for a batch of five. The assistant has a
worker of its own (`tools/ai_worker.py`), the live events a server of their own, which hears of changes through
PostgreSQL notifications of the same transactions.

## The modules and the code

`Outbox` / `MCOutbox` / `OutboxProofs`. A row carries its state, attempts and the time left until `available_at`; a
worker carries its batch, the event and channel it is at and the rows pending in its session. `Claim` is the
`SELECT ... FOR UPDATE SKIP LOCKED` transaction, `StartEvent`, `PassOver`, `BeginSend`, `EndSend` the delivery loop
outside of any transaction, `Persist` the commit of an event. A delivery makes up to `Requests[c]` requests (a webhook
follows three redirects, a push goes to every device), each of which may take the whole `Timeout`. `Crash`, `Stall` and
`Resume` are what happens to a process. A call may be accepted without the caller learning of it. `outlived` (the events
whose lease ended in the hands of a worker, alive or suspended) and `steady` are histories read by properties only. The
administrator's page is one more worker.

`ApprovalChains` holds chains as values (`NewChain`, `DecideVote`, `CancelChain`, `SupersedeChain`), and `Merge`: what
the database holds after a session flushes the columns *it* changed over what others committed. `ChangeApproval`
composes them with the ticket and the requests: `Decide` is one step because `refresh_locked_approval` locks the
chain and rereads its rows; revisions load, lock, and commit in separate steps, at the places where the source takes
its locks (the plan, task and CI pages with the first query, the reassignment form later, the chat command never);
`transition_ticket` and `change_delete` read, check and later write without a lock.

`CatalogRequest` describes what a page computes as a function of the rows it sees (`Withdraw`, `Update`, `Decide`,
`AddItem`, `AddTask`, all of which end in `Settle` where the code does) and runs each page in steps: `Load` what it
checks, `Flush` its UPDATEs, which take the row locks, `Commit`. A withdrawal has one more, `ReadChains`: it reads the chains of
its items without a lock, before it locks the request, and later writes Cancelled over what it read as Running, whatever
has been decided since. `overruled` is the history of the approvals it has cancelled that way.

`MCApprovals` / `ApprovalProofs` has both: a behaviour is about a change or about a request (`subject`), and `overlapped` remembers whether
two requests on it have ever been open at the same time (`Overlap`). `Beside`, `OverlapItems` and `Spared` bound which may be.

`SlaClock` / `ServiceProofs` keeps, for each definition, the latest row of the record: `Update` is a page that moves the state
(`sync_slas`) and then the priority (`retarget_slas`), `ProcessSlaBreaches` a pass of the worker, `Tick` time. `held` is a history.

`EventsServer` gives every browser its place in `handle_events` (asking, admitted, streaming), its bounded queue and whether its
recheck is due, and the listener its connection with the growing delay between attempts. `Signal` is the NOTIFY of a
committing transaction, `Lose` a connection that breaks, `Pause` a client that stops reading. `missed` and `excused` are histories.

`MailIntake` follows `process_client_email_inbox` step by step: `Poll` a mailbox, `Process` a message (recognize it, thread it,
create a ticket, drop it), `File` is the commit, `Acknowledge` the read flag on the other side; `FetchFails`, `PollFails`, `Raise` and
`Crash` are the failures in between, `Configure` an administrator who gives a sender its place. In `MCServices` clocks, events
and mail are three subjects.

`WorkflowJobs` / `MCWorkflowJobs` / `WorkflowProofs`. A job carries its state, attempts and the time left until
`available_at`; an execution (per job and published version) its state, `next_action_index` and the `compensation_state` of
its steps. `Select` is the batch query with its locks, `StartJob` the UPDATE that sets a job Running and the reads of its
run, `CommitJob` the end of the run's transaction (which releases the locks of the *whole* batch), `LeaveParked` the second
look at the state of a job that waits, `Fail` the rollback and the reload without a lock, `CommitFailure` what is recorded
of it. `Written` says which columns a session writes. `ran` and `undone` are histories. Which workflows match an
event is fixed, and every run may fail.

`Incidents` has the rows of incidents, parent links, tasks and the outage. `Write` is the whole of `transition_ticket`, with the
children that follow (`Synced`), the tasks it cancels and the outage it closes. A page that moves an incident, sets a parent
or works on a task is in two steps (`OpenMove`, `CloseMove`, ...): what it loaded, and its commit, which writes only
changed columns (`Written`). `Inventory` is one column of one item that four sources, an editing page and the discovery
write; every entry has the precedence of the code path that the source takes. `Sprints` has sprints, memberships and the log of each;
every page holds the lock of the project and is one action, except the edits of statuses, which take no lock and write no log
either; `opened` and `silent` are histories. `MCRecords` / `RecordProofs` has the three as subjects.

`ApiRequests` is the envelope of a mutating API request in the order of its locks: `Admit` (rate limit), the look-up and
the claim of the key, the numbers, the audit row under the lock of the tenant, the commit or the rollback with its reply.
`AuditLog` is the abstract specification: a log that grows, by the one or more rows of a commit, each naming its predecessor,
and that never changes otherwise; `TrailIsAppendOnly` states that `ApiRequests` implements it (`INSTANCE AuditLog WITH log <- AuditRows`, the rows in the order of their ids). `SignIn` has two
requests on one account, each reading and later writing with the guard of its UPDATE. `MCInterfaces` / `InterfaceProofs` has both as subjects.

`SyncJobs` has the job table, the lock that belongs to a connection, the workers' steps (`Work`) and the cancel page in two
steps. `Checkpoints` is the deployment without a database: the tables, the copy the last save made, the pins and the pointer
of the storage service, with an outcome for every call and `Providers` telling the two clients apart where their code differs.
All threads share one connection under a lock. A pass of the worker that fails gives the lock up (`PassFails`) before it takes it again
to roll back (`Recover`); in between its rows are on the connection, and the next to come publishes them (`CheckpointLoop`),
commits them (`Commit`) or takes them away (`ReadOnly`). `committed` and `abandoned`, the rows of such passes, are histories.
`MCBackground` / `BackgroundProofs` has both as subjects.

`Assistant` / `MCAssistant` / `AssistantProofs` has runs with their state, claim, text (question, answer and sources) and whether they hold a
proposal, a draft or an action made from the conversation; workers at the steps of `process_one` (claim, plan, call,
publish); services whose address an administrator may edit, the settings, and the pages that cancel and delete. A worker may die or
be suspended for longer than a heartbeat is trusted; `claims`, `disclosed` and `raced` are histories, `disclosed` that of the sensitive runs sent outside.

A run about several subjects explores each by itself: the components share no variables, and one run keeps the
question "what holds for records, for interfaces, for background work" together.

The operators commented "The plausible mistake" or named next to the definition they vary are the mutants: each
replaces that definition and TLC then finds the property violated.

## Runs

| Run | Instance | What it shows |
|---|---|---|
| `outbox` (595,000 states) | 2 workers, 2 events, 2 channels, one of them with 2 requests, 2 attempts, a lease of 3 for passes of up to 5, 1 crash, 1 suspension | `CompletedIsDelivered`, `ExclusiveClaim`, `RecordedNeverResent`, `EventuallySettled` |
| `approvals` (1,491,000) | 2 sessions, a majority of 3 then all of 2, 3 chains, votes in 2 of them; 2 items, 2 tasks | `RunningInOrder`, `ApprovedIsFullyApproved`, `WaitsForOneChain`, `StartsApproved`; `FulfilmentIsAuthorized`, `RequestFollowsItsItems` |
| `change_start_race` (violation) | transition against link page | `StartedIsApproved`: a change is started while the chain of its revision is running |
| `services` (224,000) | 2 priorities, 3 definitions, 6 units of time; 2 streams, 2 signals, 2 lost connections; 3 mails in 2 mailboxes, 1 fault | `ClockKept`, `BreachIsReal`; `MissedIsResynced`, `SignedOutIsClosed`; `EveryMailIsFiledOnce` |
| `workflow_jobs` (899,000) | 2 workers, 2 jobs, one workflow (action, wait, action), 2 attempts, 1 crash, 1 replay | `StepsRunOnce`, `UndoneOnce` although batches overlap |
| `workflow_serial` (255,000) | 1 worker, 2 jobs, 2 workflows, 2 versions | `CompletedIsExecuted`, `DeadIsCompensated`, `EventuallySettled` for the deployment of the chart |
| `records` (779,000) | 2 incidents, 1 task, 1 page open beside another; 4 sources in all orders; 2 items, 2 sprints, 2 memberships, 1 edit | `NoParentLoop`, `FinishedIsComplete`; `PrecedenceKept`; `SprintReportIsTrue` |
| `api` (346,000) | 5 requests, 3 keys, 3 counters, 1 minute; 2 requests, 2 backup codes, 2 challenges, 3 tokens, 2 changes | `OncePerKey`, `NumbersConsecutive`, `TrailIsAppendOnly`, `ApiRequestsEnd`; `UsedOnce`, `OldSessionsEnd` |
| `background` (324,000) | 2 workers, 3 jobs, 1 fault; 2 providers, 2 inserts, 2 failed calls, 2 restarts | `ImportedOncePerPreview`, `EveryJobEnds`; `PublishedGrows`, `CommittedIsPublished` |
| `assistant` (571,000) | 2 users, 2 workers, 2 services, 2 runs, 1 death or suspension, 2 edits | `ClaimedOnce`, `PrivateWhileRunning`, `StoppedStaysStopped`, `DeletedIsWithdrawn`, `AllowanceBounded`, `EveryTurnEnds` |
| `assistant_privacy` (violation) | 1 worker, 2 services, 1 edit | `PrivateStaysPrivate`: a sensitive question is sent to a service that became external after the plan |
| `pointer_lost` (violation) | Pinata, 1 failed call, 1 restart | `PointerIsPreserved`: one failed read at boot and the checkpoint is replaced by an empty one |

Bounds. Two workers, sessions or requests are enough for every race found: each is between two actors, and the proofs
cover the rest for any number where there is one. Two attempts reach both a retry and Dead; one crash suffices to leave an
orphaned claim, and a second adds only a repetition. Two gates are the fewest with an order, three voters the fewest with a
majority that is neither one nor all, three chains the fewest with two revisions (`VotedChains`: once there are three, votes are
cast in two of them, in one when requests have overlapped). A lease of 3 is shorter than a pass of two events and longer than
one of a single event whose requests do not all take their timeout: leases end in the hands of live workers and of suspended ones. Two tasks are the fewest with an order;
where pages of a request overlap, no task is set Pending (to every page the same as Work in Progress) or Open (where it is already).
Six units of time hold several pauses and priority changes and pass every target. An undoable action, a wait and another
action are the shortest workflow whose failure finds something to undo; a second workflow shows what comes after a stop, a
second version a publication during a wait. Two incidents are a parent and a child (and the two of a loop); five API
requests hold two pairs of repetitions and a stranger. Three log entries since the start of a sprint are its baseline, a
change and the completion. Three mails are a question, its answer and a bounce, with one slot per poll so that one can hold
up another. Two inserts are the row of a failed pass and that of the request which finds it. Two restarts and two failed calls of the storage service are one during a boot that follows one during a
publication. `MaxChains`, `MaxTasks`, `MaxTime`, `MaxCrashes`, `MaxStalls`, `MaxVersions`, `MaxReplays`, `MaxSteps`, `MaxRaces`, `MaxEvents`,
`MaxEdits`, `Memberships`, `MaxRows`, `MaxMinutes`, `MaxTokens`, `MaxChanges`, `MaxJobs`, `MaxFaults`, `MaxTroubles`, `MaxRuns`, `MaxRevisions`, `MaxInserts`, `MaxFailures`,
`MaxSignals`, `MaxLosses` are bounds of the model, not of the code. Symmetry is used for workers, sessions, work items, sprints and
memberships, in runs without liveness properties. `CHECK_DEADLOCK FALSE` stands where the system may rest: no event is queued,
no page is requested, or a bound is reached. In `services` the mailboxes are polled and time passes for ever, and deadlock is checked.

Fairness, always weak, and never of users, faults or administrators:
- `outbox`, `workflow_serial`: a worker's pass, its resumption and time. `outbox_worker.py` calls the `process_*` functions in an
  endless loop that pauses for at most 10 s, a network call ends by its timeout, and an orchestrator resumes or restarts a process.
  That a run which may always fail is settled rests on the count of attempts, not on fairness.
- `services`: the listener and every stream's coroutine (an event loop that never blocks), the recheck timer of a
  stream, and the poll of the mailboxes, by the same worker loop.
- `api`: the next step of each request: a thread runs on once its lock is free.
- `background`: each worker's step and the second step of the cancel page; saving, publishing, booting, the heartbeat commit, the
  end of a request and the rollback of a failed pass. Failed calls are bounded: a storage service that never answers publishes nothing.
- `assistant`: each worker's step and its resumption.

## Proofs

Every safety property that a passing run checks is proved, for every value of the constants that satisfies the named assumptions.
The assumptions are the `ASSUME`s of the modules (TLC evaluates them on every run): the constants have their types, what is
counted is finite, there is at least one gate and every gate has approvers, a closed record is not paused, a wait has no
compensation (as `validate_action` makes sure), delays are numbers and the listener's maximal delay is not 0 (`EventsAssumption`), the kinds of numbers a request allocates
are different, the orders of sources hold sources (`OrdersAssumption`), 0 is no id and the default status exists (`ProjectAssumption`).
The theorems include the bounds, so they do not depend on them. Three hypotheses stand in theorems, not in the models:
- `OneWorker`, for `WorkflowCompletedIsExecuted` and `WorkflowDeadIsCompensated`: the chart deploys one
  (`charts/serviceops/templates/worker.yaml:7`, `replicas: 1`). With two workers both fail, as noted below.
- `"chat" \notin Beside`, for `ChangeWaitsForOneChain` and `ChangeStartsApproved`: the chat command that escalates a change, which takes no lock, is
  not carried out while another request on that change is open. Beside another page it makes a second running chain, as noted below.
- `Cardinality(Incidents) <= AncestorLimit`, for `ParentsMakeNoLoop`: `_ancestors` reads 50 generations, and above that many a loop closes
  unnoticed. The theorem is about hierarchies of at most that size.

`OutboxProofs`. `CompletedIsDelivered` is not inductive: `Persist` settles an
event from the worker's locals. `OutboxInv` adds `PassAccountsForChannels` (every channel the pass is done with was not
required, is committed, is pending in the session, or is in the failures), `SteadyIsEnabled`, which makes passing over
a switched-off channel harmless, and `HeldIsQueued`. No lease and no exclusive claim is needed: the theorem holds for
overlapping passes too. `ExclusiveClaim` and `RecordedNeverResent` are about the
lease: `LeaseInv` states that an event somebody holds is leased, and held by nobody else, unless it is in `outlived`. Both theorems hold
for every lease, timeout and number of requests, and say that the end of a lease is the only way to a second holder or a repeated delivery;
they do not say that it never comes, which is false for the code's constants (below).

`ApprovalProofs`, changes. That an Approved chain has its
approvals rests on what a *running* chain has already collected, hence `StandsAt(c, g)`: Approved with enough
approvals before g, only open or approving votes at g, nobody asked beyond. The argument has two halves: deciding a
vote moves a chain that stands at a gate on, rejects it or approves it (`ApproveOK`, `RejectOK`, with `CompleteIsEnough`
relating the code's counting to the approvals asked for); and merging a stale cancellation or superseding over
any chain never makes it Running or Approved (`MergeOK`). So no locking discipline of the revising requests is assumed there.
`WaitsForOneChain` does rest on it: `ChangeInv` states that only the latest chain runs (`OnlyLatestRuns`) and, for each revising page, that
the chain it has loaded is the latest still, and that it holds the row lock of the change (`SessionOK`). The second half of that property and
`StartsApproved` speak of requests that do not overlap; `TransitionOK` keeps what such a request has read true until it writes.

`ApprovalProofs`, requests. `FulfilmentIsAuthorized` holds for any overlapping pages, and says that a withdrawal which read a chain before
it was approved (`overruled`) is the only way to fulfil an item whose chain is not Approved. `FulfilmentInv` says of a page what it rests on in
the committed rows from its `Load` on (`PageOK`: the item has been added, its chain is running, authorizing or overruled), how the rows it writes
differ from those it computed them from (`Wrote`: only the columns of its items; a withdrawal ends running chains only, an approval comes from a
running one), and that a chain it changes is still as it was, except under a withdrawal (`FlushedOK`). That nobody takes this away is the locking of chains: `PagesApart`
says that no two pages hold the same chain, and no two order the same item. `RequestFollowsItsItems` is about pages that do not
overlap, so `FollowsInv` adds that what such a page has seen is what the rows are, and `Follows` for the rows it computes: each of
`Withdraw`, `Update`, `Decide`, `AddItem`, `AddTask` ends in `Settle`, or leaves an item open.

`ServiceProofs`. `SlaInv` states for each row that its
target is a duration plus its pauses after the creation, that its pauses and the one in progress add up to the time
the record was held (`Kept`), and that its stage follows the record's (`Follows`). Both are needed together: a row's pause
grows with `held` only because the row is paused exactly while the record is, and a replacement row is right only
because all the rows it replaces agree (`OneValue`), so that the earliest start and the longest pause are everyone's. `EventsInv` adds to
`MissedIsResynced` that a listener which is not connected does not count as listening and that its delay is never 0: so the connection that
comes after a failure offers the resync to every stream.

`WorkflowProofs`. `WorkflowInv` has `RecordsMatch` (an action
has had its effect exactly once if it lies below `next_action_index` and never otherwise; it has been undone exactly once
if its step says so), `LocksExclude` and `RunsUnderLock`: a running worker has its job locked, and what it read of the
job's executions is still what the table holds. The last is what makes a run start where the previous one ended:
any other worker that writes these rows needs the same lock (`OneRunsJob`). The failure path reads without a lock, but
computes its compensations from the rows as they are when it writes. For one worker `SerialInv` adds `JobOK`, the two properties
and that a Completed execution is at its end, and `AtWork`: the worker's batch holds unsettled jobs only, and what it reloaded of a job that
failed is current. A run that waits for nothing has executed every workflow, because
the loop stops only at one that is blocked: there would be a first one (`LeastExists`, `NobodyBlocked`).

`RecordProofs`. `PrecedenceKept`: `SourceInv` says that the remembered source has written the present value unless the discovery has, which remembers
nobody and ranks last. `FinishedIsComplete`: `OpenInv` says that until another page commits, the open one has read what the tables hold
and its checks hold; `WriteKeeps` takes the transition and each child that follows it apart. `NoParentLoop`: `LoopInv` adds to this that the open page's
check of the ancestors is true of the links. A loop in the links after `set_parent` contains the new one; what the climb has met of it is a loop already
(`LinkingKeeps`), provided that the climb came to its end, which follows by counting: until then every step meets another incident (`ClimbIsClosed`). The
recursive function `Climb` is treated by the least number at which a statement about it fails (`LeastExists`). `SprintReportIsTrue`: `MemberInv` relates the log of every
member to its item (the last entry is its state, and it was opened if an entry says so), `ClosedReport` what a completed sprint has credited.

`InterfaceProofs`. `KeyInv` (`AnswersMatch`: the stored answer of a key is that of a request which was carried out, and everybody who is answered has
it), `NumberInv` (what a request has allocated is still the next number of its kind, because it has the lock of the kind), `TrailInv` (the committed rows
form a trail in the order of their ids, and the rows of the session that holds the trail's lock continue it): `TrailRefines` shows each step of
`ApiRequests` to be a step of `AuditLog` or a stutter. `OnceInv` follows a code, a challenge or a token from the request that presents it to the
tokens it is given (`Unspent`: such a request has the lock of the row it used, or has deleted that row); `SessionInv` adds that while no two changes of
credentials overlapped, nobody has loaded a later version than the account's.

`BackgroundProofs`. `JobInv`: a job that has come to its last question (`Reached`) is never Pending again, and nobody holding the lock is
on the way there, so that there is one writer (`OneWriter`), also when a lock is lost with its connection. `KuboInv` orders by inclusion what is committed of
everything between the pointer and the tables (`Carries`: published, in publication, pending, saved, in memory), and says that whoever has the lock finds
no rows on the connection but those of a failed pass: so a checkpoint holds committed and abandoned rows only (`Storable`).

`AssistantProofs`. `Follows` says what every step leaves of a run, from which `ClaimInv`, `EraseInv` (from the first statement of a deletion on the runs of
the conversation are stopped and hold no text) and `StoppedStaysStopped` follow. `PrivateInv`:
as long as the run of a worker runs, the candidates it may call are private if it holds sensitive text. `AllowanceInv` counts, with the calls made,
those that may still be made without asking for room (`Spare`: each candidate once, and once more if it was busy), as a finite set.

Only model-checked:
- Liveness: `EventuallySettled` of `Outbox` and of `WorkflowJobs`, `ApiRequestsEnd`, `EveryJobEnds`, `CommittedIsPublished`, `EveryTurnEnds`,
  `SignedOutIsClosed`, `EveryMailIsFiledOnce`. The prover has no rules for fairness and ENABLED.
- The violations of `change_start_race`, `assistant_privacy` and `pointer_lost`, which are counterexamples.

No module that a proof reaches declares a RECURSIVE operator (`Climb` is a recursive function). `(UNION A) \union B` is written with
parentheses, since the tools group it differently without them.

## What the models leave out

- Who may act. Roles, tenancy and delegation decide which requests are refused; every request is possible here.
- Changes created as drafts or without a chain, and in `transition_ticket` the required tasks and the review after
  implementation: their refusal is an `Abort`.
- In `CatalogRequest` a chain is reduced to its outcome (`ApprovalChains` has the rest), and what a page loads first is
  loaded at one moment.
- In `SlaClock` a page is one step, definitions share their pause states and have no business calendar.
- In `WorkflowJobs` conditions and the contents of packages; a new version has the actions of the old one. Schedules.
- In `Incidents` routing, templates, satisfaction and the profiles of major incidents.
- In `Inventory` which item a record is matched to; in `SyncJobs` what is read from the remote system, and the imports from LDAP and
  Request Tracker, which have neither lock nor preview.
- In `Sprints` points, estimates, ranks, releases, epics and automation rules; an item that leaves for another project is gone.
- In `ApiRequests` what an operation does to its records, and hashes, which are the numbers of the rows they stand for.
- In `SignIn` cryptography, lockout counters, account status, enrolment, browser sessions. Challenges exist from the start.
- In `Checkpoints` deletions of rows, the file index, encryption and publications that a server completes after its client gave up.
- In `Assistant` prompts, answers, memory notes, the ranking of healthy services and the review of proposed actions.
- In `EventsServer` which records a transaction signals, and the health endpoint.
- In `MailIntake` parsing, attachments, triggers, outgoing replies and the clocks of a ticket.
- Text, notifications, history and audit rows written along the way (except in `ApiRequests`, which is about them).

## Not modelled

The map names about a tenth of the implementation's lines. Most of the rest are pages, forms, settings, rendering, search, charts,
localization, importers' field mappings, the installer and migrations: code with one transaction and no protocol, for which a model
would restate assignments. Components with state of their own that are still open are in the plan below.

## Known from the models, without a run of their own

Outbox:
- A crash after a message was accepted and before its row is committed sends it again, although the docstring says
  "rather than losing or double-delivering it" (`app.py:2417`).
- The lease of 1800 s (`app.py:2394`) is computed for 50 events, three channels and one request of 10 s for each (`app.py:2389-2393`, "so a merely-slow
  (not stuck) batch never has an event's lease expire out from under it mid-processing"). The loop tries four channels, which makes 2000 s; a
  webhook delivery makes up to four requests (`app.py:2336-2385`), a push one for each device (1850-1868); and 10 s bound the connection and each
  read, not a request. So the lease of a slow batch does end in the hands of a live worker, and another worker delivers its events again:
  `outlived`, which `ExclusiveClaim` and `RecordedNeverResent` except, is not empty in the run without any suspension.

Changes and requests:
- `/escalate` in Google Chat revises a change without locking it (`google_chat_service.py:41`): beside another page a change can have two
  running chains.
- A cancellation that loaded the chain before a vote ended it writes Cancelled over Rejected (`app.py:3197`), and two
  transitions loaded from the same state both commit, the last one winning (`app.py:3398`).
- The last two items of a REQ that end together leave it open for good (`request_withdrawal.py:77`), and an item can be added to a REQ that
  closes meanwhile (`service_requests.py:472`): `RequestFollowsItsItems` is stated for pages of different items that do not overlap.
- A withdrawal reads the chains of its items by a plain SELECT (`request_withdrawal.py:47-50`, `app.py:3141`) and cancels later what it read as Running,
  without a lock or another look (`app.py:3196-3206`): a decision that commits in between leaves a Cancelled chain with fulfilment tasks
  (`overruled`).
- A task may be added to a withdrawn item, and closing it brings the item back (`service_requests.py:520`).
- An item whose tasks are all closed, one of them Skipped and none Incomplete, never closes (`service_requests.py:687`).
- The plan page refuses started, closed and cancelled changes but not rejected ones (`web/tickets.py:1421`), and submits a
  Rejected change again; `task_lifecycle.py:12` calls Rejected final.

Service levels and workflows:
- Passing through a priority without a definition, or reopening a resolved record, leaves a record untimed
  (`app.py:4594`, `app.py:4629`); a transition and a change of priority in two requests each rewrite the rows they loaded (`app.py:4628`).
- With two workers (a rolling update, a scaled deployment) the rate limit, waits, `CompletedIsExecuted` and
  `DeadIsCompensated` fail: both count the executions of the minute before either commits; a job that the other worker
  has parked runs on at once from the stale list; a failure recorded late sets a finished job Dead; and a parked
  job whose state was set to Retry meanwhile is marked Completed. The chart deploys one worker.
- A replayed job does not repeat the actions that were compensated when it died (`administration.py:1275`): it goes on at
  `next_action_index`. And a version published during a wait starts the workflow from its first action, leaving the old execution Waiting.

Incidents, CMDB and projects:
- Children that follow their parent keep open required tasks and outages (`app.py:3433`).
- Two pages that set parents at the same time can make a loop, or leave an incident two parents (`incident_hierarchy.py:107`).
- Overlapping moves write only the columns they changed: a hold reason can stay on a Resolved incident, a child written from a stale copy can leave
  Closed again, and an overlapping task page reopens a cancelled task.
- A change of the impact by the API and the link of a CI (`task_ci_add`) do not bring the outage up to date. "reopen" of a Closed incident on the
  web is always refused by the lock it has itself. `_ancestors` looks at 50 generations at most.
- A lower-ranked source that confirms a value becomes its owner; the discovery overwrites vendor, name and class without arbitration; the
  edit page saves the values its form was rendered with as "manual".
- `update_status` and `delete_status` (`projects/service.py:348`, `386`) change the category of items without `capture()`: the chart of an active
  sprint is stale, and work that was finished or reopened that way may be credited wrongly. Two overlapping moves of an item end in an error of
  the unique constraint.

Background work:
- A synchronization job can be shown Cancelled although its import was committed, and a worker that loses its lock after the last check
  still commits. The Request Tracker import (`app.py:5550`) has no lock and no recovery.
- `delete_file` removes the content before the deletion is in a published checkpoint: a restart brings the row back without its content, although the
  page says "Remove bytes only after the deletion and its audit record are durable" (`web/tickets.py`, attachment deletion).
- A failed pass of the worker leaves `with _lock` before it rolls back (`app.py:8253-8276`). On the one connection its rows may meanwhile be
  published by the checkpoint thread without ever being committed, or be committed by the next request (`abandoned`).
- After a failed pin or a failed publication on Pinata readiness reports nothing pending, although the docstring says "Readiness exposes
  whether publication is pending"; the next heartbeat commit makes up for it. `attach_file` saves the previous copy of the tables.

Assistant:
- The recovery of abandoned runs and `cancel_active` leave the chat message "pending" and the text of the question in the run.
- `delete_conversation` blanks the questions, answers and sources of the runs but leaves `route_json`, where `_finish` has put the draft (title,
  description, plans) or the action it proposed (`service.py:513-542`), contrary to its docstring "Remove a conversation and everything derived from
  it: messages, and any run text still held" (`service.py:715`). `DeletedIsWithdrawn` says what holds: such a run is cancelled, and the pages open proposals
  of completed runs only.
- A prompt may be sent to a fallback after its run was cancelled. A question sent to a conversation that is being deleted leaves a run without a
  conversation, whose text stays until the retention scan. Two reviews of one proposed action can both find it pending (`ai/routes.py`, 617-653).

Live events and sign-in:
- The number of streams is compared with the limit before the await of the authorisation (`events_server.py:185`) and can exceed it.
- Streams opened before the first LISTEN get no resync; a full queue drops signals and the resync (`events_server.py:56`); pages without
  notifications ignore it (`platform.js:834`); a stream whose client does not read is not rechecked.
- Two overlapping changes of credentials each write the version they loaded plus one, so a session begun between them survives (`app.py:1021`).

E-mail:
- Duplicates are looked for among the tickets of the mailbox (`app.py:4769`): a reply threaded onto a ticket created by hand, or onto another
  mailbox's, is filed again when the acknowledgement failed, contrary to "the committed message will be deduplicated on retry" (`app.py:4830`),
  and a copy sent to a second mailbox is filed twice in one ticket.
- Mail without an organization or team is left unread although the docstring says "message dropped", counts against the limit of its sender at
  every poll, and is silently marked read once the limit is reached, with the sender's other mail of the hour.
- A reply that is processed while an agent solves the ticket leaves it Solved. Nothing makes message ids unique: two workers that poll at once file a mail twice.

## Plan

Done: `Outbox`, `ApprovalChains` with `ChangeApproval`, `CatalogRequest`, `SlaClock`, `WorkflowJobs`, `Incidents`, `ApiRequests` with
`AuditLog`, `SyncJobs`, `Inventory`, `Assistant`, `SignIn`, `EventsServer`, `Checkpoints`, `MailIntake`, `Sprints`; the proofs of their safety properties.

Theorems to come, in this order:
1. The safety half of the remaining temporal properties, where there is one: that a mail is never filed twice in its mailbox (`MailIntake`), that a stream
   admitted for a signed-out account has its recheck due (`EventsServer`), that a settled event stays settled (`Outbox`, `WorkflowJobs`).
2. An abstract specification of a change's approval (asked, approved or ended, started) that `MCApprovals` implements while requests do not overlap.

Models to come: the phases of change tasks in place of the `Abort` of `ChangeApproval`; workflow schedules feeding `WorkflowJobs`; the review of proposed actions in
`Assistant`; releases and automation rules of projects.
