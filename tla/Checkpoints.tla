---------------------------- MODULE Checkpoints ----------------------------
(***************************************************************************)
(* STORAGE_MODE=ipfs, the deployment without a database: the tables live   *)
(* in the memory of one process, on one connection, and are saved as whole *)
(* encrypted checkpoints; a pointer (an IPNS name of a Kubo node, or a     *)
(* named file at Pinata) says which one a restart begins from.  Requests   *)
(* and the thread that saves hold the projection's lock from their first   *)
(* statement to their last; the background worker does unless its pass     *)
(* fails: then it gives the lock up and takes it again to roll back.       *)
(*                                                                         *)
(* Of the tables only the rows that requests insert are kept, each with a  *)
(* number of its own.  A call of the storage service may fail.             *)
(***************************************************************************)
EXTENDS Naturals

CONSTANTS
    Providers,    \* the storage services to deploy on: "kubo", "pinata"
    MaxInserts,   \* bound: rows ever inserted
    MaxFaults,    \* bound: calls of the storage service that fail
    MaxCrashes    \* bound: restarts of the process

VARIABLES
    provider,     \* IPFS_PROVIDER
    process,      \* the process is "down", "starting" or "serving"
    tables,       \* the rows in memory, those not committed included
    holder,       \* who holds the projection's lock: "nobody", "request" or "worker"
    uncommitted,  \* rows on the connection that are not committed yet
    recovering,   \* whether the worker is about to roll a failed pass back
    dirty,        \* IPFSRelationalProjection._dirty
    saved,        \* the backend's copy of the tables, _relational_state
    pending,      \* _pending_checkpoint_cid: {} or the one checkpoint to publish
    publisher,    \* the thread of _publish_loop
    published,    \* the checkpoint the pointer names
    inserts, faults, crashes,
    committed,    \* history: the rows a commit has made permanent
    abandoned     \* history: the rows on the connection when a pass failed

lock == <<holder, recovering, abandoned>>
vars == <<provider, process, tables, uncommitted, dirty, saved, pending, publisher, published,
          inserts, faults, crashes, committed, lock>>

\* A checkpoint is the set of rows in it: a fresh node has none published, and
\* its first checkpoint, which holds what seed() created, is the empty set too.
Rows == 1 .. MaxInserts
\* latest: the checkpoint in the publisher's hands is still the pending one.
NotStarted == [at |-> "not started", holds |-> {}, latest |-> FALSE]

Init ==
    /\ provider \in Providers
    /\ process = "down"
    /\ tables = {} /\ uncommitted = {} /\ dirty = FALSE /\ saved = {}
    /\ pending = {} /\ publisher = NotStarted /\ published = {}
    /\ inserts = 0 /\ faults = 0 /\ crashes = 0
    /\ committed = {}
    /\ holder = "nobody" /\ recovering = FALSE /\ abandoned = {}

\* A call ends well, or one of the given faults is charged.
Calls(fault, possible) ==
    \/ fault = "none" /\ faults' = faults
    \/ fault \in possible /\ faults < MaxFaults /\ faults' = faults + 1

-----------------------------------------------------------------------------
(* Saving and publishing.                                                  *)

\* Which calls of save_checkpoint may fail: every upload of Pinata is pinned, and
\* a Kubo node is asked for the pointer by another thread.
SaveFaults == {"add"} \cup (IF provider = "kubo" THEN {"pin"} ELSE {"publish"})

\* save_checkpoint.  With add_bytes the caller fails; a failure to pin or to
\* publish is logged and the caller goes on.
SaveCheckpoint(rows, fault) ==
    LET stored == fault = "none" IN
    /\ Calls(fault, SaveFaults)
    /\ saved' = rows
    /\ published' = IF stored /\ provider = "pinata" THEN rows ELSE published
    /\ pending' = IF stored /\ provider = "kubo" THEN {rows} ELSE pending
    /\ publisher' = IF stored /\ provider = "kubo"
                    THEN [publisher EXCEPT !.at = IF @ = "not started" THEN "waiting" ELSE @, !.latest = FALSE]
                    ELSE publisher

\* Whoever returns the only connection to the pool rolls back what is left on it,
\* the rows of others included.
ReturnConnection ==
    /\ tables' = tables \ uncommitted
    /\ uncommitted' = {}

\* checkpoint_if_dirty: the lock, all the tables, save_checkpoint, _dirty.
\* The plausible mistake: the tables are read without the lock.
NoLock == TRUE
LockFree == holder = "nobody"

Checkpoint(fault) ==
    /\ LockFree
    /\ SaveCheckpoint(tables, fault)
    /\ ReturnConnection
    /\ dirty' = (fault = "add")
    /\ UNCHANGED <<provider, inserts, crashes, committed, lock>>

\* A round of the checkpoint thread, which survives every failure.
CheckpointLoop(fault) ==
    /\ process = "serving" /\ dirty
    /\ Checkpoint(fault)
    /\ UNCHANGED process

\* _publish_loop reads the pending checkpoint ...
PublishLoopReads ==
    /\ publisher.at = "waiting" /\ pending # {}
    /\ publisher' = [at |-> "publishing", holds |-> CHOOSE p \in pending : TRUE, latest |-> TRUE]
    /\ UNCHANGED <<provider, process, tables, uncommitted, dirty, saved, pending, published,
                   inserts, faults, crashes, committed, lock>>

\* ... and is done with it only when name_publish succeeds.  A call that failed
\* for the caller may have been carried out by the node all the same.
\* The plausible mistake: an error ends the thread, which nobody starts again.
EndedByError(fault) == IF fault = "none" THEN "waiting" ELSE "ended"
AfterPublishing(fault) == "waiting"

PublishLoopEnds(fault) ==
    /\ publisher.at = "publishing"
    /\ Calls(fault, {"refused", "timeout"})
    /\ published' = IF fault = "refused" THEN published ELSE publisher.holds
    /\ publisher' = [publisher EXCEPT !.at = AfterPublishing(fault)]
    /\ pending' = IF fault = "none" /\ publisher.latest THEN {} ELSE pending
    /\ UNCHANGED <<provider, process, tables, uncommitted, dirty, saved, inserts, crashes,
                   committed, lock>>

-----------------------------------------------------------------------------
(* Requests and the background worker, which take the lock first.          *)

\* A request, or a pass of the worker, inserts a row and commits later.
Insert(by) ==
    /\ process = "serving" /\ LockFree /\ inserts < MaxInserts
    /\ by = "worker" => ~recovering
    /\ holder' = by
    /\ inserts' = inserts + 1
    /\ tables' = tables \cup {inserts'}
    /\ uncommitted' = uncommitted \cup {inserts'}
    /\ UNCHANGED <<provider, process, dirty, saved, pending, publisher, published, faults, crashes,
                   committed, recovering, abandoned>>

\* attach_file, in the course of a request, and delete_file, after its commit,
\* save what the backend has, and not the tables; their callers go on.
SaveFile(fault) ==
    /\ process = "serving"
    /\ SaveCheckpoint(saved, fault)
    /\ UNCHANGED <<provider, process, tables, uncommitted, dirty, inserts, crashes, committed, lock>>

storage == <<provider, process, saved, pending, publisher, published, inserts, faults, crashes>>

\* A commit is one of the connection: it takes a failed pass's rows along.
Commit ==
    /\ holder # "nobody" /\ holder' = "nobody"
    /\ committed' = committed \cup uncommitted
    /\ uncommitted' = {}
    /\ dirty' = TRUE
    /\ UNCHANGED <<storage, tables, recovering, abandoned>>

Rollback ==
    /\ holder # "nobody" /\ holder' = "nobody"
    /\ ReturnConnection
    /\ UNCHANGED <<storage, dirty, recovering, abandoned, committed>>

\* An exception in a pass of the worker leaves the lock first ...
PassFails ==
    /\ holder = "worker" /\ holder' = "nobody"
    /\ recovering' = TRUE
    /\ abandoned' = abandoned \cup uncommitted
    /\ UNCHANGED <<storage, tables, uncommitted, dirty, committed>>

\* ... and is rolled back under the lock, taken again.
Recover ==
    /\ recovering /\ LockFree
    /\ ReturnConnection
    /\ recovering' = FALSE
    /\ UNCHANGED <<storage, dirty, holder, abandoned, committed>>

\* A request that writes nothing finds the rows of a failed pass on its connection.
ReadOnly ==
    /\ process = "serving" /\ LockFree /\ uncommitted # {}
    /\ ReturnConnection
    /\ UNCHANGED <<storage, dirty, committed, lock>>

EndRequest == Commit \/ Rollback \/ PassFails

\* The worker commits its heartbeat at the end of every pass.
Heartbeat ==
    /\ process = "serving" /\ LockFree /\ ~recovering /\ ~dirty
    /\ dirty' = TRUE
    /\ UNCHANGED <<storage, tables, uncommitted, committed, lock>>

-----------------------------------------------------------------------------
(* The end of the process and the next boot.                               *)

\* A publication that is on its way may still be carried out.
Crash ==
    /\ process # "down" /\ crashes < MaxCrashes
    /\ crashes' = crashes + 1
    /\ process' = "down"
    /\ published' \in {published} \cup (IF publisher.at = "publishing" THEN {publisher.holds} ELSE {})
    /\ tables' = {} /\ uncommitted' = {} /\ dirty' = FALSE /\ saved' = {}
    /\ pending' = {} /\ publisher' = NotStarted
    /\ holder' = "nobody" /\ recovering' = FALSE
    /\ UNCHANGED <<provider, inserts, faults, committed, abandoned>>

\* name_resolve: what is taken for the published checkpoint.  An error of Kubo
\* blocks the boot, as does an error of Pinata's list of files; when it is the
\* pointer file that cannot be fetched, Pinata's client answers like a fresh node.
NameResolve(fault) == IF fault = "none" THEN published ELSE {}

\* The faults after which the boot goes on.
\* The plausible mistake: every error is taken for "could not resolve name".
EveryResolveFault == {"pointer"}
ResolveFaults == IF provider = "pinata" THEN {"pointer"} ELSE {}

\* create_app: load_checkpoint, restore, seed ...
Boot(fault) ==
    /\ process = "down"
    /\ Calls(fault, ResolveFaults)
    /\ process' = "starting"
    /\ tables' = NameResolve(fault) /\ saved' = NameResolve(fault)
    /\ dirty' = TRUE
    /\ UNCHANGED <<provider, uncommitted, pending, publisher, published, inserts, crashes,
                   committed, lock>>

\* ... and checkpoint_if_dirty(force=True).  The boot fails with add_bytes, and
\* the next one replaces what this one has in memory.
FirstCheckpoint(fault) ==
    /\ process = "starting"
    /\ Checkpoint(fault)
    /\ process' = IF fault = "add" THEN "down" ELSE "serving"

Saving == \E fault \in SaveFaults \cup {"none"} : CheckpointLoop(fault) \/ FirstCheckpoint(fault)
Publishing == PublishLoopReads \/ \E fault \in {"none", "refused", "timeout"} : PublishLoopEnds(fault)
Booting == \E fault \in {"none", "pointer"} : Boot(fault)

Next ==
    \/ Saving \/ Publishing \/ Booting \/ Crash
    \/ \E by \in {"request", "worker"} : Insert(by)
    \/ EndRequest \/ Recover \/ ReadOnly \/ Heartbeat
    \/ \E fault \in SaveFaults \cup {"none"} : SaveFile(fault)

Spec == Init /\ [][Next]_vars

\* The threads run forever, a request comes to its end, the worker goes on, and
\* the process is started again.
FairSpec ==
    /\ Spec
    /\ WF_vars(Saving) /\ WF_vars(Publishing) /\ WF_vars(Booting)
    /\ WF_vars(EndRequest) /\ WF_vars(Recover) /\ WF_vars(Heartbeat)

-----------------------------------------------------------------------------
TypeOK ==
    /\ tables \subseteq Rows /\ uncommitted \subseteq tables /\ saved \subseteq Rows
    /\ pending \subseteq SUBSET Rows /\ published \subseteq Rows
    /\ publisher.holds \subseteq Rows
    /\ process \in {"down", "starting", "serving"}
    /\ holder \in {"nobody", "request", "worker"} /\ recovering \in BOOLEAN
    /\ abandoned \subseteq Rows

(* On a Kubo node the pointer never moves to a checkpoint that lacks       *)
(* committed rows the previous one has ("the existing pointer is           *)
(* preserved", load_checkpoint), nor to one with rows nobody committed,    *)
(* those a failed pass of the worker left on the connection excepted       *)
(* (checkpoint_if_dirty, ipfs_background_worker).                          *)
Grows ==
    /\ published \cap committed \subseteq published'
    /\ published' \subseteq committed' \cup abandoned'
PublishedGrows == [][provider = "kubo" => Grows]_vars

(* With whichever provider: load_checkpoint blocks startup and writes      *)
(* rather than replace a checkpoint it could not restore.                  *)
PointerIsPreserved == [][published \cap committed \subseteq published']_vars

(* What was committed is published in the end, failed calls or not, or the *)
(* process has lost it in a restart (save_checkpoint, _publish_loop).      *)
CommittedIsPublished ==
    \A r \in Rows : r \in committed \cap tables ~> (r \in published \/ r \notin tables)
=============================================================================
