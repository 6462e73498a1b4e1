---------------------------- MODULE MCBackground ----------------------------
(* Work that survives the process that does it: in some behaviours the     *)
(* synchronization jobs of an inventory source, in the others the          *)
(* checkpoints of a deployment without a database.                         *)
EXTENDS SyncJobs

CONSTANTS Providers, MaxInserts, MaxCrashes
VARIABLES provider, process, tables, uncommitted, dirty, saved, pending, publisher, published, inserts,
          failures, crashes, committed, holder, recovering, abandoned
VARIABLE subject   \* what this behaviour is about: "jobs" or "storage"

CONSTANTS Subjects, MaxFailures

Storage == INSTANCE Checkpoints WITH faults <- failures, MaxFaults <- MaxFailures

storageVars == <<provider, process, tables, uncommitted, dirty, saved, pending, publisher, published,
                 inserts, failures, crashes, committed, holder, recovering, abandoned>>
allVars == <<vars, storageVars, subject>>

MCInit ==
    /\ Init /\ Storage!Init
    /\ subject \in Subjects
    /\ subject = "jobs" => provider = "kubo"

OfJobs(A) == subject = "jobs" /\ A /\ UNCHANGED <<storageVars, subject>>
OfStorage(A) == subject = "storage" /\ A /\ UNCHANGED <<vars, subject>>
Jobs == OfJobs(Next)
Checkpointing == OfStorage(Storage!Next)

MCSpec ==
    /\ MCInit /\ [][Jobs \/ Checkpointing]_allVars
    /\ WF_allVars(OfJobs(SaveCancel))
    /\ \A w \in Workers : WF_allVars(OfJobs(Work(w)))
    /\ WF_allVars(OfStorage(Storage!Saving)) /\ WF_allVars(OfStorage(Storage!Publishing))
    /\ WF_allVars(OfStorage(Storage!Booting)) /\ WF_allVars(OfStorage(Storage!Heartbeat))
    /\ WF_allVars(OfStorage(Storage!EndRequest)) /\ WF_allVars(OfStorage(Storage!Recover))

(* On Kubo no committed row leaves the published checkpoint, and no row    *)
(* gets in that nobody committed, those of a failed pass of the worker     *)
(* excepted: Checkpoints' PublishedGrows.                                  *)
PublishedGrows == Storage!PublishedGrows

(* What was committed is published in the end: Checkpoints'                *)
(* CommittedIsPublished.                                                   *)
CommittedIsPublished == Storage!CommittedIsPublished

(* A checkpoint that cannot be restored is not replaced: Checkpoints'      *)
(* PointerIsPreserved.                                                     *)
PointerIsPreserved == Storage!PointerIsPreserved
=============================================================================
