---------------------------- MODULE ApiRequests ----------------------------
(***************************************************************************)
(* What every mutating API request goes through: the rate limit of its     *)
(* client, the idempotency key (or the external id of a monitoring event), *)
(* the allocation of a record number, the audit row chained to the tenant's*)
(* last one, and a single commit whose unique constraints may refuse it.   *)
(* Several gunicorn workers run these steps at the same time.              *)
(***************************************************************************)
EXTENDS Integers, FiniteSets, Sequences, SequencesExt

CONSTANTS
    Requests,    \* requests as the server receives them, resent ones included
    Keys,        \* idempotency keys and external ids of monitoring events
    Keyings,     \* the ways in which clients give keys to their requests
    BodyOf,      \* what it asks for
    KindOf,      \* "create", "update" or "monitor"
    NumbersOf,   \* the kinds of numbers a request of a kind allocates, in order
    NumberKinds, \* the kinds of record numbers
    RateLimit,   \* API_RATE_LIMIT_PER_MINUTE
    MaxRows,     \* bound: audit rows of one request
    MaxMinutes   \* bound: rate windows

Kinds == {"create", "update", "monitor"}

ASSUME ApiRequestsAssumption ==
    /\ IsFiniteSet(Requests) /\ Requests \subseteq Nat \ {0}
    /\ Keyings \subseteq [Requests -> Keys] /\ KindOf \in [Requests -> Kinds]
    /\ NumbersOf \in [Kinds -> Seq(NumberKinds)]
    /\ \A k \in Kinds : \A i, j \in DOMAIN NumbersOf[k] : NumbersOf[k][i] = NumbersOf[k][j] => i = j
    /\ \A k \in Keyings, r, q \in Requests : k[r] = k[q] => (KindOf[r] = "monitor" <=> KindOf[q] = "monitor")
    /\ RateLimit \in Nat /\ MaxRows \in Nat \ {0} /\ MaxMinutes \in Nat

VARIABLES
    key,         \* the key of each request
    pc,          \* where each request stands
    used,        \* requests counted in the current window
    minute,      \* the current window
    stored,      \* the idempotency records and monitoring events, by key
    numbers,     \* the committed record numbers of each kind
    number,      \* the numbers each request has allocated
    rows,        \* the committed audit rows
    pending,     \* the audit rows in each request's session
    nextId,      \* the sequence behind Audit.id
    holds,       \* the locks each request's transaction holds
    answer       \* the request whose outcome each request was answered with

vars == <<key, pc, used, minute, stored, numbers, number, rows, pending, nextId, holds, answer>>

None == 0
Ended == {"throttled", "conflict", "replayed", "done", "failed"}

Init ==
    /\ key \in Keyings
    /\ pc = [r \in Requests |-> "received"]
    /\ used = 0
    /\ minute = 0
    /\ stored = [k \in Keys |-> None]
    /\ numbers = [k \in NumberKinds |-> {}]
    /\ number = [r \in Requests |-> <<>>]
    /\ rows = {}
    /\ pending = [r \in Requests |-> <<>>]
    /\ nextId = 1
    /\ holds = [r \in Requests |-> {}]
    /\ answer = [r \in Requests |-> None]

MayTake(r, lock) == \A q \in Requests \ {r} : lock \notin holds[q]

\* A transaction ends: its advisory locks and row locks go with it.
EndTransactionLeaking(r) == holds' = [holds EXCEPT ![r] = @ \ {"audit", "source"}]
EndTransaction(r) == holds' = [holds EXCEPT ![r] = {}]

\* authenticate_api_request and enforce_api_rate_limit: a transaction of its
\* own, under the lock of the window's row.
Admit(r) ==
    /\ pc[r] = "received" /\ KindOf[r] # "monitor"
    /\ used' = used + 1
    /\ pc' = [pc EXCEPT ![r] = IF used' > RateLimit THEN "throttled" ELSE "admitted"]
    /\ UNCHANGED <<key, minute, stored, numbers, number, rows, pending, nextId, holds, answer>>

\* api_idempotency_context: an earlier answer is replayed, a key used for
\* something else is refused.
CheckKey(r) ==
    /\ pc[r] = "admitted"
    /\ pc' = [pc EXCEPT ![r] = IF stored[key[r]] = None THEN "working"
                               ELSE IF BodyOf[stored[key[r]]] # BodyOf[r] THEN "conflict"
                               ELSE "replayed"]
    /\ answer' = [answer EXCEPT ![r] = IF pc'[r] = "replayed" THEN stored[key[r]] ELSE None]
    /\ UNCHANGED <<key, used, minute, stored, numbers, number, rows, pending, nextId, holds>>

\* monitoring_ingest: the same question under the lock of the source, asked of
\* the external id alone.
CheckEvent(r) ==
    /\ pc[r] = "received" /\ KindOf[r] = "monitor" /\ MayTake(r, "source")
    /\ IF stored[key[r]] = None
       THEN /\ pc' = [pc EXCEPT ![r] = "working"]
            /\ holds' = [holds EXCEPT ![r] = @ \cup {"source"}]
            /\ UNCHANGED answer
       ELSE /\ pc' = [pc EXCEPT ![r] = "replayed"]
            /\ answer' = [answer EXCEPT ![r] = stored[key[r]]]
            /\ UNCHANGED holds
    /\ UNCHANGED <<key, used, minute, stored, numbers, number, rows, pending, nextId>>

\* next_number: the highest committed number plus one, read under the advisory
\* lock of the kind, which is kept until the transaction ends.
NextNumber(kind) == Cardinality(numbers[kind]) + 1

\* The plausible mistake: the lock is released after the number is read.
NumberLockBriefly(kind) == {}
NumberLock(kind) == {kind}

Needs(r) == NumbersOf[KindOf[r]]

AllocateNumber(r) ==
    /\ pc[r] = "working" /\ Len(number[r]) < Len(Needs(r))
    /\ LET kind == Needs(r)[Len(number[r]) + 1] IN
           /\ MayTake(r, kind)
           /\ holds' = [holds EXCEPT ![r] = @ \cup NumberLock(kind)]
           /\ number' = [number EXCEPT ![r] = Append(@, NextNumber(kind))]
    /\ UNCHANGED <<key, pc, used, minute, stored, numbers, rows, pending, nextId, answer>>

LastCommitted == IF rows = {} THEN 0 ELSE CHOOSE i \in {x.id : x \in rows} : \A x \in rows : x.id <= i

\* The plausible mistake: no advisory lock around the last hash.
AuditLockNone == {}
AuditLock == {"audit"}

\* audit(): under the tenant's advisory lock, chained to the last row of the
\* session or else to the last committed one.
Audit(r) ==
    /\ pc[r] = "working" /\ Len(number[r]) = Len(Needs(r))
    /\ Len(pending[r]) < MaxRows
    /\ \A lock \in AuditLock : MayTake(r, lock)
    /\ holds' = [holds EXCEPT ![r] = @ \cup AuditLock]
    /\ pending' = [pending EXCEPT ![r] =
                     Append(@, [id |-> nextId, prev |-> IF @ = <<>> THEN LastCommitted ELSE Last(@).id])]
    /\ nextId' = nextId + 1
    /\ UNCHANGED <<key, pc, used, minute, stored, numbers, number, rows, answer>>

\* The transaction is rolled back: nothing of it remains but the ids it drew.
RollBack(r) ==
    /\ pc' = [pc EXCEPT ![r] = "failed"]
    /\ number' = [number EXCEPT ![r] = <<>>]
    /\ pending' = [pending EXCEPT ![r] = <<>>]
    /\ EndTransaction(r)
    /\ UNCHANGED <<key, used, minute, stored, numbers, rows, nextId, answer>>

Collides(r) == \E i \in DOMAIN number[r] : number[r][i] \in numbers[Needs(r)[i]]

\* The unique constraint on the key, and the one on each number.
\* The plausible mistake: the stored answer is not unique per client and key.
ViolatesUniqueNumber(r) == Collides(r)
ViolatesUnique(r) == stored[key[r]] # None \/ Collides(r)

\* store_api_idempotency and the commit.
Commit(r) ==
    /\ pc[r] = "working" /\ pending[r] # <<>>
    /\ IF ViolatesUnique(r) THEN RollBack(r)
       ELSE /\ pc' = [pc EXCEPT ![r] = "done"]
            /\ stored' = [stored EXCEPT ![key[r]] = r]
            /\ numbers' = [k \in NumberKinds |-> numbers[k] \cup
                             {number[r][i] : i \in {j \in DOMAIN number[r] : Needs(r)[j] = k}}]
            /\ rows' = rows \cup ToSet(pending[r])
            /\ answer' = [answer EXCEPT ![r] = r]
            /\ EndTransaction(r)
            /\ UNCHANGED <<key, used, minute, number, pending, nextId>>

\* The request is refused by a check of its own, raises, or its worker dies.
Abort(r) == pc[r] \in {"admitted", "working"} /\ RollBack(r)

NextMinute ==
    /\ minute < MaxMinutes
    /\ minute' = minute + 1 /\ used' = 0
    /\ UNCHANGED <<key, pc, stored, numbers, number, rows, pending, nextId, holds, answer>>

Step(r) == Admit(r) \/ CheckKey(r) \/ CheckEvent(r) \/ AllocateNumber(r) \/ Audit(r) \/ Commit(r)

Next == NextMinute \/ \E r \in Requests : Step(r) \/ Abort(r)

Spec == Init /\ [][Next]_vars

\* A worker goes on with the request it serves.
FairSpec == Spec /\ \A r \in Requests : WF_vars(Step(r))

-----------------------------------------------------------------------------
\* The rows in the order of their ids, as verify_audit_chain walks them: the
\* k-th is the one with k - 1 rows before it.
ById(R) ==
    [k \in 1 .. Cardinality(R) |-> CHOOSE x \in R : Cardinality({y \in R : y.id < x.id}) = k - 1]
AuditRows == ById(rows)

Trail == INSTANCE AuditLog WITH log <- AuditRows

(* The rows implement the append-only log: a commit adds its rows at the   *)
(* end and the chain of hashes is never forked, whoever writes at the same *)
(* time, fails or is resent.                                               *)
TrailIsAppendOnly == Trail!Spec

(* Resending a request is safe: what a key (or an external id) asked for   *)
(* is carried out once, and everybody who is answered is answered with     *)
(* that outcome, also when two copies run at the same time.                *)
OncePerKey ==
    \A r, q \in Requests :
        key[r] = key[q] /\ answer[r] # None /\ answer[q] # None =>
            /\ answer[r] = answer[q]
            /\ pc[r] = "done" /\ pc[q] = "done" => r = q

(* Numbers of a kind are 1, 2, 3 ... without a gap and no creation ever    *)
(* meets a number that is taken: failed requests give theirs back because  *)
(* the lock is held until the end of the transaction.                      *)
NumbersConsecutive ==
    /\ \A k \in NumberKinds : numbers[k] = 1..Cardinality(numbers[k])
    /\ \A r \in Requests : pc[r] = "working" => ~Collides(r)

(* Every request comes to an end: the advisory locks, the lock of the      *)
(* source and the constraints never leave requests waiting for each other. *)
EveryRequestEnds == \A r \in Requests : <>(pc[r] \in Ended)
=============================================================================
