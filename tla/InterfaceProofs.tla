-------------------------- MODULE InterfaceProofs --------------------------
(***************************************************************************)
(* Proofs about ApiRequests, for any number of requests, keys and kinds of *)
(* numbers and every bound: resending is safe, record numbers have no gaps *)
(* and the audit rows implement the append-only log.  And about SignIn,    *)
(* for any number of requests, backup codes and challenges: what may be    *)
(* used once is, and the sessions of older credentials end.                *)
(***************************************************************************)
EXTENDS MCInterfaces, FiniteSetTheorems, TLAPS

Entry == [id : Nat \ {0}, prev : Nat]
Open == {"received", "admitted", "working"}

-----------------------------------------------------------------------------
(* Idempotency keys                                                        *)

\* A stored answer is the one of a request of that key that was carried out,
\* and whoever has an answer has the one that is stored.
AnswersMatch ==
    /\ \A k \in Keys : stored[k] # None => pc[stored[k]] = "done" /\ key[stored[k]] = k
    /\ \A r \in Requests : answer[r] # None => stored[key[r]] = answer[r]
    /\ \A r \in Requests : pc[r] = "done" => answer[r] = r

\* A request that has not ended has no answer.
OpenIsUnanswered == \A r \in Requests : pc[r] \in Open => answer[r] = None

KeyTypeOK ==
    /\ key \in [Requests -> Keys]
    /\ pc \in [Requests -> Ended \cup Open]
    /\ stored \in [Keys -> Requests \cup {None}]
    /\ answer \in [Requests -> Requests \cup {None}]

KeyInv == KeyTypeOK /\ AnswersMatch /\ OpenIsUnanswered

LEMMA KeyInit == Init => KeyInv
  <1> SUFFICES ASSUME Init PROVE KeyInv
    OBVIOUS
  <1>1. KeyTypeOK
    BY ApiRequestsAssumption DEF Init, KeyTypeOK, Open, Ended, None
  <1>2. AnswersMatch /\ OpenIsUnanswered
    BY ApiRequestsAssumption DEF Init, AnswersMatch, OpenIsUnanswered
  <1> QED
    BY <1>1, <1>2 DEF KeyInv

\* A rolled-back request leaves keys and answers as they are.
LEMMA KeyRollBack ==
    ASSUME KeyInv, NEW r \in Requests, RollBack(r), pc[r] \in Open
    PROVE  KeyInv'
  BY ApiRequestsAssumption DEF KeyInv, KeyTypeOK, AnswersMatch, OpenIsUnanswered, RollBack, Ended, Open, None

LEMMA KeyNext == KeyInv /\ [Next]_vars => KeyInv'
  <1> SUFFICES ASSUME KeyInv, [Next]_vars PROVE KeyInv'
    OBVIOUS
  <1> USE DEF KeyInv, KeyTypeOK, AnswersMatch, OpenIsUnanswered, Ended, Open
  <1>0. Requests \subseteq Nat \ {0} /\ None = 0
    BY ApiRequestsAssumption DEF None
  <1>1. CASE UNCHANGED vars
    BY <1>1 DEF vars
  <1>2. CASE NextMinute
    BY <1>2 DEF NextMinute
  <1>3. ASSUME NEW r \in Requests, Admit(r) PROVE KeyInv'
    BY <1>0, <1>3 DEF Admit
  <1>4. ASSUME NEW r \in Requests, CheckKey(r) PROVE KeyInv'
    BY <1>0, <1>4 DEF CheckKey
  <1>5. ASSUME NEW r \in Requests, CheckEvent(r) PROVE KeyInv'
    <2>1. pc[r] = "received" /\ UNCHANGED <<key, stored>>
      BY <1>5 DEF CheckEvent
    <2>2. CASE stored[key[r]] = None
      <3>1. pc' = [pc EXCEPT ![r] = "working"] /\ UNCHANGED answer
        BY <1>5, <2>2 DEF CheckEvent
      <3> QED
        BY <1>0, <2>1, <3>1
    <2>3. CASE stored[key[r]] # None
      <3>1. pc' = [pc EXCEPT ![r] = "replayed"] /\ answer' = [answer EXCEPT ![r] = stored[key[r]]]
        BY <1>5, <2>3 DEF CheckEvent
      <3> QED
        BY <1>0, <2>1, <2>3, <3>1
    <2> QED
      BY <2>2, <2>3
  <1>6. ASSUME NEW r \in Requests, AllocateNumber(r) PROVE KeyInv'
    BY <1>6 DEF AllocateNumber
  <1>7. ASSUME NEW r \in Requests, Audit(r) PROVE KeyInv'
    BY <1>7 DEF Audit
  <1>8. ASSUME NEW r \in Requests, Commit(r) PROVE KeyInv'
    <2>1. CASE ViolatesUnique(r)
      BY <1>8, <2>1, KeyRollBack DEF Commit
    <2>2. CASE ~ViolatesUnique(r)
      <3>1. /\ pc[r] = "working" /\ stored[key[r]] = None /\ key' = key
            /\ pc' = [pc EXCEPT ![r] = "done"]
            /\ stored' = [stored EXCEPT ![key[r]] = r]
            /\ answer' = [answer EXCEPT ![r] = r]
        BY <1>8, <2>2 DEF Commit, ViolatesUnique
      <3>2. key[r] \in Keys /\ r # None /\ answer[r] = None
        BY <1>0, <3>1
      <3>3. KeyTypeOK'
        BY <3>1, <3>2
      <3>4. /\ pc'[r] = "done" /\ answer'[r] = r /\ stored'[key[r]] = r
            /\ \A q \in Requests \ {r} : pc'[q] = pc[q] /\ answer'[q] = answer[q]
            /\ \A k \in Keys \ {key[r]} : stored'[k] = stored[k]
        BY <3>1, <3>2
      <3>5. \A q \in Requests : key[q] = key[r] => answer[q] = None
        BY <3>1
      <3>6. \A k \in Keys : stored[k] # None => stored[k] # r
        BY <3>1
      <3>7. AnswersMatch'
        BY <1>0, <3>1, <3>2, <3>4, <3>5, <3>6
      <3> QED
        BY <3>1, <3>3, <3>4, <3>7
    <2> QED
      BY <2>1, <2>2
  <1>9. ASSUME NEW r \in Requests, Abort(r) PROVE KeyInv'
    BY <1>9, KeyRollBack DEF Abort
  <1> QED
    BY <1>1, <1>2, <1>3, <1>4, <1>5, <1>6, <1>7, <1>8, <1>9 DEF Next, Step

(* Resending a request is safe: what a key or an external id asked for is  *)
(* carried out once, and everybody who is answered is answered with that   *)
(* outcome, for any number of requests and of workers that serve them.     *)
THEOREM OneOutcomePerKey == Spec => []OncePerKey
  <1>1. KeyInv => OncePerKey
    BY DEF KeyInv, KeyTypeOK, AnswersMatch, OncePerKey
  <1> QED
    BY <1>1, KeyInit, KeyNext, PTL DEF Spec

-----------------------------------------------------------------------------
(* Record numbers                                                          *)

NumberTypeOK ==
    /\ pc \in [Requests -> Ended \cup Open]
    /\ number \in [Requests -> Seq(Nat)]
    /\ DOMAIN numbers = NumberKinds
    /\ DOMAIN holds = Requests

NoGaps == \A k \in NumberKinds : \E n \in Nat : numbers[k] = 1 .. n

\* A lock belongs to one transaction.
LocksExclude == \A r, q \in Requests : \A lock \in holds[r] : lock \in holds[q] => r = q

\* What a request has allocated is still the next number of its kind, and the
\* lock of the kind is still held.
AllocatedIsNext ==
    \A r \in Requests :
        /\ pc[r] \in {"received", "admitted"} => number[r] = <<>>
        /\ pc[r] = "working" =>
              /\ Len(number[r]) <= Len(Needs(r))
              /\ \A i \in 1 .. Len(number[r]) :
                    Needs(r)[i] \in holds[r] /\ number[r][i] = NextNumber(Needs(r)[i])

NumberInv == NumberTypeOK /\ NoGaps /\ LocksExclude /\ AllocatedIsNext

LEMMA NeedsTyped ==
    ASSUME NEW r \in Requests
    PROVE  Needs(r) \in Seq(NumberKinds)
  <1>1. KindOf[r] \in Kinds
    BY ApiRequestsAssumption
  <1> QED
    BY <1>1, ApiRequestsAssumption DEF Needs

LEMMA UpToCardinality ==
    ASSUME NEW n \in Nat
    PROVE  Cardinality(1 .. n) = n
  BY FS_Interval

\* The next number is one more than the last and is not taken.
LEMMA NextIsFree ==
    ASSUME NEW k \in NumberKinds, NEW n \in Nat, numbers[k] = 1 .. n
    PROVE  NextNumber(k) = n + 1 /\ NextNumber(k) \notin numbers[k] /\ NextNumber(k) \in Nat
  BY UpToCardinality DEF NextNumber

LEMMA NumberInit == Init => NumberInv
  <1> SUFFICES ASSUME Init PROVE NumberInv
    OBVIOUS
  <1>1. NumberTypeOK
    BY DEF Init, NumberTypeOK, Open, Ended
  <1>2. NoGaps
    <2>1. 1 .. 0 = {} /\ 0 \in Nat
      OBVIOUS
    <2> QED
      BY <2>1 DEF Init, NoGaps
  <1>3. LocksExclude
    BY DEF Init, LocksExclude
  <1>4. AllocatedIsNext
    BY DEF Init, AllocatedIsNext
  <1> QED
    BY <1>1, <1>2, <1>3, <1>4 DEF NumberInv

\* Steps that change none of the numbers, and no lock.
LEMMA NumberAside ==
    ASSUME NumberInv, NEW r \in Requests, NEW x \in Ended \cup Open,
           pc' = [pc EXCEPT ![r] = x], pc[r] # "working",
           x = "admitted" => pc[r] = "received",
           x = "working" => number[r] = <<>>,
           x # "received",
           UNCHANGED <<numbers, number>>,
           DOMAIN holds' = Requests,
           \A q \in Requests : holds[q] \subseteq holds'[q],
           LocksExclude'
    PROVE  NumberInv'
  <1>1. NumberTypeOK'
    BY DEF NumberInv, NumberTypeOK
  <1>2. NoGaps'
    BY DEF NumberInv, NoGaps
  <1>3. AllocatedIsNext'
    <2> SUFFICES ASSUME NEW q \in Requests
                 PROVE  /\ pc'[q] \in {"received", "admitted"} => number[q] = <<>>
                        /\ pc'[q] = "working" =>
                              /\ Len(number[q]) <= Len(Needs(q))
                              /\ \A i \in 1 .. Len(number[q]) :
                                    Needs(q)[i] \in holds'[q] /\ number[q][i] = NextNumber(Needs(q)[i])
      BY DEF AllocatedIsNext, NextNumber, Needs
    <2>1. CASE q # r
      BY <2>1 DEF NumberInv, NumberTypeOK, AllocatedIsNext
    <2>2. CASE q = r
      <3>1. pc'[r] = x
        BY DEF NumberInv, NumberTypeOK
      <3>2. x \in {"received", "admitted"} => number[r] = <<>>
        BY DEF NumberInv, AllocatedIsNext
      <3>3. x = "working" => Len(number[r]) = 0 /\ Len(Needs(r)) \in Nat
        BY NeedsTyped
      <3> QED
        BY <2>2, <3>1, <3>2, <3>3
    <2> QED
      BY <2>1, <2>2
  <1> QED
    BY <1>1, <1>2, <1>3 DEF NumberInv

LEMMA NumberRollBack ==
    ASSUME NumberInv, NEW r \in Requests, RollBack(r)
    PROVE  NumberInv'
  <1>1. NumberTypeOK'
    BY DEF NumberInv, NumberTypeOK, RollBack, EndTransaction, Ended
  <1>2. NoGaps'
    BY DEF NumberInv, NoGaps, RollBack
  <1>3. LocksExclude'
    BY DEF NumberInv, NumberTypeOK, LocksExclude, RollBack, EndTransaction
  <1>4. AllocatedIsNext'
    BY DEF NumberInv, NumberTypeOK, AllocatedIsNext, RollBack, EndTransaction, NextNumber, Needs
  <1> QED
    BY <1>1, <1>2, <1>3, <1>4 DEF NumberInv

LEMMA NumberAllocate ==
    ASSUME NumberInv, NEW r \in Requests, AllocateNumber(r)
    PROVE  NumberInv'
  <1> DEFINE n == Len(number[r])
             kind == Needs(r)[n + 1]
  <1>1. /\ pc[r] = "working" /\ n \in Nat /\ n < Len(Needs(r))
        /\ MayTake(r, kind) /\ kind \in NumberKinds
        /\ holds' = [holds EXCEPT ![r] = @ \cup {kind}]
        /\ number' = [number EXCEPT ![r] = Append(@, NextNumber(kind))]
        /\ UNCHANGED <<pc, numbers>>
    BY NeedsTyped DEF AllocateNumber, NumberInv, NumberTypeOK, NumberLock
  <1>2. NextNumber(kind) \in Nat
    BY <1>1, NextIsFree DEF NumberInv, NoGaps
  <1>3. NumberTypeOK'
    BY <1>1, <1>2 DEF NumberInv, NumberTypeOK
  <1>4. NoGaps'
    BY <1>1 DEF NumberInv, NoGaps
  <1>5. LocksExclude'
    BY <1>1 DEF NumberInv, NumberTypeOK, LocksExclude, MayTake
  <1>6. AllocatedIsNext'
    <2>1. \A k : NextNumber(k)' = NextNumber(k)
      BY <1>1 DEF NextNumber
    <2>2. ASSUME NEW q \in Requests, q # r
          PROVE  number'[q] = number[q] /\ holds'[q] = holds[q]
      BY <1>1, <2>2 DEF NumberInv, NumberTypeOK
    <2>3. /\ Len(number'[r]) = n + 1 /\ number'[r][n + 1] = NextNumber(kind)
          /\ \A i \in 1 .. n : number'[r][i] = number[r][i]
          /\ holds'[r] = holds[r] \cup {kind}
      BY <1>1, <1>2 DEF NumberInv, NumberTypeOK
    <2>4. ASSUME NEW i \in 1 .. n + 1
          PROVE  Needs(r)[i] \in holds'[r] /\ number'[r][i] = NextNumber(Needs(r)[i])
      <3>1. CASE i = n + 1
        BY <2>3, <3>1
      <3>2. CASE i \in 1 .. n
        BY <1>1, <2>3, <3>2 DEF NumberInv, AllocatedIsNext
      <3> QED
        BY <1>1, <3>1, <3>2
    <2>5. Len(number'[r]) <= Len(Needs(r))
      BY <1>1, <2>3, NeedsTyped
    <2> HIDE DEF n, kind
    <2>6. \A q \in Requests : Needs(q)' = Needs(q)
      BY DEF Needs
    <2>7. ASSUME NEW q \in Requests
          PROVE  /\ pc'[q] \in {"received", "admitted"} => number'[q] = <<>>
                 /\ pc'[q] = "working" =>
                       /\ Len(number'[q]) <= Len(Needs(q))
                       /\ \A i \in 1 .. Len(number'[q]) :
                             Needs(q)[i] \in holds'[q] /\ number'[q][i] = NextNumber(Needs(q)[i])
      <3>1. CASE q = r
        BY <1>1, <2>3, <2>4, <2>5, <3>1
      <3>2. CASE q # r
        BY <1>1, <2>2, <3>2 DEF NumberInv, AllocatedIsNext
      <3> QED
        BY <3>1, <3>2
    <2> QED
      BY <2>1, <2>6, <2>7 DEF AllocatedIsNext
  <1> QED
    BY <1>3, <1>4, <1>5, <1>6 DEF NumberInv

LEMMA NumberAudit ==
    ASSUME NumberInv, NEW r \in Requests, Audit(r)
    PROVE  NumberInv'
  <1>1. /\ MayTake(r, "audit") /\ holds' = [holds EXCEPT ![r] = @ \cup {"audit"}]
        /\ UNCHANGED <<pc, numbers, number>>
    BY DEF Audit, AuditLock
  <1>2. NumberTypeOK'
    BY <1>1 DEF NumberInv, NumberTypeOK
  <1>3. NoGaps'
    BY <1>1 DEF NumberInv, NoGaps
  <1>4. LocksExclude'
    BY <1>1 DEF NumberInv, NumberTypeOK, LocksExclude, MayTake
  <1>5. AllocatedIsNext'
    <2>1. \A q \in Requests : holds[q] \subseteq holds'[q]
      BY <1>1 DEF NumberInv, NumberTypeOK
    <2> QED
      BY <1>1, <2>1 DEF NumberInv, AllocatedIsNext, NextNumber, Needs
  <1> QED
    BY <1>2, <1>3, <1>4, <1>5 DEF NumberInv

\* A commit adds the next number of each kind the request needed, and leaves
\* the other kinds as they are.
LEMMA NumberCommit ==
    ASSUME NumberInv, NEW r \in Requests, Commit(r), ~ViolatesUnique(r)
    PROVE  NumberInv'
  <1> DEFINE Added(k) == {number[r][i] : i \in {j \in DOMAIN number[r] : Needs(r)[j] = k}}
  <1>1. /\ pc[r] = "working" /\ pc' = [pc EXCEPT ![r] = "done"]
        /\ numbers' = [k \in NumberKinds |-> numbers[k] \cup Added(k)]
        /\ holds' = [holds EXCEPT ![r] = {}]
        /\ UNCHANGED number
    BY DEF Commit, EndTransaction
  <1>2. /\ Len(number[r]) \in Nat /\ DOMAIN number[r] = 1 .. Len(number[r])
        /\ Len(number[r]) <= Len(Needs(r)) /\ Len(Needs(r)) \in Nat
        /\ \A i \in 1 .. Len(number[r]) : Needs(r)[i] \in holds[r] /\ number[r][i] = NextNumber(Needs(r)[i])
    BY <1>1, NeedsTyped DEF NumberInv, NumberTypeOK, AllocatedIsNext
  <1>3. ASSUME NEW k \in NumberKinds
        PROVE  Added(k) = {} \/ (Added(k) = {NextNumber(k)} /\ k \in holds[r])
    <2>1. \A x \in Added(k) : x = NextNumber(k) /\ k \in holds[r]
      BY <1>2
    <2> HIDE DEF Added
    <2> QED
      BY <2>1
  <1>4. NumberTypeOK'
    BY <1>1 DEF NumberInv, NumberTypeOK, Ended
  <1>5. NoGaps'
    <2> SUFFICES ASSUME NEW k \in NumberKinds
                 PROVE  \E n \in Nat : numbers'[k] = 1 .. n
      BY DEF NoGaps
    <2>1. PICK n \in Nat : numbers[k] = 1 .. n
      BY DEF NumberInv, NoGaps
    <2>2. NextNumber(k) = n + 1
      BY <2>1, NextIsFree
    <2>3. numbers'[k] = numbers[k] \/ numbers'[k] = numbers[k] \cup {n + 1}
      BY <1>1, <1>3, <2>2
    <2>4. (1 .. n) \cup {n + 1} = 1 .. n + 1 /\ n + 1 \in Nat
      OBVIOUS
    <2> QED
      BY <2>1, <2>3, <2>4
  <1>6. LocksExclude'
    BY <1>1 DEF NumberInv, NumberTypeOK, LocksExclude
  <1>7. AllocatedIsNext'
    <2>1. ASSUME NEW q \in Requests, q # r, pc[q] = "working", NEW i \in 1 .. Len(number[q])
          PROVE  NextNumber(Needs(q)[i])' = NextNumber(Needs(q)[i])
      <3>1. Needs(q)[i] \in holds[q] /\ Needs(q)[i] \in NumberKinds
        BY <2>1, NeedsTyped DEF NumberInv, NumberTypeOK, AllocatedIsNext
      <3>2. Needs(q)[i] \notin holds[r]
        BY <2>1, <3>1 DEF NumberInv, LocksExclude
      <3>3. numbers'[Needs(q)[i]] = numbers[Needs(q)[i]]
        BY <1>1, <1>3, <3>1, <3>2
      <3> QED
        BY <3>3 DEF NextNumber, Needs
    <2>2. ASSUME NEW q \in Requests, q # r
          PROVE  pc'[q] = pc[q] /\ holds'[q] = holds[q] /\ number'[q] = number[q]
      BY <1>1, <2>2 DEF NumberInv, NumberTypeOK
    <2>3. pc'[r] = "done"
      BY <1>1 DEF NumberInv, NumberTypeOK
    <2>4. \A q \in Requests : Needs(q)' = Needs(q)
      BY DEF Needs
    <2>5. ASSUME NEW q \in Requests
          PROVE  /\ pc'[q] \in {"received", "admitted"} => number'[q] = <<>>
                 /\ pc'[q] = "working" =>
                       /\ Len(number'[q]) <= Len(Needs(q))
                       /\ \A i \in 1 .. Len(number'[q]) :
                             Needs(q)[i] \in holds'[q] /\ number'[q][i] = NextNumber(Needs(q)[i])'
      <3>1. CASE q = r
        BY <2>3, <3>1
      <3>2. CASE q # r
        BY <2>1, <2>2, <3>2 DEF NumberInv, AllocatedIsNext
      <3> QED
        BY <3>1, <3>2
    <2> QED
      BY <2>4, <2>5 DEF AllocatedIsNext
  <1> QED
    BY <1>4, <1>5, <1>6, <1>7 DEF NumberInv

LEMMA NumberNext == NumberInv /\ [Next]_vars => NumberInv'
  <1> SUFFICES ASSUME NumberInv, [Next]_vars PROVE NumberInv'
    OBVIOUS
  <1>1. CASE UNCHANGED vars \/ NextMinute
    <2>1. UNCHANGED <<pc, numbers, number, holds>>
      BY <1>1 DEF vars, NextMinute
    <2> QED
      BY <2>1 DEF NumberInv, NumberTypeOK, NoGaps, LocksExclude, AllocatedIsNext, NextNumber, Needs
  <1>2. ASSUME NEW r \in Requests, Admit(r) \/ CheckKey(r) \/ CheckEvent(r) PROVE NumberInv'
    <2>1. PICK x \in Ended \cup Open :
             /\ pc' = [pc EXCEPT ![r] = x] /\ x # "received"
             /\ x = "admitted" => pc[r] = "received"
             /\ pc[r] \in {"received", "admitted"}
      <3>1. CASE Admit(r)
        BY <3>1 DEF Admit, Ended, Open
      <3>2. CASE CheckKey(r)
        <4> DEFINE x == IF stored[key[r]] = None THEN "working"
                        ELSE IF BodyOf[stored[key[r]]] # BodyOf[r] THEN "conflict" ELSE "replayed"
        <4>1. x \in Ended \cup Open /\ x # "received" /\ x # "admitted"
          BY DEF Ended, Open
        <4>2. pc' = [pc EXCEPT ![r] = x] /\ pc[r] = "admitted"
          BY <3>2 DEF CheckKey
        <4> QED
          BY <4>1, <4>2
      <3>3. CASE CheckEvent(r)
        BY <3>3 DEF CheckEvent, Ended, Open
      <3> QED
        BY <1>2, <3>1, <3>2, <3>3
    <2>2. UNCHANGED <<numbers, number>> /\ number[r] = <<>>
      BY <1>2, <2>1 DEF Admit, CheckKey, CheckEvent, NumberInv, AllocatedIsNext
    <2>3. holds' = holds \/ (MayTake(r, "source") /\ holds' = [holds EXCEPT ![r] = @ \cup {"source"}])
      BY <1>2 DEF Admit, CheckKey, CheckEvent
    <2>4. DOMAIN holds' = Requests /\ \A q \in Requests : holds[q] \subseteq holds'[q]
      BY <2>3 DEF NumberInv, NumberTypeOK
    <2>5. LocksExclude'
      <3>1. CASE holds' = holds
        BY <3>1 DEF NumberInv, LocksExclude
      <3>2. CASE MayTake(r, "source") /\ holds' = [holds EXCEPT ![r] = @ \cup {"source"}]
        BY <3>2 DEF NumberInv, NumberTypeOK, LocksExclude, MayTake
      <3> QED
        BY <2>3, <3>1, <3>2
    <2>6. pc[r] # "working"
      BY <2>1
    <2> QED
      BY <2>1, <2>2, <2>4, <2>5, <2>6, NumberAside
  <1>3. ASSUME NEW r \in Requests, AllocateNumber(r) PROVE NumberInv'
    BY <1>3, NumberAllocate
  <1>4. ASSUME NEW r \in Requests, Audit(r) PROVE NumberInv'
    BY <1>4, NumberAudit
  <1>5. ASSUME NEW r \in Requests, Commit(r) PROVE NumberInv'
    <2>1. CASE ViolatesUnique(r)
      BY <1>5, <2>1, NumberRollBack DEF Commit
    <2> QED
      BY <1>5, <2>1, NumberCommit
  <1>6. ASSUME NEW r \in Requests, Abort(r) PROVE NumberInv'
    BY <1>6, NumberRollBack DEF Abort
  <1> QED
    BY <1>1, <1>2, <1>3, <1>4, <1>5, <1>6 DEF Next, Step

(* Record numbers of every kind are 1, 2, 3 ... without a gap, and no      *)
(* request under way has allocated a number that is taken, whichever       *)
(* requests fail, abort or run at the same time.                           *)
THEOREM NumbersHaveNoGaps == Spec => []NumbersConsecutive
  <1>1. NumberInv => NumbersConsecutive
    <2> SUFFICES ASSUME NumberInv PROVE NumbersConsecutive
      OBVIOUS
    <2>1. \A k \in NumberKinds : numbers[k] = 1 .. Cardinality(numbers[k])
      BY UpToCardinality DEF NumberInv, NoGaps
    <2>2. ASSUME NEW r \in Requests, pc[r] = "working", NEW i \in DOMAIN number[r]
          PROVE  number[r][i] \notin numbers[Needs(r)[i]]
      <3>1. i \in 1 .. Len(number[r]) /\ Len(number[r]) \in Nat
        BY <2>2 DEF NumberInv, NumberTypeOK
      <3>2. number[r][i] = NextNumber(Needs(r)[i]) /\ Needs(r)[i] \in NumberKinds
        BY <2>2, <3>1, NeedsTyped DEF NumberInv, AllocatedIsNext
      <3> QED
        BY <3>2, NextIsFree DEF NumberInv, NoGaps
    <2> QED
      BY <2>1, <2>2 DEF NumbersConsecutive, Collides
  <1> QED
    BY <1>1, NumberInit, NumberNext, PTL DEF Spec

-----------------------------------------------------------------------------
(* The audit trail                                                         *)

InOrder(s) == \A i, j \in 1 .. Len(s) : i < j => s[i].id < s[j].id
LastId(s) == IF s = <<>> THEN 0 ELSE s[Len(s)].id

\* s lists the committed rows in the order of their ids, each chained to the
\* one before.
IsTrail(s) ==
    /\ s \in Seq(Entry) /\ rows = ToSet(s) /\ InOrder(s) /\ Trail!Verifies(s)
    /\ \A i \in 1 .. Len(s) : s[i].id < nextId

\* The rows in a session continue the committed ones, as long as the lock of
\* the trail is held.
PendingFollows ==
    \A r \in Requests :
        /\ pc[r] \in {"received", "admitted"} => pending[r] = <<>>
        /\ pc[r] = "working" /\ pending[r] # <<>> =>
              /\ "audit" \in holds[r]
              /\ InOrder(pending[r]) /\ LastCommitted < pending[r][1].id
              /\ \A i \in 1 .. Len(pending[r]) :
                    /\ pending[r][i].prev = IF i = 1 THEN LastCommitted ELSE pending[r][i - 1].id
                    /\ pending[r][i].id < nextId

TrailTypeOK ==
    /\ pc \in [Requests -> Ended \cup Open]
    /\ pending \in [Requests -> Seq(Entry)]
    /\ nextId \in Nat \ {0}
    /\ DOMAIN holds = Requests

TrailInv == TrailTypeOK /\ LocksExclude /\ PendingFollows /\ \E s : IsTrail(s)

LEMMA EntriesTyped ==
    ASSUME NEW s \in Seq(Entry)
    PROVE  /\ Len(s) \in Nat /\ DOMAIN s = 1 .. Len(s)
           /\ \A i \in 1 .. Len(s) : s[i] \in Entry /\ s[i].id \in Nat \ {0} /\ s[i].prev \in Nat
           /\ s # <<>> => Len(s) \in 1 .. Len(s) /\ 1 \in 1 .. Len(s)
           /\ s = [k \in 1 .. Len(s) |-> s[k]]
  <1>1. Len(s) \in Nat /\ DOMAIN s = 1 .. Len(s) /\ \A i \in 1 .. Len(s) : s[i] \in Entry
    OBVIOUS
  <1>2. s # <<>> => Len(s) >= 1
    OBVIOUS
  <1>3. \A x \in Entry : x.id \in Nat \ {0} /\ x.prev \in Nat
    BY DEF Entry
  <1>4. s = [k \in 1 .. Len(s) |-> s[k]]
    OBVIOUS
  <1> QED
    BY <1>1, <1>2, <1>3, <1>4

\* Where the trail ends: what audit() reads as the last hash.
LEMMA LastOfTrail ==
    ASSUME NEW s, IsTrail(s)
    PROVE  LastCommitted = LastId(s) /\ LastCommitted \in Nat
  <1>1. /\ s \in Seq(Entry) /\ rows = {s[i] : i \in 1 .. Len(s)} /\ Len(s) \in Nat
        /\ InOrder(s)
    BY DEF IsTrail, ToSet
  <1>2. CASE s = <<>>
    <2>1. rows = {}
      BY <1>1, <1>2
    <2> QED
      BY <1>2, <2>1 DEF LastCommitted, LastId
  <1>3. CASE s # <<>>
    <2> DEFINE l == s[Len(s)].id
    <2>1. Len(s) \in 1 .. Len(s) /\ s[Len(s)] \in rows /\ l \in Nat
      BY <1>1, <1>3, EntriesTyped
    <2>2. \A i \in 1 .. Len(s) : s[i].id <= l /\ s[i].id \in Nat
      <3> TAKE i \in 1 .. Len(s)
      <3>1. i = Len(s) \/ i < Len(s)
        BY <1>1
      <3> QED
        BY <1>1, <2>1, <3>1, EntriesTyped DEF InOrder
    <2>3. rows # {} /\ l \in {x.id : x \in rows} /\ \A x \in rows : x.id <= l /\ x.id \in Nat
      BY <1>1, <2>1, <2>2
    <2> HIDE DEF l
    <2>4. \A n \in {x.id : x \in rows} : (\A x \in rows : x.id <= n) => n = l
      <3> SUFFICES ASSUME NEW n \in {x.id : x \in rows}, \A x \in rows : x.id <= n
                   PROVE  n = l
        OBVIOUS
      <3>1. n \in Nat /\ n <= l /\ l <= n
        BY <2>3
      <3> QED
        BY <2>1, <3>1
    <2>5. LastCommitted = CHOOSE n \in {x.id : x \in rows} : \A x \in rows : x.id <= n
      BY <2>3 DEF LastCommitted
    <2>6. LastCommitted = l
      BY <2>3, <2>4, <2>5
    <2> QED
      BY <1>3, <2>1, <2>6 DEF LastId, l
  <1> QED
    BY <1>2, <1>3

\* Walking a set of entries by id gives the sequence that lists it in order.
LEMMA ByIdInOrder ==
    ASSUME NEW s \in Seq(Entry), NEW R, R = ToSet(s), InOrder(s)
    PROVE  ById(R) = s
  <1>1. R = {s[i] : i \in 1 .. Len(s)} /\ Len(s) \in Nat /\ DOMAIN s = 1 .. Len(s)
    BY DEF ToSet
  <1>2. \A i, j \in 1 .. Len(s) : (s[i].id < s[j].id <=> i < j) /\ (s[i] = s[j] => i = j)
    <2>1. \A i \in 1 .. Len(s) : s[i].id \in Nat
      BY <1>1, EntriesTyped
    <2> QED
      BY <1>1, <2>1 DEF InOrder
  <1>3. Cardinality(R) = Len(s)
    <2>1. s \in Bijection(1 .. Len(s), R)
      <3>1. s \in [1 .. Len(s) -> R]
        BY <1>1
      <3>2. \A t \in R : \E i \in 1 .. Len(s) : s[i] = t
        BY <1>1
      <3> QED
        BY <1>2, <3>1, <3>2 DEF Bijection, Injection, Surjection, IsInjective
    <2> QED
      BY <1>1, <2>1, FS_CountingElements DEF ExistsBijection
  <1>4. ASSUME NEW k \in 1 .. Len(s)
        PROVE  Cardinality({y \in R : y.id < s[k].id}) = k - 1
    <2> DEFINE B == {y \in R : y.id < s[k].id}
               f == [i \in 1 .. k - 1 |-> s[i]]
    <2>1. k - 1 \in Nat /\ 1 .. k - 1 \subseteq 1 .. Len(s)
      BY <1>1
    <2>2. B = {s[i] : i \in 1 .. k - 1}
      BY <1>1, <1>2
    <2>3. f \in Bijection(1 .. k - 1, B)
      <3>1. f \in [1 .. k - 1 -> B]
        BY <2>2
      <3>2. \A t \in B : \E i \in 1 .. k - 1 : f[i] = t
        BY <2>2
      <3>3. \A i, j \in 1 .. k - 1 : f[i] = f[j] => i = j
        BY <1>2, <2>1
      <3> QED
        BY <3>1, <3>2, <3>3 DEF Bijection, Injection, Surjection, IsInjective
    <2> QED
      BY <2>1, <2>3, FS_CountingElements DEF ExistsBijection
  <1>5. ASSUME NEW k \in 1 .. Len(s)
        PROVE  (CHOOSE x \in R : Cardinality({y \in R : y.id < x.id}) = k - 1) = s[k]
    <2>1. s[k] \in R
      BY <1>1
    <2>2. ASSUME NEW x \in R, Cardinality({y \in R : y.id < x.id}) = k - 1
          PROVE  x = s[k]
      <3>1. PICK i \in 1 .. Len(s) : x = s[i]
        BY <1>1
      <3>2. i - 1 = k - 1
        BY <1>4, <2>2, <3>1
      <3> QED
        BY <1>1, <3>1, <3>2
    <2> QED
      BY <1>4, <2>1, <2>2
  <1>6. s = [k \in 1 .. Len(s) |-> s[k]]
    BY <1>1, EntriesTyped
  <1> QED
    BY <1>3, <1>5, <1>6 DEF ById

LEMMA TrailInit == Init => TrailInv /\ AuditRows = <<>>
  <1> SUFFICES ASSUME Init PROVE TrailInv /\ AuditRows = <<>>
    OBVIOUS
  <1>1. TrailTypeOK
    BY DEF Init, TrailTypeOK, Open, Ended
  <1>2. LocksExclude
    BY DEF Init, LocksExclude
  <1>3. PendingFollows
    BY DEF Init, PendingFollows
  <1>4. IsTrail(<<>>)
    BY DEF Init, IsTrail, ToSet, InOrder, Trail!Verifies
  <1>5. AuditRows = <<>>
    BY <1>4, ByIdInOrder DEF IsTrail, AuditRows
  <1> QED
    BY <1>1, <1>2, <1>3, <1>4, <1>5 DEF TrailInv

\* A step that commits nothing keeps the trail, whatever ids are drawn.
LEMMA TrailKept ==
    ASSUME NEW s, IsTrail(s), rows' = rows, nextId \in Nat, nextId' \in Nat, nextId <= nextId'
    PROVE  IsTrail(s)' /\ LastCommitted' = LastCommitted /\ AuditRows' = AuditRows
  <1>1. \A i \in 1 .. Len(s) : s[i].id < nextId'
    BY EntriesTyped DEF IsTrail
  <1>2. IsTrail(s)'
    BY <1>1 DEF IsTrail, Trail!Verifies
  <1> QED
    BY <1>2 DEF LastCommitted, AuditRows

LEMMA TrailAudit ==
    ASSUME TrailInv, NEW r \in Requests, Audit(r)
    PROVE  TrailInv' /\ AuditRows' = AuditRows
  <1> DEFINE p == pending[r]
             x == [id |-> nextId, prev |-> IF p = <<>> THEN LastCommitted ELSE Last(p).id]
  <1>1. /\ pc[r] = "working" /\ MayTake(r, "audit")
        /\ holds' = [holds EXCEPT ![r] = @ \cup {"audit"}]
        /\ pending' = [pending EXCEPT ![r] = Append(p, x)]
        /\ nextId' = nextId + 1 /\ UNCHANGED <<pc, rows>>
    BY DEF Audit, AuditLock
  <1>2. nextId \in Nat \ {0} /\ nextId' \in Nat \ {0} /\ nextId <= nextId' /\ p \in Seq(Entry)
    BY <1>1 DEF TrailInv, TrailTypeOK
  <1>3. PICK s : IsTrail(s)
    BY DEF TrailInv
  <1>4. IsTrail(s)' /\ LastCommitted' = LastCommitted /\ AuditRows' = AuditRows
    BY <1>1, <1>2, <1>3, TrailKept
  <1>5. LastCommitted \in Nat /\ LastCommitted < nextId
    <2>1. s \in Seq(Entry) /\ \A i \in 1 .. Len(s) : s[i].id < nextId
      BY <1>3 DEF IsTrail
    <2>2. s # <<>> => s[Len(s)].id < nextId
      BY <2>1, EntriesTyped
    <2> QED
      BY <1>2, <1>3, <2>2, LastOfTrail DEF LastId
  <1>6. p # <<>> =>
           /\ Last(p) = p[Len(p)] /\ Len(p) \in 1 .. Len(p)
           /\ \A i \in 1 .. Len(p) : p[i].id < nextId
           /\ InOrder(p) /\ LastCommitted < p[1].id
           /\ \A i \in 1 .. Len(p) : p[i].prev = IF i = 1 THEN LastCommitted ELSE p[i - 1].id
    BY <1>1, <1>2, EntriesTyped DEF TrailInv, PendingFollows, Last
  <1>7. x \in Entry /\ x.id = nextId /\ x.prev = IF p = <<>> THEN LastCommitted ELSE p[Len(p)].id
    BY <1>2, <1>5, <1>6, EntriesTyped DEF Entry
  <1> HIDE DEF x
  <1> DEFINE q == Append(p, x)
  <1>8. /\ q \in Seq(Entry) /\ Len(q) = Len(p) + 1 /\ q[Len(p) + 1] = x
        /\ \A i \in 1 .. Len(p) : q[i] = p[i]
        /\ Len(p) \in Nat
    BY <1>2, <1>7
  <1> HIDE DEF q
  <1>9. \A i \in 1 .. Len(q) : q[i].id < nextId'
    <2> TAKE i \in 1 .. Len(q)
    <2>1. CASE i = Len(p) + 1
      BY <1>1, <1>2, <1>7, <1>8, <2>1
    <2>2. CASE i \in 1 .. Len(p)
      <3>1. p # <<>> /\ p[i].id < nextId
        BY <1>6, <2>2
      <3> QED
        BY <1>1, <1>2, <1>8, <2>2, <3>1, EntriesTyped
    <2> QED
      BY <1>8, <2>1, <2>2
  <1>10. InOrder(q)
    <2> SUFFICES ASSUME NEW i \in 1 .. Len(q), NEW j \in 1 .. Len(q), i < j PROVE q[i].id < q[j].id
      BY DEF InOrder
    <2>1. i \in 1 .. Len(p) /\ p # <<>>
      BY <1>8
    <2>2. CASE j = Len(p) + 1
      BY <1>6, <1>7, <1>8, <2>1, <2>2
    <2>3. CASE j \in 1 .. Len(p)
      BY <1>6, <1>8, <2>1, <2>3 DEF InOrder
    <2> QED
      BY <1>8, <2>2, <2>3
  <1>11. LastCommitted < q[1].id
    <2>1. CASE p = <<>>
      BY <1>5, <1>7, <1>8, <2>1
    <2>2. CASE p # <<>>
      BY <1>2, <1>6, <1>8, <2>2, EntriesTyped
    <2> QED
      BY <2>1, <2>2
  <1>12. \A i \in 1 .. Len(q) : q[i].prev = IF i = 1 THEN LastCommitted ELSE q[i - 1].id
    <2> TAKE i \in 1 .. Len(q)
    <2>1. CASE i = Len(p) + 1
      <3>1. CASE p = <<>>
        BY <1>7, <1>8, <2>1, <3>1
      <3>2. CASE p # <<>>
        BY <1>6, <1>7, <1>8, <2>1, <3>2
      <3> QED
        BY <3>1, <3>2
    <2>2. CASE i \in 1 .. Len(p)
      <3>1. p # <<>> /\ (i # 1 => i - 1 \in 1 .. Len(p))
        BY <1>8, <2>2
      <3> QED
        BY <1>6, <1>8, <2>2, <3>1
    <2> QED
      BY <1>8, <2>1, <2>2
  <1>13. TrailTypeOK'
    BY <1>1, <1>2, <1>8 DEF TrailInv, TrailTypeOK, q
  <1>14. LocksExclude'
    BY <1>1 DEF TrailInv, TrailTypeOK, LocksExclude, MayTake
  <1>15. ASSUME NEW w \in Requests, w # r
         PROVE  pending'[w] = pending[w] /\ holds'[w] = holds[w]
    BY <1>1, <1>15 DEF TrailInv, TrailTypeOK
  <1>16. pending'[r] = q /\ "audit" \in holds'[r]
    BY <1>1 DEF TrailInv, TrailTypeOK, q
  <1>17. ASSUME NEW w \in Requests
         PROVE  /\ pc'[w] \in {"received", "admitted"} => pending'[w] = <<>>
                /\ pc'[w] = "working" /\ pending'[w] # <<>> =>
                      /\ "audit" \in holds'[w]
                      /\ InOrder(pending'[w]) /\ LastCommitted < pending'[w][1].id
                      /\ \A i \in 1 .. Len(pending'[w]) :
                            /\ pending'[w][i].prev = IF i = 1 THEN LastCommitted ELSE pending'[w][i - 1].id
                            /\ pending'[w][i].id < nextId'
    <2>1. CASE w = r
      <3>1. pc'[w] = "working" /\ pending'[w] = q /\ "audit" \in holds'[w]
        BY <1>1, <1>16, <2>1
      <3>2. InOrder(pending'[w]) /\ LastCommitted < pending'[w][1].id
        BY <1>10, <1>11, <3>1
      <3>3. \A i \in 1 .. Len(pending'[w]) :
               /\ pending'[w][i].prev = IF i = 1 THEN LastCommitted ELSE pending'[w][i - 1].id
               /\ pending'[w][i].id < nextId'
        BY <1>9, <1>12, <3>1
      <3> QED
        BY <3>1, <3>2, <3>3
    <2>2. CASE w # r
      <3>1. pc[w] = "working" /\ pending[w] # <<>> =>
               \A i \in 1 .. Len(pending[w]) : pending[w][i].id < nextId'
        <4>1. pending[w] \in Seq(Entry)
          BY DEF TrailInv, TrailTypeOK
        <4> QED
          BY <1>1, <1>2, <4>1, EntriesTyped DEF TrailInv, PendingFollows
      <3> QED
        BY <1>1, <1>15, <2>2, <3>1 DEF TrailInv, PendingFollows
    <2> QED
      BY <2>1, <2>2
  <1>18. PendingFollows'
    BY <1>4, <1>17 DEF PendingFollows, InOrder
  <1> QED
    BY <1>4, <1>13, <1>14, <1>18 DEF TrailInv

\* A step that touches no row, pending or committed, and may take a lock.
LEMMA TrailAside ==
    ASSUME TrailInv, TrailTypeOK', LocksExclude', UNCHANGED <<rows, nextId>>,
           \A w \in Requests :
              /\ pc'[w] \in {"received", "admitted"} => pc[w] \in {"received", "admitted"} /\ pending'[w] = pending[w]
              /\ pc'[w] = "working" =>
                    \/ pending'[w] = <<>>
                    \/ pc[w] = "working" /\ pending'[w] = pending[w] /\ holds[w] \subseteq holds'[w]
    PROVE  TrailInv' /\ AuditRows' = AuditRows
  <1>1. PICK s : IsTrail(s)
    BY DEF TrailInv
  <1>2. IsTrail(s)' /\ LastCommitted' = LastCommitted /\ AuditRows' = AuditRows
    <2>1. nextId \in Nat /\ nextId' \in Nat /\ nextId <= nextId'
      BY DEF TrailInv, TrailTypeOK
    <2> QED
      BY <1>1, <2>1, TrailKept
  <1>3. PendingFollows'
    <2> SUFFICES ASSUME NEW w \in Requests
                 PROVE  /\ pc'[w] \in {"received", "admitted"} => pending'[w] = <<>>
                        /\ pc'[w] = "working" /\ pending'[w] # <<>> =>
                              /\ "audit" \in holds'[w]
                              /\ InOrder(pending'[w]) /\ LastCommitted < pending'[w][1].id
                              /\ \A i \in 1 .. Len(pending'[w]) :
                                    /\ pending'[w][i].prev = IF i = 1 THEN LastCommitted ELSE pending'[w][i - 1].id
                                    /\ pending'[w][i].id < nextId
      BY <1>2 DEF PendingFollows, InOrder
    <2>1. pc'[w] \in {"received", "admitted"} => pending'[w] = <<>>
      BY DEF TrailInv, PendingFollows
    <2>2. ASSUME pc'[w] = "working", pending'[w] # <<>>
          PROVE  pc[w] = "working" /\ pending'[w] = pending[w] /\ holds[w] \subseteq holds'[w]
      BY <2>2
    <2> QED
      BY <2>1, <2>2 DEF TrailInv, PendingFollows
  <1> QED
    BY <1>2, <1>3 DEF TrailInv

LEMMA TrailRollBack ==
    ASSUME TrailInv, NEW r \in Requests, RollBack(r)
    PROVE  TrailInv' /\ AuditRows' = AuditRows
  <1>1. /\ pc' = [pc EXCEPT ![r] = "failed"] /\ pending' = [pending EXCEPT ![r] = <<>>]
        /\ holds' = [holds EXCEPT ![r] = {}] /\ UNCHANGED <<rows, nextId>>
    BY DEF RollBack, EndTransaction
  <1>2. TrailTypeOK'
    BY <1>1 DEF TrailInv, TrailTypeOK, Ended
  <1>3. LocksExclude'
    BY <1>1 DEF TrailInv, TrailTypeOK, LocksExclude
  <1>4. pc'[r] = "failed" /\ \A w \in Requests \ {r} :
           pc'[w] = pc[w] /\ pending'[w] = pending[w] /\ holds'[w] = holds[w]
    BY <1>1 DEF TrailInv, TrailTypeOK
  <1> QED
    BY <1>1, <1>2, <1>3, <1>4, TrailAside

\* A commit appends the rows of the session to the trail, under the lock.
LEMMA TrailCommit ==
    ASSUME TrailInv, NEW r \in Requests, Commit(r), ~ViolatesUnique(r)
    PROVE  TrailInv' /\ Trail!Extend
  <1>0. PICK p : p = pending[r]
    OBVIOUS
  <1>1. /\ pc[r] = "working" /\ p # <<>> /\ pc' = [pc EXCEPT ![r] = "done"]
        /\ rows' = rows \cup ToSet(p) /\ holds' = [holds EXCEPT ![r] = {}]
        /\ UNCHANGED <<pending, nextId>>
    BY <1>0 DEF Commit, EndTransaction
  <1>2. PICK s : IsTrail(s)
    BY DEF TrailInv
  <1>3. /\ s \in Seq(Entry) /\ rows = ToSet(s) /\ InOrder(s) /\ Trail!Verifies(s)
        /\ \A i \in 1 .. Len(s) : s[i].id < nextId
    BY <1>2 DEF IsTrail
  <1>4. /\ p \in Seq(Entry) /\ "audit" \in holds[r] /\ InOrder(p) /\ LastCommitted < p[1].id
        /\ \A i \in 1 .. Len(p) :
              p[i].id < nextId /\ p[i].prev = IF i = 1 THEN LastCommitted ELSE p[i - 1].id
    BY <1>0, <1>1 DEF TrailInv, TrailTypeOK, PendingFollows
  <1>5. LastCommitted = LastId(s) /\ LastCommitted \in Nat
    BY <1>2, LastOfTrail
  <1> DEFINE t == s \o p
             m == Len(s)
  <1>6. /\ t \in Seq(Entry) /\ m \in Nat /\ Len(p) \in Nat \ {0} /\ Len(t) = m + Len(p)
        /\ \A i \in 1 .. m : t[i] = s[i]
        /\ \A i \in m + 1 .. m + Len(p) : t[i] = p[i - m]
    BY <1>1, <1>3, <1>4, EntriesTyped
  <1> HIDE DEF t, m
  <1>7. \A i \in 1 .. m : s[i].id <= LastCommitted
    <2> TAKE i \in 1 .. m
    <2>1. s # <<>> /\ LastCommitted = s[m].id /\ (i = m \/ i < m)
      BY <1>3, <1>5, <1>6 DEF LastId, m
    <2>2. m \in 1 .. m /\ s[i].id \in Nat /\ s[m].id \in Nat
      BY <1>3, <2>1, EntriesTyped DEF m
    <2> QED
      BY <1>3, <2>1, <2>2 DEF InOrder, m
  <1>8. \A j \in 1 .. Len(p) : LastCommitted < p[j].id
    <2> TAKE j \in 1 .. Len(p)
    <2>1. 1 \in 1 .. Len(p) /\ (j = 1 \/ 1 < j)
      BY <1>6
    <2>2. p[j].id \in Nat /\ p[1].id \in Nat
      BY <1>4, <2>1, EntriesTyped
    <2> QED
      BY <1>4, <1>5, <2>1, <2>2 DEF InOrder
  <1>9. InOrder(t)
    <2> SUFFICES ASSUME NEW i \in 1 .. Len(t), NEW j \in 1 .. Len(t), i < j PROVE t[i].id < t[j].id
      BY DEF InOrder
    <2>1. CASE j <= m
      BY <1>3, <1>6, <2>1 DEF InOrder, m
    <2>2. CASE i > m
      <3>1. /\ i \in m + 1 .. m + Len(p) /\ j \in m + 1 .. m + Len(p)
            /\ i - m \in 1 .. Len(p) /\ j - m \in 1 .. Len(p) /\ i - m < j - m
        <4>1. m \in Nat /\ Len(p) \in Nat /\ Len(t) = m + Len(p)
          BY <1>6
        <4> QED
          BY <2>2, <4>1
      <3>2. t[i] = p[i - m] /\ t[j] = p[j - m]
        BY <1>6, <3>1
      <3>3. p[i - m].id < p[j - m].id
        BY <1>4, <3>1 DEF InOrder
      <3> QED
        BY <3>2, <3>3
    <2>3. CASE i <= m /\ j > m
      <3>0. i \in 1 .. m /\ j \in m + 1 .. m + Len(p) /\ j - m \in 1 .. Len(p)
        <4>1. m \in Nat /\ Len(p) \in Nat /\ Len(t) = m + Len(p)
          BY <1>6
        <4> QED
          BY <2>3, <4>1
      <3>1. t[i] = s[i] /\ t[j] = p[j - m] /\ i \in 1 .. m /\ j - m \in 1 .. Len(p)
        BY <1>6, <3>0
      <3>2. s[i].id \in Nat /\ p[j - m].id \in Nat
        BY <1>3, <1>4, <3>1, EntriesTyped DEF m
      <3> QED
        BY <1>5, <1>7, <1>8, <3>1, <3>2
    <2> QED
      BY <1>6, <2>1, <2>2, <2>3
  <1>10. Trail!Verifies(t)
    <2> SUFFICES ASSUME NEW k \in 1 .. Len(t)
                 PROVE  t[k].prev = IF k = 1 THEN 0 ELSE t[k - 1].id
      BY <1>6, EntriesTyped DEF Trail!Verifies, Trail!NoEntry
    <2>1. CASE k <= m
      <3>1. t[k] = s[k] /\ (k # 1 => t[k - 1] = s[k - 1]) /\ k \in DOMAIN s
        BY <1>3, <1>6, <2>1, EntriesTyped DEF m
      <3> QED
        BY <1>3, <3>1 DEF Trail!Verifies, Trail!NoEntry
    <2>2. CASE k = m + 1
      <3>1. t[k] = p[1] /\ p[1].prev = LastCommitted
        BY <1>4, <1>6, <2>2
      <3>2. CASE m = 0
        <4>1. s = <<>>
          BY <1>3, <3>2 DEF m
        <4> QED
          BY <1>5, <2>2, <3>1, <3>2, <4>1 DEF LastId
      <3>3. CASE m # 0
        <4>1. s # <<>> /\ t[k - 1] = s[m] /\ k # 1
          BY <1>3, <1>6, <2>2, <3>3 DEF m
        <4> QED
          BY <1>5, <3>1, <4>1 DEF LastId, m
      <3> QED
        BY <3>2, <3>3
    <2>3. CASE k > m + 1
      <3>1. /\ k \in m + 1 .. m + Len(p) /\ k - 1 \in m + 1 .. m + Len(p) /\ k # 1
            /\ k - m \in 1 .. Len(p) /\ k - m # 1 /\ (k - 1) - m = (k - m) - 1
        <4>1. m \in Nat /\ Len(p) \in Nat /\ Len(t) = m + Len(p)
          BY <1>6
        <4> QED
          BY <2>3, <4>1
      <3>2. t[k] = p[k - m] /\ t[k - 1] = p[(k - m) - 1]
        BY <1>6, <3>1
      <3> QED
        BY <1>4, <3>1, <3>2
    <2> QED
      BY <1>6, <2>1, <2>2, <2>3
  <1>11. ToSet(t) = ToSet(s) \cup ToSet(p)
    <2>1. /\ ToSet(t) = {t[i] : i \in 1 .. Len(t)} /\ ToSet(s) = {s[i] : i \in 1 .. m}
          /\ ToSet(p) = {p[i] : i \in 1 .. Len(p)}
      BY <1>3, <1>4, <1>6, EntriesTyped DEF ToSet, m
    <2>2. ASSUME NEW i \in 1 .. Len(t) PROVE t[i] \in ToSet(s) \cup ToSet(p)
      <3>1. CASE i <= m
        BY <1>6, <2>1, <3>1
      <3>2. CASE i > m
        BY <1>6, <2>1, <3>2
      <3> QED
        BY <1>6, <3>1, <3>2
    <2>3. ASSUME NEW i \in 1 .. m PROVE s[i] \in ToSet(t)
      BY <1>6, <2>1
    <2>4. ASSUME NEW i \in 1 .. Len(p) PROVE p[i] \in ToSet(t)
      <3>1. i + m \in 1 .. Len(t) /\ t[i + m] = p[i]
        BY <1>6
      <3> QED
        BY <2>1, <3>1
    <2> QED
      BY <2>1, <2>2, <2>3, <2>4
  <1>12. \A i \in 1 .. Len(t) : t[i].id < nextId
    <2> TAKE i \in 1 .. Len(t)
    <2>1. CASE i <= m
      BY <1>3, <1>6, <2>1 DEF m
    <2>2. CASE i > m
      <3>1. t[i] = p[i - m] /\ i - m \in 1 .. Len(p)
        BY <1>6, <2>2
      <3> QED
        BY <1>4, <3>1
    <2> QED
      BY <1>6, <2>1, <2>2
  <1>13. IsTrail(t)'
    BY <1>1, <1>3, <1>6, <1>9, <1>10, <1>11, <1>12 DEF IsTrail, Trail!Verifies
  <1>14. AuditRows = s /\ AuditRows' = t
    BY <1>1, <1>3, <1>6, <1>9, <1>11, ByIdInOrder DEF AuditRows
  <1>15. Trail!Extend
    <2>1. Len(t) > m
      BY <1>6
    <2>2. SubSeq(t, 1, m) = s
      <3>1. SubSeq(t, 1, m) = [i \in 1 .. m |-> t[i]]
        BY <1>6
      <3>2. s = [i \in 1 .. m |-> s[i]]
        BY <1>3, EntriesTyped DEF m
      <3> QED
        BY <1>6, <3>1, <3>2
    <2> QED
      BY <1>10, <1>14, <2>1, <2>2 DEF Trail!Extend, m
  <1>16. TrailTypeOK'
    BY <1>1 DEF TrailInv, TrailTypeOK, Ended
  <1>17. LocksExclude'
    BY <1>1 DEF TrailInv, TrailTypeOK, LocksExclude
  <1>18. PendingFollows'
    <2>1. ASSUME NEW w \in Requests, w # r
          PROVE  pc'[w] = pc[w] /\ (pc[w] = "working" => pending[w] = <<>>)
      <3>1. pc'[w] = pc[w] /\ "audit" \notin holds[w]
        BY <1>1, <1>4, <2>1 DEF TrailInv, TrailTypeOK, LocksExclude
      <3> QED
        BY <3>1 DEF TrailInv, PendingFollows
    <2>2. pc'[r] = "done"
      BY <1>1 DEF TrailInv, TrailTypeOK
    <2>3. \A w \in Requests : pc'[w] \in {"received", "admitted", "working"} => pending'[w] = <<>>
      BY <1>1, <2>1, <2>2 DEF TrailInv, PendingFollows
    <2> QED
      BY <2>3 DEF PendingFollows
  <1> QED
    BY <1>13, <1>15, <1>16, <1>17, <1>18 DEF TrailInv

LEMMA TrailNext == TrailInv /\ [Next]_vars => TrailInv' /\ [Trail!Extend]_AuditRows
  <1> SUFFICES ASSUME TrailInv, [Next]_vars PROVE TrailInv' /\ [Trail!Extend]_AuditRows
    OBVIOUS
  <1>1. ASSUME UNCHANGED <<pc, rows, nextId, pending, holds>> PROVE TrailInv' /\ AuditRows' = AuditRows
    <2>1. TrailTypeOK' /\ LocksExclude'
      BY <1>1 DEF TrailInv, TrailTypeOK, LocksExclude
    <2> QED
      BY <1>1, <2>1, TrailAside
  <1>2. CASE UNCHANGED vars \/ NextMinute
    BY <1>1, <1>2 DEF vars, NextMinute
  <1>3. ASSUME NEW r \in Requests, Admit(r) \/ CheckKey(r) \/ CheckEvent(r) PROVE TrailInv' /\ AuditRows' = AuditRows
    <2>1. PICK x \in {"throttled", "conflict", "replayed", "admitted", "working"} :
             pc' = [pc EXCEPT ![r] = x] /\ pc[r] \in {"received", "admitted"}
      <3>1. CASE Admit(r)
        BY <3>1 DEF Admit
      <3>2. CASE CheckKey(r)
        <4> DEFINE x == IF stored[key[r]] = None THEN "working"
                        ELSE IF BodyOf[stored[key[r]]] # BodyOf[r] THEN "conflict" ELSE "replayed"
        <4>1. x \in {"throttled", "conflict", "replayed", "admitted", "working"}
          OBVIOUS
        <4>2. pc' = [pc EXCEPT ![r] = x] /\ pc[r] = "admitted"
          BY <3>2 DEF CheckKey
        <4> QED
          BY <4>1, <4>2
      <3>3. CASE CheckEvent(r)
        BY <3>3 DEF CheckEvent
      <3> QED
        BY <1>3, <3>1, <3>2, <3>3
    <2>2. UNCHANGED <<rows, nextId, pending>> /\ pending[r] = <<>>
      BY <1>3, <2>1 DEF Admit, CheckKey, CheckEvent, TrailInv, PendingFollows
    <2>3. holds' = holds \/ (MayTake(r, "source") /\ holds' = [holds EXCEPT ![r] = @ \cup {"source"}])
      BY <1>3 DEF Admit, CheckKey, CheckEvent
    <2>4. DOMAIN holds' = Requests /\ \A q \in Requests : holds[q] \subseteq holds'[q]
      BY <2>3 DEF TrailInv, TrailTypeOK
    <2>5. LocksExclude'
      <3>1. CASE holds' = holds
        BY <3>1 DEF TrailInv, LocksExclude
      <3>2. CASE MayTake(r, "source") /\ holds' = [holds EXCEPT ![r] = @ \cup {"source"}]
        BY <3>2 DEF TrailInv, TrailTypeOK, LocksExclude, MayTake
      <3> QED
        BY <2>3, <3>1, <3>2
    <2>6. TrailTypeOK'
      BY <2>1, <2>2, <2>4 DEF TrailInv, TrailTypeOK, Ended, Open
    <2>7. \A w \in Requests \ {r} : pc'[w] = pc[w]
      BY <2>1 DEF TrailInv, TrailTypeOK
    <2> QED
      BY <2>1, <2>2, <2>4, <2>5, <2>6, <2>7, TrailAside
  <1>4. ASSUME NEW r \in Requests, AllocateNumber(r) PROVE TrailInv' /\ AuditRows' = AuditRows
    <2> DEFINE kind == Needs(r)[Len(number[r]) + 1]
    <2>1. /\ MayTake(r, kind) /\ holds' = [holds EXCEPT ![r] = @ \cup {kind}]
          /\ UNCHANGED <<pc, rows, nextId, pending>>
      BY <1>4 DEF AllocateNumber, NumberLock
    <2> HIDE DEF kind
    <2>2. TrailTypeOK' /\ \A q \in Requests : holds[q] \subseteq holds'[q]
      BY <2>1 DEF TrailInv, TrailTypeOK
    <2>3. LocksExclude'
      BY <2>1 DEF TrailInv, TrailTypeOK, LocksExclude, MayTake
    <2> QED
      BY <2>1, <2>2, <2>3, TrailAside
  <1>5. ASSUME NEW r \in Requests, Commit(r) PROVE TrailInv' /\ (Trail!Extend \/ AuditRows' = AuditRows)
    <2>1. CASE ViolatesUnique(r)
      BY <1>5, <2>1, TrailRollBack DEF Commit
    <2> QED
      BY <1>5, <2>1, TrailCommit
  <1>6. ASSUME NEW r \in Requests, Abort(r) PROVE TrailInv' /\ AuditRows' = AuditRows
    BY <1>6, TrailRollBack DEF Abort
  <1> QED
    BY <1>2, <1>3, <1>4, <1>5, <1>6, TrailAudit DEF Next, Step

(* The audit rows implement AuditLog: walked by id they are a log to which *)
(* a commit only appends, each entry naming the one before, however many   *)
(* requests write at the same time, fail or are sent again.                *)
THEOREM TrailRefines == Spec => TrailIsAppendOnly
  <1>1. Init => Trail!Init
    BY TrailInit DEF Trail!Init
  <1> QED
    BY <1>1, TrailInit, TrailNext, PTL DEF Spec, TrailIsAppendOnly, Trail!Spec

-----------------------------------------------------------------------------
(* Sign-in: what may be used once                                          *)

At == {"idle", "verify", "issue", "consume", "check", "refresh", "load", "logout", "change"}
Context == [at : At, cred : Accounts!Credentials \cup {Accounts!NoCredential}, version : Nat,
            codes : SUBSET BackupCodes, tries : Nat, session : Nat]

AccountsTypeOK ==
    /\ Accounts!TypeOK
    /\ tokens \in 1 .. MaxTokens
    /\ ctx \in [Signers -> Context]
    /\ DOMAIN locks = Signers

RowLocksExclude == \A r, q \in Signers : \A row \in locks[r] : row \in locks[q] => r = q

\* What has given tokens cannot be presented again.
SpentStaysSpent ==
    /\ \A n \in 1 .. MaxStep + 1 : grants[Accounts!Totp(n)] # 0 => n <= lastStep
    /\ \A b \in BackupCodes : grants[Accounts!Backup(b)] # 0 => b \notin codes
    /\ \A h \in Challenges : grants[Accounts!Challenge(h)] # 0 => h \notin challenges
    /\ \A t \in 1 .. MaxTokens : grants[Accounts!Token(t)] # 0 =>
          t <= tokens /\ \A s \in DOMAIN sessions : sessions[s].token # t

\* The sessions that are signed in have tokens of their own.
TokensDiffer ==
    /\ \A s \in DOMAIN sessions : sessions[s].token <= tokens /\ (sessions[s].active => sessions[s].token # 0)
    /\ \A s, u \in DOMAIN sessions : sessions[s].token = sessions[u].token /\ sessions[s].token # 0 => s = u

\* A request that will be given tokens holds the lock of the row it used, or
\* has deleted that row; nobody else has the same challenge.
Unspent(r) ==
    LET c == ctx[r].cred
    IN /\ ctx[r].at = "verify" =>
             \/ \E n \in 1 .. MaxStep + 1 : c = Accounts!Totp(n)
             \/ \E b \in BackupCodes : c = Accounts!Backup(b)
       /\ ctx[r].at = "issue" =>
             \/ \E n \in 1 .. MaxStep + 1 : c = Accounts!Totp(n) /\ lastStep < n /\ Accounts!User \in locks[r]
             \/ \E b \in BackupCodes : c = Accounts!Backup(b) /\ b \in codes /\ Accounts!User \in locks[r]
             \/ \E h \in Challenges :
                   /\ c = Accounts!Challenge(h)
                   /\ \/ c \in locks[r] /\ h \in challenges
                      \/ grants[c] = 0 /\ h \notin challenges
       /\ ctx[r].at = "consume" =>
             \E h \in Challenges : c = Accounts!Challenge(h) /\ c \in locks[r] /\ h \in challenges
       /\ ctx[r].at = "check" =>
             \E h \in Challenges : c = Accounts!Challenge(h) /\ grants[c] = 0 /\ h \notin challenges
       /\ ctx[r].at = "refresh" =>
             /\ ctx[r].session \in DOMAIN sessions /\ Accounts!Session(ctx[r].session) \in locks[r]
             /\ sessions[ctx[r].session].active /\ c = Accounts!Token(sessions[ctx[r].session].token)
       /\ ctx[r].at \in {"load", "logout"} => ctx[r].session \in DOMAIN sessions
       /\ ctx[r].at \in {"idle", "load", "logout", "change"} => c = Accounts!NoCredential

ChallengesDiffer ==
    \A r, q \in Signers : \A h \in Challenges :
        ctx[r].cred = Accounts!Challenge(h) /\ ctx[q].cred = Accounts!Challenge(h) => r = q

OnceInv ==
    /\ AccountsTypeOK /\ RowLocksExclude /\ SpentStaysSpent /\ TokensDiffer /\ ChallengesDiffer /\ UsedOnce
    /\ \A r \in Signers : Unspent(r)

\* The four kinds of credentials are told apart, and so are their numbers.
LEMMA CredentialsDiffer ==
    /\ \A n \in 1 .. MaxStep + 1 : Accounts!Totp(n) \in Accounts!Credentials
    /\ \A b \in BackupCodes : Accounts!Backup(b) \in Accounts!Credentials
    /\ \A h \in Challenges : Accounts!Challenge(h) \in Accounts!Credentials
    /\ \A t \in 1 .. MaxTokens : Accounts!Token(t) \in Accounts!Credentials
    /\ Accounts!Credentials =
          {Accounts!Totp(n) : n \in 1 .. MaxStep + 1} \cup {Accounts!Backup(b) : b \in BackupCodes}
          \cup {Accounts!Challenge(h) : h \in Challenges} \cup {Accounts!Token(t) : t \in 1 .. MaxTokens}
    /\ \A x, y : /\ Accounts!Totp(x) # Accounts!Backup(y) /\ Accounts!Totp(x) # Accounts!Challenge(y)
                 /\ Accounts!Totp(x) # Accounts!Token(y) /\ Accounts!Backup(x) # Accounts!Challenge(y)
                 /\ Accounts!Backup(x) # Accounts!Token(y) /\ Accounts!Challenge(x) # Accounts!Token(y)
                 /\ (Accounts!Totp(x) = Accounts!Totp(y) => x = y)
                 /\ (Accounts!Backup(x) = Accounts!Backup(y) => x = y)
                 /\ (Accounts!Challenge(x) = Accounts!Challenge(y) => x = y)
                 /\ (Accounts!Token(x) = Accounts!Token(y) => x = y)
                 /\ (Accounts!Session(x) = Accounts!Session(y) => x = y)
                 /\ Accounts!Session(x) # Accounts!Challenge(y)
    /\ \A x : /\ Accounts!NoCredential # Accounts!Totp(x) /\ Accounts!NoCredential # Accounts!Backup(x)
              /\ Accounts!NoCredential # Accounts!Challenge(x) /\ Accounts!NoCredential # Accounts!Token(x)
  <1>1. Accounts!Credentials =
          {Accounts!Totp(n) : n \in 1 .. MaxStep + 1} \cup {Accounts!Backup(b) : b \in BackupCodes}
          \cup {Accounts!Challenge(h) : h \in Challenges} \cup {Accounts!Token(t) : t \in 1 .. MaxTokens}
    BY DEF Accounts!Credentials
  <1>2. /\ \A n \in 1 .. MaxStep + 1 : Accounts!Totp(n) \in Accounts!Credentials
        /\ \A b \in BackupCodes : Accounts!Backup(b) \in Accounts!Credentials
        /\ \A h \in Challenges : Accounts!Challenge(h) \in Accounts!Credentials
        /\ \A t \in 1 .. MaxTokens : Accounts!Token(t) \in Accounts!Credentials
    BY <1>1
  <1>3. \A x, y : /\ Accounts!Totp(x) # Accounts!Backup(y) /\ Accounts!Totp(x) # Accounts!Challenge(y)
                  /\ Accounts!Totp(x) # Accounts!Token(y) /\ Accounts!Backup(x) # Accounts!Challenge(y)
                  /\ Accounts!Backup(x) # Accounts!Token(y) /\ Accounts!Challenge(x) # Accounts!Token(y)
                  /\ (Accounts!Totp(x) = Accounts!Totp(y) => x = y)
                  /\ (Accounts!Backup(x) = Accounts!Backup(y) => x = y)
                  /\ (Accounts!Challenge(x) = Accounts!Challenge(y) => x = y)
                  /\ (Accounts!Token(x) = Accounts!Token(y) => x = y)
                  /\ (Accounts!Session(x) = Accounts!Session(y) => x = y)
                  /\ Accounts!Session(x) # Accounts!Challenge(y)
    BY DEF Accounts!Totp, Accounts!Backup, Accounts!Challenge, Accounts!Token, Accounts!Session
  <1>4. \A x : /\ Accounts!NoCredential # Accounts!Totp(x) /\ Accounts!NoCredential # Accounts!Backup(x)
               /\ Accounts!NoCredential # Accounts!Challenge(x) /\ Accounts!NoCredential # Accounts!Token(x)
    BY DEF Accounts!Totp, Accounts!Backup, Accounts!Challenge, Accounts!Token, Accounts!NoCredential
  <1> QED
    BY <1>1, <1>2, <1>3, <1>4

MobileSession == [active : BOOLEAN, version : Nat, token : Nat, began : Nat]

LEMMA SessionsTyped ==
    ASSUME AccountsTypeOK
    PROVE  /\ sessions \in Seq(MobileSession) /\ Len(sessions) \in Nat /\ DOMAIN sessions = 1 .. Len(sessions)
           /\ \A s \in DOMAIN sessions :
                 /\ s \in Nat /\ sessions[s] \in MobileSession
                 /\ sessions[s].token \in Nat /\ sessions[s].version \in Nat /\ sessions[s].began \in Nat
  <1>1. sessions \in Seq(MobileSession)
    BY DEF AccountsTypeOK, Accounts!TypeOK, MobileSession
  <1>2. /\ Len(sessions) \in Nat /\ DOMAIN sessions = 1 .. Len(sessions)
        /\ \A s \in DOMAIN sessions : s \in Nat /\ sessions[s] \in MobileSession
    BY <1>1
  <1>3. \A x \in MobileSession : x.token \in Nat /\ x.version \in Nat /\ x.began \in Nat
    BY DEF MobileSession
  <1> QED
    BY <1>1, <1>2, <1>3

\* Replacing a row of the sessions.
LEMMA SessionReplaced ==
    ASSUME AccountsTypeOK, NEW s \in DOMAIN sessions, NEW e \in MobileSession,
           sessions' = [sessions EXCEPT ![s] = e]
    PROVE  /\ DOMAIN sessions' = DOMAIN sessions /\ sessions'[s] = e
           /\ \A u \in DOMAIN sessions : u # s => sessions'[u] = sessions[u]
           /\ sessions' \in Seq(MobileSession)
  <1>1. sessions \in Seq(MobileSession) /\ DOMAIN sessions = 1 .. Len(sessions) /\ Len(sessions) \in Nat
    BY SessionsTyped
  <1>2. sessions' \in [1 .. Len(sessions) -> MobileSession]
    BY <1>1
  <1>3. sessions' \in Seq(MobileSession)
    BY <1>1, <1>2
  <1> QED
    BY <1>1, <1>2, <1>3

LEMMA IdleTyped ==
    Accounts!Idle \in Context /\ Accounts!Idle.at = "idle" /\ Accounts!Idle.cred = Accounts!NoCredential
  BY DEF Accounts!Idle, Context, At

\* A step that changes what one request has loaded and locked, and nothing that
\* others rely on.
LEMMA OnceContext ==
    ASSUME OnceInv, NEW r \in Signers,
           ctx' \in [Signers -> Context], DOMAIN locks' = Signers,
           \A q \in Signers : q # r => ctx'[q] = ctx[q] /\ locks'[q] = locks[q],
           \A row \in locks'[r] : row \in locks[r] \/ Accounts!Free(r, row),
           lastStep' = lastStep, codes' = codes, challenges' = challenges,
           sessions' = sessions, tokens' = tokens, grants' = grants, version' \in Nat,
           Unspent(r)',
           \A h \in Challenges : ctx'[r].cred = Accounts!Challenge(h) =>
              ctx[r].cred = ctx'[r].cred \/ \A q \in Signers : q # r => ctx[q].cred # Accounts!Challenge(h)
    PROVE  OnceInv'
  <1>1. AccountsTypeOK'
    BY DEF OnceInv, AccountsTypeOK, Accounts!TypeOK
  <1>3. RowLocksExclude'
    <2> SUFFICES ASSUME NEW q \in Signers, NEW w \in Signers, q # w, NEW row \in locks'[q]
                 PROVE  row \notin locks'[w]
      BY DEF RowLocksExclude
    <2>1. \A z \in Signers : z # r /\ row \in locks[z] => row \notin locks'[r]
      BY DEF OnceInv, RowLocksExclude, Accounts!Free
    <2> QED
      BY <2>1 DEF OnceInv, RowLocksExclude
  <1>4. SpentStaysSpent'
    BY DEF OnceInv, SpentStaysSpent
  <1>5. TokensDiffer' /\ UsedOnce'
    BY DEF OnceInv, TokensDiffer, UsedOnce, Accounts!UsedOnce
  <1>6. ChallengesDiffer'
    BY DEF OnceInv, ChallengesDiffer
  <1>7. \A q \in Signers : Unspent(q)'
    BY DEF OnceInv, Unspent
  <1> QED
    BY <1>1, <1>3, <1>4, <1>5, <1>6, <1>7 DEF OnceInv

\* A request whose transaction has ended presents nothing.
LEMMA EndedPresentsNothing ==
    ASSUME AccountsTypeOK, NEW r \in Signers, Accounts!End(r)
    PROVE  /\ ctx' \in [Signers -> Context] /\ DOMAIN locks' = Signers
           /\ \A q \in Signers : q # r => ctx'[q] = ctx[q] /\ locks'[q] = locks[q]
           /\ locks'[r] = {} /\ ctx'[r].at = "idle" /\ ctx'[r].cred = Accounts!NoCredential
           /\ \A h \in Challenges : ctx'[r].cred # Accounts!Challenge(h)
           /\ Unspent(r)'
  <1>1. ctx' = [ctx EXCEPT ![r] = Accounts!Idle] /\ locks' = [locks EXCEPT ![r] = {}]
    BY DEF Accounts!End
  <1>2. /\ ctx' \in [Signers -> Context] /\ DOMAIN locks' = Signers
        /\ \A q \in Signers : q # r => ctx'[q] = ctx[q] /\ locks'[q] = locks[q]
        /\ locks'[r] = {} /\ ctx'[r] = Accounts!Idle
    BY <1>1, IdleTyped DEF AccountsTypeOK
  <1>3. Unspent(r)'
    BY <1>2, IdleTyped DEF Unspent
  <1>4. \A h \in Challenges : Accounts!NoCredential # Accounts!Challenge(h)
    BY CredentialsDiffer
  <1> QED
    BY <1>2, <1>3, <1>4, IdleTyped

\* A request ends without having changed a row.
LEMMA OnceEnd ==
    ASSUME OnceInv, NEW r \in Signers, Accounts!End(r),
           lastStep' = lastStep, codes' = codes, challenges' = challenges,
           sessions' = sessions, tokens' = tokens, grants' = grants, version' \in Nat
    PROVE  OnceInv'
  <1>1. AccountsTypeOK
    BY DEF OnceInv
  <1> QED
    BY <1>1, EndedPresentsNothing, OnceContext

\* The kind of a credential is its first component.
LEMMA CredentialKinds ==
    ASSUME NEW c \in Accounts!Credentials
    PROVE  /\ c[1] = "totp" => c[2] \in 1 .. MaxStep + 1 /\ c = Accounts!Totp(c[2])
           /\ c[1] = "backup" => c[2] \in BackupCodes /\ c = Accounts!Backup(c[2])
           /\ c[1] = "challenge" => c[2] \in Challenges /\ c = Accounts!Challenge(c[2])
           /\ c[1] = "token" => c[2] \in 1 .. MaxTokens /\ c = Accounts!Token(c[2])
           /\ c[1] \in {"totp", "backup", "challenge", "token"}
  <1> USE DEF Accounts!Totp, Accounts!Backup, Accounts!Challenge, Accounts!Token
  <1>1. CASE \E n \in 1 .. MaxStep + 1 : c = Accounts!Totp(n)
    BY <1>1
  <1>2. CASE \E b \in BackupCodes : c = Accounts!Backup(b)
    BY <1>2
  <1>3. CASE \E h \in Challenges : c = Accounts!Challenge(h)
    BY <1>3
  <1>4. CASE \E t \in 1 .. MaxTokens : c = Accounts!Token(t)
    BY <1>4
  <1> QED
    BY <1>1, <1>2, <1>3, <1>4 DEF Accounts!Credentials

LEMMA OnceLoadUser ==
    ASSUME OnceInv, NEW r \in Signers, NEW c \in Accounts!Credentials, Accounts!LoadUser(r, c)
    PROVE  OnceInv'
  <1>1. /\ ctx[r].at = "idle" /\ version \in Nat /\ codes \in SUBSET BackupCodes
        /\ ctx' = [ctx EXCEPT ![r] = [Accounts!Idle EXCEPT !.at = "verify", !.cred = c,
                                                           !.version = version, !.codes = codes]]
        /\ version' = version /\ lastStep' = lastStep /\ codes' = codes /\ challenges' = challenges
        /\ sessions' = sessions /\ tokens' = tokens /\ grants' = grants /\ locks' = locks
    BY DEF OnceInv, AccountsTypeOK, Accounts!TypeOK, Accounts!LoadUser
  <1>2. \/ \E n \in 1 .. MaxStep + 1 : c = Accounts!Totp(n)
        \/ \E b \in BackupCodes : c = Accounts!Backup(b)
    <2>1. c[1] \in {"totp", "backup"}
      BY DEF Accounts!LoadUser, Accounts!Totp, Accounts!Backup
    <2> QED
      BY <2>1, CredentialKinds
  <1> DEFINE x == [Accounts!Idle EXCEPT !.at = "verify", !.cred = c, !.version = version, !.codes = codes]
  <1>3. x \in Context /\ x.at = "verify" /\ x.cred = c
    BY <1>1 DEF Accounts!Idle, Context, At
  <1>4. /\ ctx' \in [Signers -> Context] /\ DOMAIN locks' = Signers /\ ctx'[r] = x
        /\ \A q \in Signers : q # r => ctx'[q] = ctx[q] /\ locks'[q] = locks[q]
    BY <1>1, <1>3 DEF OnceInv, AccountsTypeOK
  <1> HIDE DEF x
  <1>5. Unspent(r)'
    BY <1>2, <1>3, <1>4 DEF Unspent
  <1>6. \A h \in Challenges : c # Accounts!Challenge(h)
    BY <1>2, CredentialsDiffer
  <1> QED
    BY <1>1, <1>3, <1>4, <1>5, <1>6, OnceContext

LEMMA OnceClaimStep ==
    ASSUME OnceInv, NEW r \in Signers, Accounts!ClaimStep(r)
    PROVE  OnceInv'
  <1>1. /\ ctx[r].at = "verify" /\ ctx[r].cred[1] = "totp" /\ version' = version /\ version \in Nat
        /\ lastStep' = lastStep /\ codes' = codes /\ challenges' = challenges
        /\ sessions' = sessions /\ tokens' = tokens /\ grants' = grants
    BY DEF OnceInv, AccountsTypeOK, Accounts!TypeOK, Accounts!ClaimStep
  <1>2. CASE ~(lastStep < ctx[r].cred[2])
    <2>1. Accounts!End(r)
      BY <1>2 DEF Accounts!ClaimStep, Accounts!StepFree
    <2> QED
      BY <1>1, <2>1, OnceEnd
  <1>3. CASE lastStep < ctx[r].cred[2]
    <2>1. /\ Accounts!Free(r, Accounts!User) /\ locks' = [locks EXCEPT ![r] = @ \cup {Accounts!User}]
          /\ ctx' = [ctx EXCEPT ![r].at = "issue"]
      BY <1>3 DEF Accounts!ClaimStep, Accounts!StepFree, Accounts!Lock
    <2>2. /\ ctx' \in [Signers -> Context] /\ DOMAIN locks' = Signers
          /\ ctx'[r].at = "issue" /\ ctx'[r].cred = ctx[r].cred
          /\ locks'[r] = locks[r] \cup {Accounts!User}
          /\ \A q \in Signers : q # r => ctx'[q] = ctx[q] /\ locks'[q] = locks[q]
      BY <2>1 DEF OnceInv, AccountsTypeOK, Context, At
    <2>3. PICK n \in 1 .. MaxStep + 1 : ctx[r].cred = Accounts!Totp(n) /\ n = ctx[r].cred[2]
      BY <1>1 DEF OnceInv, Unspent, Accounts!Totp, Accounts!Backup
    <2>4. Unspent(r)'
      BY <1>1, <1>3, <2>2, <2>3 DEF Unspent
    <2> QED
      BY <1>1, <2>1, <2>2, <2>4, OnceContext
  <1> QED
    BY <1>2, <1>3

LEMMA OnceClaimCode ==
    ASSUME OnceInv, NEW r \in Signers, Accounts!ClaimCode(r)
    PROVE  OnceInv'
  <1>1. /\ ctx[r].at = "verify" /\ ctx[r].cred[1] = "backup" /\ version' = version /\ version \in Nat
        /\ lastStep' = lastStep /\ codes' = codes /\ challenges' = challenges /\ codes \subseteq BackupCodes
        /\ sessions' = sessions /\ tokens' = tokens /\ grants' = grants
    BY DEF OnceInv, AccountsTypeOK, Accounts!TypeOK, Accounts!ClaimCode
  <1>2. PICK b \in BackupCodes : ctx[r].cred = Accounts!Backup(b) /\ b = ctx[r].cred[2]
    BY <1>1 DEF OnceInv, Unspent, Accounts!Totp, Accounts!Backup
  <1>3. CASE Accounts!End(r)
    BY <1>1, <1>3, OnceEnd
  <1>4. CASE /\ ctx[r].cred[2] \in ctx[r].codes /\ codes = ctx[r].codes
             /\ Accounts!Lock(r, Accounts!User) /\ ctx' = [ctx EXCEPT ![r].at = "issue"]
    <2>1. /\ Accounts!Free(r, Accounts!User) /\ locks' = [locks EXCEPT ![r] = @ \cup {Accounts!User}]
          /\ b \in codes
      BY <1>2, <1>4 DEF Accounts!Lock
    <2>2. /\ ctx' \in [Signers -> Context] /\ DOMAIN locks' = Signers
          /\ ctx'[r].at = "issue" /\ ctx'[r].cred = ctx[r].cred
          /\ locks'[r] = locks[r] \cup {Accounts!User}
          /\ \A q \in Signers : q # r => ctx'[q] = ctx[q] /\ locks'[q] = locks[q]
      BY <1>4, <2>1 DEF OnceInv, AccountsTypeOK, Context, At
    <2>3. Unspent(r)'
      BY <1>1, <1>2, <2>1, <2>2 DEF Unspent
    <2> QED
      BY <1>1, <2>1, <2>2, <2>3, OnceContext
  <1>5. CASE ctx' = [ctx EXCEPT ![r].codes = codes, ![r].tries = @ + 1] /\ UNCHANGED locks
    <2>1. /\ ctx' \in [Signers -> Context] /\ DOMAIN locks' = Signers
          /\ ctx'[r].at = ctx[r].at /\ ctx'[r].cred = ctx[r].cred
          /\ \A q \in Signers : q # r => ctx'[q] = ctx[q] /\ locks'[q] = locks[q]
      BY <1>1, <1>5 DEF OnceInv, AccountsTypeOK, Context, At
    <2>2. Unspent(r)'
      BY <1>1, <1>2, <2>1 DEF Unspent
    <2> QED
      BY <1>1, <1>5, <2>1, <2>2, OnceContext
  <1> QED
    BY <1>3, <1>4, <1>5 DEF Accounts!ClaimCode

LEMMA OnceTakeChallenge ==
    ASSUME OnceInv, NEW r \in Signers, NEW h \in Challenges, Accounts!TakeChallenge(r, h)
    PROVE  OnceInv'
  <1> DEFINE c == Accounts!Challenge(h)
             at == IF h \in Passkeys THEN "consume" ELSE "issue"
             x == [Accounts!Idle EXCEPT !.at = at, !.cred = c, !.version = version]
  <1>1. /\ h \in challenges /\ Accounts!Free(r, c) /\ locks' = [locks EXCEPT ![r] = @ \cup {c}]
        /\ ctx' = [ctx EXCEPT ![r] = x]
        /\ version' = version /\ version \in Nat /\ lastStep' = lastStep /\ codes' = codes
        /\ challenges' = challenges /\ sessions' = sessions /\ tokens' = tokens /\ grants' = grants
    BY DEF OnceInv, AccountsTypeOK, Accounts!TypeOK, Accounts!TakeChallenge, Accounts!Lock
  <1>2. x \in Context /\ x.at \in {"consume", "issue"} /\ x.cred = c
    BY <1>1, CredentialsDiffer DEF Accounts!Idle, Context, At
  <1> HIDE DEF x
  <1>3. /\ ctx' \in [Signers -> Context] /\ DOMAIN locks' = Signers /\ ctx'[r] = x
        /\ locks'[r] = locks[r] \cup {c}
        /\ \A q \in Signers : q # r => ctx'[q] = ctx[q] /\ locks'[q] = locks[q]
    BY <1>1, <1>2 DEF OnceInv, AccountsTypeOK
  <1>4. Unspent(r)'
    BY <1>1, <1>2, <1>3 DEF Unspent
  <1>5. \A q \in Signers : q # r => ctx[q].cred # c
    <2> SUFFICES ASSUME NEW q \in Signers, q # r, ctx[q].cred = c PROVE FALSE
      OBVIOUS
    <2>1. c \notin locks[q]
      BY <1>1 DEF Accounts!Free
    <2>2. \A g \in Challenges : c = Accounts!Challenge(g) => g = h
      BY CredentialsDiffer
    <2>3. /\ \A n : c # Accounts!Totp(n) /\ c # Accounts!Backup(n) /\ c # Accounts!Token(n)
          /\ c # Accounts!NoCredential
      BY CredentialsDiffer
    <2>4. ctx[q].at \in At
      BY DEF OnceInv, AccountsTypeOK, Context
    <2> HIDE DEF c
    <2> QED
      BY <1>1, <2>1, <2>2, <2>3, <2>4 DEF OnceInv, Unspent, At
  <1>6. \A g \in Challenges : c = Accounts!Challenge(g) => g = h
    BY CredentialsDiffer
  <1> QED
    BY <1>1, <1>2, <1>3, <1>4, <1>5, <1>6, OnceContext

\* Loading a session or the account to change presents nothing that is used once.
LEMMA OnceLoad ==
    ASSUME OnceInv, NEW r \in Signers,
           \/ \E s \in DOMAIN sessions : Accounts!LoadClient(r, s)
           \/ Accounts!LoadForChange(r) \/ Accounts!CheckPasskey(r)
    PROVE  OnceInv'
  <1>1. /\ version' = version /\ version \in Nat /\ lastStep' = lastStep /\ codes' = codes
        /\ challenges' = challenges /\ sessions' = sessions /\ tokens' = tokens /\ grants' = grants
        /\ locks' = locks
    BY DEF OnceInv, AccountsTypeOK, Accounts!TypeOK, Accounts!LoadClient, Accounts!LoadForChange,
           Accounts!CheckPasskey
  <1>2. CASE \E s \in DOMAIN sessions : Accounts!LoadClient(r, s)
    <2>1. PICK s \in DOMAIN sessions :
             ctx' = [ctx EXCEPT ![r] = [Accounts!Idle EXCEPT !.at = "load", !.session = s, !.version = version]]
      BY <1>2 DEF Accounts!LoadClient
    <2>2. s \in Nat
      BY SessionsTyped DEF OnceInv
    <2> DEFINE x == [Accounts!Idle EXCEPT !.at = "load", !.session = s, !.version = version]
    <2>3. x \in Context /\ x.at = "load" /\ x.cred = Accounts!NoCredential /\ x.session = s
      BY <1>1, <2>2 DEF Accounts!Idle, Context, At
    <2> HIDE DEF x
    <2>4. /\ ctx' \in [Signers -> Context] /\ DOMAIN locks' = Signers /\ ctx'[r] = x
          /\ \A q \in Signers : q # r => ctx'[q] = ctx[q] /\ locks'[q] = locks[q]
      BY <1>1, <2>1, <2>3 DEF OnceInv, AccountsTypeOK, x
    <2>5. Unspent(r)'
      BY <1>1, <2>3, <2>4 DEF Unspent
    <2>6. \A h \in Challenges : Accounts!NoCredential # Accounts!Challenge(h)
      BY CredentialsDiffer
    <2> QED
      BY <1>1, <2>3, <2>4, <2>5, <2>6, OnceContext
  <1>3. CASE Accounts!LoadForChange(r)
    <2>1. ctx' = [ctx EXCEPT ![r] = [Accounts!Idle EXCEPT !.at = "change", !.version = version]]
      BY <1>3 DEF Accounts!LoadForChange
    <2> DEFINE x == [Accounts!Idle EXCEPT !.at = "change", !.version = version]
    <2>3. x \in Context /\ x.at = "change" /\ x.cred = Accounts!NoCredential
      BY <1>1 DEF Accounts!Idle, Context, At
    <2> HIDE DEF x
    <2>4. /\ ctx' \in [Signers -> Context] /\ DOMAIN locks' = Signers /\ ctx'[r] = x
          /\ \A q \in Signers : q # r => ctx'[q] = ctx[q] /\ locks'[q] = locks[q]
      BY <1>1, <2>1, <2>3 DEF OnceInv, AccountsTypeOK, x
    <2>5. Unspent(r)'
      BY <2>3, <2>4 DEF Unspent
    <2>6. \A h \in Challenges : Accounts!NoCredential # Accounts!Challenge(h)
      BY CredentialsDiffer
    <2> QED
      BY <1>1, <2>3, <2>4, <2>5, <2>6, OnceContext
  <1>4. CASE Accounts!CheckPasskey(r)
    <2>1. ctx' = [ctx EXCEPT ![r].at = "issue", ![r].version = version] /\ ctx[r].at = "check"
      BY <1>4 DEF Accounts!CheckPasskey
    <2>4. /\ ctx' \in [Signers -> Context] /\ DOMAIN locks' = Signers
          /\ ctx'[r].at = "issue" /\ ctx'[r].cred = ctx[r].cred
          /\ \A q \in Signers : q # r => ctx'[q] = ctx[q] /\ locks'[q] = locks[q]
      BY <1>1, <2>1 DEF OnceInv, AccountsTypeOK, Context, At
    <2>5. Unspent(r)'
      BY <1>1, <2>1, <2>4 DEF OnceInv, Unspent
    <2> QED
      BY <1>1, <2>4, <2>5, OnceContext
  <1> QED
    BY <1>2, <1>3, <1>4

LEMMA OnceStartRefresh ==
    ASSUME OnceInv, NEW r \in Signers, NEW s \in DOMAIN sessions, Accounts!StartRefresh(r, s)
    PROVE  OnceInv'
  <1> DEFINE c == Accounts!Token(sessions[s].token)
             x == [Accounts!Idle EXCEPT !.at = "refresh", !.session = s, !.version = version, !.cred = c]
  <1>1. /\ sessions[s].active /\ Accounts!Free(r, Accounts!Session(s))
        /\ locks' = [locks EXCEPT ![r] = @ \cup {Accounts!Session(s)}]
        /\ ctx' = [ctx EXCEPT ![r] = x]
        /\ version' = version /\ version \in Nat /\ lastStep' = lastStep /\ codes' = codes
        /\ challenges' = challenges /\ sessions' = sessions /\ tokens' = tokens /\ grants' = grants
    BY DEF OnceInv, AccountsTypeOK, Accounts!TypeOK, Accounts!StartRefresh, Accounts!Lock
  <1>2. s \in Nat /\ sessions[s].token \in 1 .. MaxTokens
    <2>1. s \in Nat /\ sessions[s].token \in Nat
      BY SessionsTyped DEF OnceInv
    <2>2. sessions[s].token # 0 /\ sessions[s].token <= tokens /\ tokens \in 1 .. MaxTokens
      BY <1>1 DEF OnceInv, AccountsTypeOK, TokensDiffer
    <2> QED
      BY <2>1, <2>2, AccountsAssumption
  <1>3. c \in Accounts!Credentials
    BY <1>2, CredentialsDiffer
  <1>4. x \in Context /\ x.at = "refresh" /\ x.cred = c /\ x.session = s
    BY <1>1, <1>2, <1>3 DEF Accounts!Idle, Context, At
  <1> HIDE DEF x
  <1>5. /\ ctx' \in [Signers -> Context] /\ DOMAIN locks' = Signers /\ ctx'[r] = x
        /\ locks'[r] = locks[r] \cup {Accounts!Session(s)}
        /\ \A q \in Signers : q # r => ctx'[q] = ctx[q] /\ locks'[q] = locks[q]
    BY <1>1, <1>4 DEF OnceInv, AccountsTypeOK
  <1>6. Unspent(r)'
    BY <1>1, <1>4, <1>5 DEF Unspent
  <1>7. \A h \in Challenges : c # Accounts!Challenge(h)
    BY CredentialsDiffer
  <1> QED
    BY <1>1, <1>4, <1>5, <1>6, <1>7, OnceContext

\* The row of a challenge is deleted by the request that has it locked, or when
\* nobody has.
LEMMA OnceDropChallenge ==
    ASSUME OnceInv, NEW h \in Challenges, challenges' = challenges \ {h}, AccountsTypeOK', RowLocksExclude',
           lastStep' = lastStep, codes' = codes, sessions' = sessions, tokens' = tokens, grants' = grants,
           NEW R \in SUBSET Signers,
           \A q \in R : ctx'[q].cred = ctx[q].cred \/ ctx'[q].cred = Accounts!NoCredential,
           \A q \in R : Unspent(q)',
           \A q \in Signers \ R :
              ctx'[q] = ctx[q] /\ locks'[q] = locks[q] /\ Accounts!Challenge(h) \notin locks[q]
    PROVE  OnceInv'
  <1>1. SpentStaysSpent'
    BY DEF OnceInv, SpentStaysSpent
  <1>2. TokensDiffer' /\ UsedOnce'
    BY DEF OnceInv, TokensDiffer, UsedOnce, Accounts!UsedOnce
  <1>3. ChallengesDiffer'
    <2>1. \A g \in Challenges : Accounts!NoCredential # Accounts!Challenge(g)
      BY CredentialsDiffer
    <2>2. \A q \in Signers : ctx'[q].cred = ctx[q].cred \/ ctx'[q].cred = Accounts!NoCredential
      OBVIOUS
    <2> QED
      BY <2>1, <2>2 DEF OnceInv, ChallengesDiffer
  <1>4. ASSUME NEW q \in Signers \ R PROVE Unspent(q)'
    <2>1. Unspent(q) /\ Accounts!Challenge(h) \notin locks[q]
      BY DEF OnceInv
    <2>2. \A g \in Challenges : Accounts!Challenge(g) \in locks[q] /\ g \in challenges => g \in challenges'
      BY <2>1
    <2>3. \A g \in Challenges : g \notin challenges => g \notin challenges'
      OBVIOUS
    <2> QED
      BY <2>1, <2>2, <2>3 DEF Unspent
  <1> QED
    BY <1>1, <1>2, <1>3, <1>4 DEF OnceInv

LEMMA OnceConsume ==
    ASSUME OnceInv, NEW r \in Signers, Accounts!ConsumeChallenge(r)
    PROVE  OnceInv'
  <1>1. /\ ctx[r].at = "consume" /\ challenges' = challenges \ {ctx[r].cred[2]}
        /\ locks' = [locks EXCEPT ![r] = {}] /\ ctx' = [ctx EXCEPT ![r].at = "check"]
        /\ version' = version /\ lastStep' = lastStep /\ codes' = codes /\ sessions' = sessions
        /\ tokens' = tokens /\ grants' = grants
    BY DEF Accounts!ConsumeChallenge
  <1>2. PICK h \in Challenges : /\ ctx[r].cred = Accounts!Challenge(h) /\ Accounts!Challenge(h) \in locks[r]
                                /\ h \in challenges /\ ctx[r].cred[2] = h
    BY <1>1 DEF OnceInv, Unspent, Accounts!Challenge
  <1>3. grants[Accounts!Challenge(h)] = 0
    BY <1>2 DEF OnceInv, SpentStaysSpent
  <1>4. /\ ctx' \in [Signers -> Context] /\ ctx'[r].at = "check" /\ ctx'[r].cred = ctx[r].cred
        /\ DOMAIN locks' = Signers /\ locks'[r] = {}
        /\ \A q \in Signers : q # r => ctx'[q] = ctx[q] /\ locks'[q] = locks[q]
    BY <1>1 DEF OnceInv, AccountsTypeOK, Context, At
  <1>5. AccountsTypeOK' /\ RowLocksExclude'
    <2>1. AccountsTypeOK'
      BY <1>1, <1>4 DEF OnceInv, AccountsTypeOK, Accounts!TypeOK
    <2>2. RowLocksExclude'
      BY <1>4 DEF OnceInv, RowLocksExclude
    <2> QED
      BY <2>1, <2>2
  <1>6. Unspent(r)'
    BY <1>1, <1>2, <1>3, <1>4 DEF Unspent
  <1>7. \A q \in Signers \ {r} : ctx'[q] = ctx[q] /\ locks'[q] = locks[q] /\ Accounts!Challenge(h) \notin locks[q]
    BY <1>2, <1>4 DEF OnceInv, RowLocksExclude
  <1> DEFINE R == {r}
  <1>8. /\ R \in SUBSET Signers /\ \A q \in R : ctx'[q].cred = ctx[q].cred /\ Unspent(q)'
        /\ \A q \in Signers \ R :
              ctx'[q] = ctx[q] /\ locks'[q] = locks[q] /\ Accounts!Challenge(h) \notin locks[q]
    BY <1>4, <1>6, <1>7
  <1> HIDE DEF R
  <1> QED
    BY <1>1, <1>2, <1>5, <1>8, OnceDropChallenge

LEMMA OnceRefuse ==
    ASSUME OnceInv, NEW r \in Signers, Accounts!RefuseHandoff(r)
    PROVE  OnceInv'
  <1>1. /\ ctx[r].at = "issue" /\ challenges' = challenges \ {ctx[r].cred[2]} /\ Accounts!End(r)
        /\ version' = version /\ lastStep' = lastStep /\ codes' = codes /\ sessions' = sessions
        /\ tokens' = tokens /\ grants' = grants
    BY DEF Accounts!RefuseHandoff
  <1>2. PICK h \in Challenges : ctx[r].cred = Accounts!Challenge(h) /\ ctx[r].cred[2] = h
    BY DEF Accounts!RefuseHandoff, Accounts!Challenge
  <1>3. \/ Accounts!Challenge(h) \in locks[r]
        \/ h \notin challenges
    <2>1. /\ \A n : Accounts!Challenge(h) # Accounts!Totp(n) /\ Accounts!Challenge(h) # Accounts!Backup(n)
          /\ \A g \in Challenges : Accounts!Challenge(h) = Accounts!Challenge(g) => g = h
      BY CredentialsDiffer
    <2>2. Unspent(r)
      BY DEF OnceInv
    <2> QED
      BY <1>1, <1>2, <2>1, <2>2 DEF Unspent
  <1>4. AccountsTypeOK
    BY DEF OnceInv
  <1>5. /\ ctx' \in [Signers -> Context] /\ DOMAIN locks' = Signers
        /\ \A q \in Signers : q # r => ctx'[q] = ctx[q] /\ locks'[q] = locks[q]
        /\ locks'[r] = {} /\ ctx'[r].cred = Accounts!NoCredential
        /\ Unspent(r)'
    BY <1>1, <1>4, EndedPresentsNothing
  <1>6. CASE h \notin challenges
    <2>1. challenges' = challenges /\ version' \in Nat
      BY <1>1, <1>2, <1>6 DEF OnceInv, AccountsTypeOK, Accounts!TypeOK
    <2> QED
      BY <1>1, <2>1, OnceEnd
  <1>7. CASE Accounts!Challenge(h) \in locks[r]
    <2>1. AccountsTypeOK'
      BY <1>1, <1>5 DEF OnceInv, AccountsTypeOK, Accounts!TypeOK
    <2>2. RowLocksExclude'
      BY <1>5 DEF OnceInv, RowLocksExclude
    <2> DEFINE R == {r}
    <2>3. /\ R \in SUBSET Signers /\ \A q \in R : ctx'[q].cred = Accounts!NoCredential /\ Unspent(q)'
          /\ \A q \in Signers \ R :
                ctx'[q] = ctx[q] /\ locks'[q] = locks[q] /\ Accounts!Challenge(h) \notin locks[q]
      BY <1>5, <1>7 DEF OnceInv, RowLocksExclude
    <2> HIDE DEF R
    <2> QED
      BY <1>1, <1>2, <2>1, <2>2, <2>3, OnceDropChallenge
  <1> QED
    BY <1>3, <1>6, <1>7

LEMMA OnceExpire ==
    ASSUME OnceInv, NEW h \in Challenges, Accounts!Expire(h)
    PROVE  OnceInv'
  <1>1. /\ challenges' = challenges \ {h} /\ \A q \in Signers : Accounts!Challenge(h) \notin locks[q]
        /\ version' = version /\ lastStep' = lastStep /\ codes' = codes /\ sessions' = sessions
        /\ tokens' = tokens /\ grants' = grants /\ ctx' = ctx /\ locks' = locks
    BY DEF Accounts!Expire
  <1>2. AccountsTypeOK'
    BY <1>1 DEF OnceInv, AccountsTypeOK, Accounts!TypeOK
  <1>3. RowLocksExclude'
    BY <1>1 DEF OnceInv, RowLocksExclude
  <1> DEFINE R == {}
  <1>4. /\ R \in SUBSET Signers /\ \A q \in R : ctx'[q].cred = Accounts!NoCredential /\ Unspent(q)'
        /\ \A q \in Signers \ R :
              ctx'[q] = ctx[q] /\ locks'[q] = locks[q] /\ Accounts!Challenge(h) \notin locks[q]
    BY <1>1
  <1> HIDE DEF R
  <1> QED
    BY <1>1, <1>2, <1>3, <1>4, OnceDropChallenge

\* A session is ended by the request that has it locked, or when nobody has.
LEMMA OnceEndSession ==
    ASSUME OnceInv, NEW r \in Signers, NEW s \in DOMAIN sessions, Accounts!End(r),
           sessions' = Accounts!Ended(s), \A q \in Signers : q # r => Accounts!Session(s) \notin locks[q],
           lastStep' = lastStep, codes' = codes, challenges' = challenges, tokens' = tokens, grants' = grants,
           version' = version
    PROVE  OnceInv'
  <1>1. AccountsTypeOK
    BY DEF OnceInv
  <1>2. /\ ctx' \in [Signers -> Context] /\ DOMAIN locks' = Signers
        /\ \A q \in Signers : q # r => ctx'[q] = ctx[q] /\ locks'[q] = locks[q]
        /\ locks'[r] = {} /\ \A h \in Challenges : ctx'[r].cred # Accounts!Challenge(h)
        /\ Unspent(r)'
    BY <1>1, EndedPresentsNothing
  <1>3. /\ DOMAIN sessions' = DOMAIN sessions /\ sessions'[s].token = 0 /\ sessions'[s].active = FALSE
        /\ \A u \in DOMAIN sessions : u # s => sessions'[u] = sessions[u]
        /\ sessions' \in Seq(MobileSession)
    <2>1. [sessions[s] EXCEPT !.active = FALSE, !.token = 0] \in MobileSession
      BY <1>1, SessionsTyped DEF MobileSession
    <2>2. sessions' = [sessions EXCEPT ![s] = [sessions[s] EXCEPT !.active = FALSE, !.token = 0]]
      BY <1>1, SessionsTyped DEF Accounts!Ended
    <2>3. sessions[s] \in MobileSession
      BY <1>1, SessionsTyped
    <2>4. [sessions[s] EXCEPT !.active = FALSE, !.token = 0].token = 0
      BY <2>3 DEF MobileSession
    <2>5. [sessions[s] EXCEPT !.active = FALSE, !.token = 0].active = FALSE
      BY <2>3 DEF MobileSession
    <2> QED
      BY <1>1, <2>1, <2>2, <2>4, <2>5, SessionReplaced
  <1>4. AccountsTypeOK'
    BY <1>1, <1>2, <1>3 DEF AccountsTypeOK, Accounts!TypeOK, MobileSession
  <1>5. RowLocksExclude'
    BY <1>2 DEF OnceInv, RowLocksExclude
  <1>6. SpentStaysSpent'
    <2>1. \A t \in 1 .. MaxTokens : t # 0
      BY AccountsAssumption
    <2>2. \A t \in 1 .. MaxTokens : grants'[Accounts!Token(t)] # 0 =>
             t <= tokens' /\ \A u \in DOMAIN sessions' : sessions'[u].token # t
      BY <1>3, <2>1 DEF OnceInv, SpentStaysSpent
    <2> QED
      BY <2>2 DEF OnceInv, SpentStaysSpent
  <1>7. TokensDiffer'
    <2>1. 0 <= tokens
      BY <1>1, AccountsAssumption DEF AccountsTypeOK
    <2>2. \A u \in DOMAIN sessions' :
             sessions'[u].token <= tokens /\ (sessions'[u].active => sessions'[u].token # 0)
      BY <1>3, <2>1 DEF OnceInv, TokensDiffer
    <2>3. \A u, v \in DOMAIN sessions' :
             sessions'[u].token = sessions'[v].token /\ sessions'[u].token # 0 => u = v
      BY <1>3 DEF OnceInv, TokensDiffer
    <2> QED
      BY <2>2, <2>3 DEF TokensDiffer
  <1>8. ChallengesDiffer' /\ UsedOnce'
    BY <1>2 DEF OnceInv, ChallengesDiffer, UsedOnce, Accounts!UsedOnce
  <1>9. ASSUME NEW q \in Signers, q # r PROVE Unspent(q)'
    <2>1. Unspent(q) /\ ctx'[q] = ctx[q] /\ locks'[q] = locks[q] /\ Accounts!Session(s) \notin locks[q]
      BY <1>2, <1>9 DEF OnceInv
    <2> QED
      BY <1>3, <2>1 DEF Unspent
  <1> QED
    BY <1>2, <1>4, <1>5, <1>6, <1>7, <1>8, <1>9 DEF OnceInv

LEMMA OnceServe ==
    ASSUME OnceInv, NEW r \in Signers, Accounts!Serve(r) \/ Accounts!Logout(r)
    PROVE  OnceInv'
  <1> DEFINE s == ctx[r].session
  <1>1. /\ ctx[r].at \in {"load", "logout"} /\ Accounts!Free(r, Accounts!Session(s))
        /\ version' = version /\ lastStep' = lastStep /\ codes' = codes /\ challenges' = challenges
        /\ tokens' = tokens /\ grants' = grants
    BY DEF Accounts!Serve, Accounts!Logout
  <1>2. s \in DOMAIN sessions /\ version' \in Nat
    BY <1>1 DEF OnceInv, Unspent, AccountsTypeOK, Accounts!TypeOK
  <1>3. CASE sessions' = Accounts!Ended(s) /\ Accounts!End(r)
    BY <1>1, <1>2, <1>3, OnceEndSession DEF Accounts!Free
  <1>4. CASE sessions' = sessions /\ Accounts!End(r)
    BY <1>1, <1>2, <1>4, OnceEnd
  <1>5. CASE sessions' = sessions /\ ctx' = [ctx EXCEPT ![r].at = "logout"] /\ locks' = locks /\ ctx[r].at = "load"
    <2>1. /\ ctx' \in [Signers -> Context] /\ DOMAIN locks' = Signers
          /\ ctx'[r].at = "logout" /\ ctx'[r].cred = ctx[r].cred /\ ctx'[r].session = ctx[r].session
          /\ \A q \in Signers : q # r => ctx'[q] = ctx[q] /\ locks'[q] = locks[q]
      BY <1>5 DEF OnceInv, AccountsTypeOK, Context, At
    <2>2. Unspent(r)'
      BY <1>2, <1>5, <2>1 DEF OnceInv, Unspent
    <2> QED
      BY <1>1, <1>2, <1>5, <2>1, <2>2, OnceContext
  <1> QED
    BY <1>3, <1>4, <1>5 DEF Accounts!Serve, Accounts!Logout

\* A credential that has given no tokens gives them: its count becomes one.
LEMMA Granted ==
    ASSUME OnceInv, NEW c \in Accounts!Credentials, grants[c] = 0, grants' = [grants EXCEPT ![c] = @ + 1]
    PROVE  /\ grants' \in [Accounts!Credentials -> Nat] /\ UsedOnce'
           /\ \A d \in Accounts!Credentials : d # c => grants'[d] = grants[d]
  <1>1. grants \in [Accounts!Credentials -> Nat]
    BY DEF OnceInv, AccountsTypeOK, Accounts!TypeOK
  <1>2. grants'[c] = 1 /\ \A d \in Accounts!Credentials : d # c => grants'[d] = grants[d]
    BY <1>1
  <1>3. \A d \in Accounts!Credentials : grants'[d] <= 1
    BY <1>2 DEF OnceInv, UsedOnce, Accounts!UsedOnce
  <1> QED
    BY <1>1, <1>2, <1>3 DEF UsedOnce, Accounts!UsedOnce

LEMMA OnceRefresh ==
    ASSUME OnceInv, NEW r \in Signers, Accounts!Refresh(r)
    PROVE  OnceInv'
  <1>0. PICK s : s = ctx[r].session
    OBVIOUS
  <1>1. /\ ctx[r].at = "refresh" /\ Accounts!End(r)
        /\ version' = version /\ lastStep' = lastStep /\ codes' = codes /\ challenges' = challenges
    BY DEF Accounts!Refresh
  <1>2. /\ s \in DOMAIN sessions /\ Accounts!Session(s) \in locks[r]
        /\ sessions[s].active /\ ctx[r].cred = Accounts!Token(sessions[s].token)
    BY <1>0, <1>1 DEF OnceInv, Unspent
  <1>3. \A q \in Signers : q # r => Accounts!Session(s) \notin locks[q]
    BY <1>2 DEF OnceInv, RowLocksExclude
  <1>4. CASE sessions[s].version # ctx[r].version
    <2>1. sessions' = Accounts!Ended(s) /\ tokens' = tokens /\ grants' = grants
      BY <1>0, <1>4 DEF Accounts!Refresh
    <2> QED
      BY <1>1, <1>2, <1>3, <2>1, OnceEndSession
  <1>5. CASE sessions[s].version = ctx[r].version
    <2>0. PICK o : o = sessions[s].token
      OBVIOUS
    <2>1. /\ tokens < MaxTokens /\ tokens' = tokens + 1 /\ sessions' = [sessions EXCEPT ![s].token = tokens']
          /\ grants' = [grants EXCEPT ![Accounts!Token(o)] = @ + 1]
      BY <1>0, <1>2, <1>5, <2>0 DEF Accounts!Refresh
    <2>2. AccountsTypeOK
      BY DEF OnceInv
    <2>3. /\ tokens \in Nat /\ MaxTokens \in Nat /\ o \in 1 .. MaxTokens /\ o <= tokens
          /\ tokens' \in 1 .. MaxTokens /\ tokens' # 0
      <3>1. tokens \in 1 .. MaxTokens /\ MaxTokens \in Nat
        BY <2>2, AccountsAssumption DEF AccountsTypeOK
      <3>2. o \in Nat /\ o # 0 /\ o <= tokens
        BY <1>2, <2>0, <2>2, SessionsTyped DEF OnceInv, TokensDiffer
      <3> QED
        BY <2>1, <3>1, <3>2
    <2>4. Accounts!Token(o) \in Accounts!Credentials
      BY <2>3, CredentialsDiffer
    <2>5. grants[Accounts!Token(o)] = 0
      BY <1>2, <2>0, <2>3 DEF OnceInv, SpentStaysSpent
    <2>6. /\ grants' \in [Accounts!Credentials -> Nat] /\ UsedOnce'
          /\ \A d \in Accounts!Credentials : d # Accounts!Token(o) => grants'[d] = grants[d]
      BY <2>1, <2>4, <2>5, Granted
    <2>7. PICK e : e = [sessions[s] EXCEPT !.token = tokens']
      OBVIOUS
    <2>8. e \in MobileSession /\ e.token = tokens' /\ e.active
      <3>1. sessions[s] \in MobileSession
        BY <1>2, <2>2, SessionsTyped
      <3> QED
        BY <1>2, <2>3, <2>7, <3>1 DEF MobileSession
    <2>9. /\ DOMAIN sessions' = DOMAIN sessions /\ sessions'[s] = e
          /\ \A u \in DOMAIN sessions : u # s => sessions'[u] = sessions[u]
          /\ sessions' \in Seq(MobileSession)
      <3>1. sessions' = [sessions EXCEPT ![s] = e]
        BY <2>1, <2>7
      <3> QED
        BY <1>2, <2>2, <2>8, <3>1, SessionReplaced
    <2>10. /\ ctx' \in [Signers -> Context] /\ DOMAIN locks' = Signers
           /\ \A q \in Signers : q # r => ctx'[q] = ctx[q] /\ locks'[q] = locks[q]
           /\ locks'[r] = {} /\ \A h \in Challenges : ctx'[r].cred # Accounts!Challenge(h)
           /\ Unspent(r)'
      BY <1>1, <2>2, EndedPresentsNothing
    <2>11. AccountsTypeOK'
      BY <1>1, <2>2, <2>3, <2>6, <2>9, <2>10 DEF AccountsTypeOK, Accounts!TypeOK, MobileSession
    <2>12. RowLocksExclude'
      BY <2>10 DEF OnceInv, RowLocksExclude
    <2>13. SpentStaysSpent'
      <3>1. /\ \A n \in 1 .. MaxStep + 1 : grants'[Accounts!Totp(n)] = grants[Accounts!Totp(n)]
            /\ \A b \in BackupCodes : grants'[Accounts!Backup(b)] = grants[Accounts!Backup(b)]
            /\ \A h \in Challenges : grants'[Accounts!Challenge(h)] = grants[Accounts!Challenge(h)]
            /\ \A t \in 1 .. MaxTokens : t # o => grants'[Accounts!Token(t)] = grants[Accounts!Token(t)]
        BY <2>6, CredentialsDiffer
      <3>2. ASSUME NEW t \in 1 .. MaxTokens, grants'[Accounts!Token(t)] # 0
            PROVE  t <= tokens /\ \A u \in DOMAIN sessions : u # s => sessions[u].token # t
        <4>1. CASE t = o
          <5>1. \A u \in DOMAIN sessions : sessions[u].token = o => u = s
            BY <1>2, <2>0, <2>3 DEF OnceInv, TokensDiffer
          <5> QED
            BY <2>3, <4>1, <5>1
        <4>2. CASE t # o
          BY <3>1, <3>2, <4>2 DEF OnceInv, SpentStaysSpent
        <4> QED
          BY <4>1, <4>2
      <3>3. ASSUME NEW t \in 1 .. MaxTokens, grants'[Accounts!Token(t)] # 0
            PROVE  t <= tokens' /\ \A u \in DOMAIN sessions' : sessions'[u].token # t
        <4>1. t <= tokens' /\ t # tokens'
          BY <2>1, <2>3, <3>2, <3>3
        <4> QED
          BY <2>8, <2>9, <3>2, <3>3, <4>1
      <3> QED
        BY <1>1, <3>1, <3>3 DEF OnceInv, SpentStaysSpent
    <2>14. TokensDiffer'
      <3>1. \A u \in DOMAIN sessions : sessions[u].token # tokens' /\ sessions[u].token <= tokens'
        BY <2>1, <2>2, <2>3, SessionsTyped DEF OnceInv, TokensDiffer
      <3>2. tokens' <= tokens'
        BY <2>3
      <3>3. \A u \in DOMAIN sessions' :
               sessions'[u].token <= tokens' /\ (sessions'[u].active => sessions'[u].token # 0)
        BY <2>3, <2>8, <2>9, <3>1, <3>2 DEF OnceInv, TokensDiffer
      <3>4. \A u, v \in DOMAIN sessions' :
               sessions'[u].token = sessions'[v].token /\ sessions'[u].token # 0 => u = v
        BY <2>8, <2>9, <3>1 DEF OnceInv, TokensDiffer
      <3> QED
        BY <3>3, <3>4 DEF TokensDiffer
    <2>15. ChallengesDiffer'
      BY <2>10 DEF OnceInv, ChallengesDiffer
    <2>16. ASSUME NEW q \in Signers, q # r PROVE Unspent(q)'
      <3>1. Unspent(q) /\ ctx'[q] = ctx[q] /\ locks'[q] = locks[q] /\ Accounts!Session(s) \notin locks[q]
        BY <1>3, <2>10, <2>16 DEF OnceInv
      <3>2. \A h \in Challenges : grants'[Accounts!Challenge(h)] = grants[Accounts!Challenge(h)]
        BY <2>6, CredentialsDiffer
      <3> QED
        BY <1>1, <2>9, <3>1, <3>2 DEF Unspent
    <2> QED
      BY <2>6, <2>10, <2>11, <2>12, <2>13, <2>14, <2>15, <2>16 DEF OnceInv
  <1> QED
    BY <1>4, <1>5

LEMMA OnceIssue ==
    ASSUME OnceInv, NEW r \in Signers, Accounts!Issue(r)
    PROVE  OnceInv'
  <1>0. PICK c, e : /\ c = ctx[r].cred
                    /\ e = [active |-> TRUE, version |-> ctx[r].version, token |-> tokens + 1,
                            began |-> ctx[r].version]
    OBVIOUS
  <1>1. /\ ctx[r].at = "issue" /\ tokens < MaxTokens /\ tokens' = tokens + 1
        /\ sessions' = Append(sessions, e)
        /\ lastStep' = IF c[1] = "totp" THEN c[2] ELSE lastStep
        /\ codes' = IF c[1] = "backup" THEN codes \ {c[2]} ELSE codes
        /\ challenges' = IF c[1] = "challenge" THEN challenges \ {c[2]} ELSE challenges
        /\ grants' = [grants EXCEPT ![c] = @ + 1]
        /\ Accounts!End(r) /\ version' = version
    BY <1>0 DEF Accounts!Issue, Accounts!VersionOf
  <1>2. AccountsTypeOK /\ Unspent(r)
    BY DEF OnceInv
  <1>3. \/ \E n \in 1 .. MaxStep + 1 : c = Accounts!Totp(n) /\ lastStep < n /\ Accounts!User \in locks[r]
        \/ \E b \in BackupCodes : c = Accounts!Backup(b) /\ b \in codes /\ Accounts!User \in locks[r]
        \/ \E h \in Challenges : c = Accounts!Challenge(h) /\ (h \in challenges \/ grants[c] = 0)
    BY <1>0, <1>1, <1>2 DEF Unspent
  <1>4. c \in Accounts!Credentials /\ grants[c] = 0
    <2>1. CASE \E n \in 1 .. MaxStep + 1 : c = Accounts!Totp(n) /\ lastStep < n
      <3>1. PICK n \in 1 .. MaxStep + 1 : c = Accounts!Totp(n) /\ lastStep < n
        BY <2>1
      <3>2. ~(n <= lastStep)
        BY <1>2, <3>1, AccountsAssumption DEF AccountsTypeOK, Accounts!TypeOK
      <3> QED
        BY <3>1, <3>2, CredentialsDiffer DEF OnceInv, SpentStaysSpent
    <2>2. CASE \E b \in BackupCodes : c = Accounts!Backup(b) /\ b \in codes
      BY <2>2, CredentialsDiffer DEF OnceInv, SpentStaysSpent
    <2>3. CASE \E h \in Challenges : c = Accounts!Challenge(h) /\ (h \in challenges \/ grants[c] = 0)
      BY <2>3, CredentialsDiffer DEF OnceInv, SpentStaysSpent
    <2> QED
      BY <1>3, <2>1, <2>2, <2>3
  <1>5. /\ grants' \in [Accounts!Credentials -> Nat] /\ UsedOnce'
        /\ \A d \in Accounts!Credentials : d # c => grants'[d] = grants[d]
    BY <1>1, <1>4, Granted
  <1>6. /\ ctx' \in [Signers -> Context] /\ DOMAIN locks' = Signers
        /\ \A q \in Signers : q # r => ctx'[q] = ctx[q] /\ locks'[q] = locks[q]
        /\ locks'[r] = {} /\ \A h \in Challenges : ctx'[r].cred # Accounts!Challenge(h)
        /\ Unspent(r)'
    BY <1>1, <1>2, EndedPresentsNothing
  <1>7. tokens \in Nat /\ MaxTokens \in Nat /\ tokens' \in 1 .. MaxTokens /\ tokens' # 0
    <2>1. tokens \in 1 .. MaxTokens /\ MaxTokens \in Nat
      BY <1>2, AccountsAssumption DEF AccountsTypeOK
    <2> QED
      BY <1>1, <2>1
  <1>8. e \in MobileSession /\ e.token = tokens' /\ e.active
    <2>1. ctx[r].version \in Nat
      BY <1>2 DEF AccountsTypeOK, Context
    <2> QED
      BY <1>0, <1>1, <1>7, <2>1 DEF MobileSession
  <1>9. PICK m \in Nat : m = Len(sessions) + 1
    BY <1>2, SessionsTyped
  <1>10. /\ DOMAIN sessions' = DOMAIN sessions \cup {m} /\ sessions'[m] = e /\ m \notin DOMAIN sessions
         /\ \A u \in DOMAIN sessions : sessions'[u] = sessions[u]
         /\ sessions' \in Seq(MobileSession)
    <2>1. sessions \in Seq(MobileSession) /\ Len(sessions) \in Nat /\ DOMAIN sessions = 1 .. Len(sessions)
      BY <1>2, SessionsTyped
    <2>2. /\ sessions' \in Seq(MobileSession) /\ Len(sessions') = m /\ sessions'[m] = e
          /\ \A u \in 1 .. Len(sessions) : sessions'[u] = sessions[u]
      BY <1>1, <1>8, <1>9, <2>1
    <2>3. DOMAIN sessions' = 1 .. m
      BY <2>2
    <2> QED
      BY <1>9, <2>1, <2>2, <2>3
  <1>11. /\ lastStep' \in Nat /\ lastStep <= lastStep' /\ lastStep \in Nat
         /\ codes' \subseteq codes /\ challenges' \subseteq challenges
    <2>1. lastStep \in Nat
      BY <1>2 DEF AccountsTypeOK, Accounts!TypeOK
    <2>2. lastStep' \in Nat /\ lastStep <= lastStep'
      <3>1. CASE \E n \in 1 .. MaxStep + 1 : c = Accounts!Totp(n) /\ lastStep < n
        <4>1. PICK n \in 1 .. MaxStep + 1 : c = Accounts!Totp(n) /\ lastStep < n
          BY <3>1
        <4>2. c[1] = "totp" /\ c[2] = n
          BY <4>1 DEF Accounts!Totp
        <4>3. lastStep' = n /\ n \in Nat
          BY <1>1, <4>2, AccountsAssumption
        <4> QED
          BY <2>1, <4>1, <4>3
      <3>2. CASE c[1] # "totp"
        BY <1>1, <2>1, <3>2
      <3> QED
        BY <1>3, <3>1, <3>2 DEF Accounts!Backup, Accounts!Challenge
    <2> QED
      BY <1>1, <2>1, <2>2
  <1>12. AccountsTypeOK'
    BY <1>1, <1>2, <1>5, <1>6, <1>7, <1>10, <1>11 DEF AccountsTypeOK, Accounts!TypeOK, MobileSession
  <1>13. RowLocksExclude'
    BY <1>6 DEF OnceInv, RowLocksExclude
  <1>14. SpentStaysSpent'
    <2>1. ASSUME NEW n \in 1 .. MaxStep + 1, grants'[Accounts!Totp(n)] # 0 PROVE n <= lastStep'
      <3>1. CASE c = Accounts!Totp(n)
        <4>1. lastStep' = n /\ n \in Nat
          BY <1>1, <3>1, AccountsAssumption DEF Accounts!Totp
        <4> QED
          BY <4>1
      <3>2. CASE c # Accounts!Totp(n)
        <4>1. n <= lastStep
          BY <1>5, <2>1, <3>2, CredentialsDiffer DEF OnceInv, SpentStaysSpent
        <4> QED
          BY <1>11, <4>1, AccountsAssumption
      <3> QED
        BY <3>1, <3>2
    <2>2. ASSUME NEW b \in BackupCodes, grants'[Accounts!Backup(b)] # 0 PROVE b \notin codes'
      <3>1. CASE c = Accounts!Backup(b)
        BY <1>1, <3>1 DEF Accounts!Backup
      <3>2. CASE c # Accounts!Backup(b)
        BY <1>5, <1>11, <2>2, <3>2, CredentialsDiffer DEF OnceInv, SpentStaysSpent
      <3> QED
        BY <3>1, <3>2
    <2>3. ASSUME NEW h \in Challenges, grants'[Accounts!Challenge(h)] # 0 PROVE h \notin challenges'
      <3>1. CASE c = Accounts!Challenge(h)
        BY <1>1, <3>1 DEF Accounts!Challenge
      <3>2. CASE c # Accounts!Challenge(h)
        BY <1>5, <1>11, <2>3, <3>2, CredentialsDiffer DEF OnceInv, SpentStaysSpent
      <3> QED
        BY <3>1, <3>2
    <2>4. ASSUME NEW t \in 1 .. MaxTokens, grants'[Accounts!Token(t)] # 0
          PROVE  t <= tokens' /\ \A u \in DOMAIN sessions' : sessions'[u].token # t
      <3>1. grants'[Accounts!Token(t)] = grants[Accounts!Token(t)]
        BY <1>3, <1>5, CredentialsDiffer
      <3>2. t <= tokens /\ \A u \in DOMAIN sessions : sessions[u].token # t
        BY <2>4, <3>1 DEF OnceInv, SpentStaysSpent
      <3>3. t <= tokens' /\ t # tokens'
        BY <1>1, <1>7, <3>2
      <3> QED
        BY <1>8, <1>10, <3>2, <3>3
    <2> QED
      BY <2>1, <2>2, <2>3, <2>4 DEF SpentStaysSpent
  <1>15. TokensDiffer'
    <2>1. \A u \in DOMAIN sessions : sessions[u].token # tokens' /\ sessions[u].token <= tokens'
      BY <1>1, <1>2, <1>7, SessionsTyped DEF OnceInv, TokensDiffer
    <2>2. tokens' <= tokens'
      BY <1>7
    <2>3. \A u \in DOMAIN sessions' :
             sessions'[u].token <= tokens' /\ (sessions'[u].active => sessions'[u].token # 0)
      BY <1>7, <1>8, <1>10, <2>1, <2>2 DEF OnceInv, TokensDiffer
    <2>4. \A u, v \in DOMAIN sessions' :
             sessions'[u].token = sessions'[v].token /\ sessions'[u].token # 0 => u = v
      BY <1>8, <1>10, <2>1 DEF OnceInv, TokensDiffer
    <2> QED
      BY <2>3, <2>4 DEF TokensDiffer
  <1>16. ChallengesDiffer'
    BY <1>6 DEF OnceInv, ChallengesDiffer
  <1>17. ASSUME NEW q \in Signers, q # r PROVE Unspent(q)'
    <2>1. Unspent(q) /\ ctx'[q] = ctx[q] /\ locks'[q] = locks[q]
      BY <1>6, <1>17 DEF OnceInv
    <2>2. Accounts!User \in locks[q] => lastStep' = lastStep /\ codes' = codes
      <3>1. Accounts!User \in locks[q] => Accounts!User \notin locks[r]
        BY <1>17 DEF OnceInv, RowLocksExclude
      <3>2. Accounts!User \notin locks[r] => c[1] = "challenge"
        BY <1>3 DEF Accounts!Challenge
      <3> QED
        BY <1>1, <3>1, <3>2
    <2>3. ASSUME NEW h \in Challenges, ctx[q].cred = Accounts!Challenge(h)
          PROVE  /\ h \in challenges' <=> h \in challenges
                 /\ grants'[Accounts!Challenge(h)] = grants[Accounts!Challenge(h)]
      <3>1. c # Accounts!Challenge(h)
        BY <1>0, <1>17, <2>3 DEF OnceInv, ChallengesDiffer
      <3>2. c[1] = "challenge" => c[2] # h
        BY <1>4, <3>1, CredentialKinds
      <3> QED
        BY <1>1, <1>5, <3>1, <3>2, CredentialsDiffer
    <2> QED
      BY <1>10, <2>1, <2>2, <2>3 DEF Unspent
  <1> QED
    BY <1>5, <1>6, <1>12, <1>13, <1>14, <1>15, <1>16, <1>17 DEF OnceInv

LEMMA OnceInit == Accounts!Init => OnceInv
  <1> SUFFICES ASSUME Accounts!Init PROVE OnceInv
    OBVIOUS
  <1>1. PICK on \in BOOLEAN :
           sessions = <<[active |-> on, version |-> 1, token |-> IF on THEN 1 ELSE 0, began |-> 1]>>
    BY DEF Accounts!Init
  <1>2. /\ version = 1 /\ lastStep = 0 /\ tokens = 1 /\ codes \in SUBSET BackupCodes
        /\ challenges \in SUBSET Challenges /\ ctx = [r \in Signers |-> Accounts!Idle]
        /\ locks = [r \in Signers |-> {}] /\ grants = [c \in Accounts!Credentials |-> 0]
    BY DEF Accounts!Init
  <1>3. DOMAIN sessions = {1} /\ sessions[1].token = (IF on THEN 1 ELSE 0) /\ sessions[1].active = on
    BY <1>1
  <1>4. sessions \in Seq(MobileSession)
    BY <1>1 DEF MobileSession
  <1>5. AccountsTypeOK
    BY <1>2, <1>4, IdleTyped, AccountsAssumption DEF AccountsTypeOK, Accounts!TypeOK, MobileSession
  <1>6. RowLocksExclude /\ ChallengesDiffer
    BY <1>2, IdleTyped, CredentialsDiffer DEF RowLocksExclude, ChallengesDiffer
  <1>7. SpentStaysSpent /\ UsedOnce
    BY <1>2, CredentialsDiffer DEF SpentStaysSpent, UsedOnce, Accounts!UsedOnce
  <1>8. TokensDiffer
    BY <1>2, <1>3 DEF TokensDiffer
  <1>9. \A r \in Signers : Unspent(r)
    BY <1>2, IdleTyped DEF Unspent
  <1> QED
    BY <1>5, <1>6, <1>7, <1>8, <1>9 DEF OnceInv

LEMMA OnceNext == OnceInv /\ [Accounts!Next]_(Accounts!vars) => OnceInv'
  <1> SUFFICES ASSUME OnceInv, [Accounts!Next]_(Accounts!vars) PROVE OnceInv'
    OBVIOUS
  <1>1. CASE UNCHANGED Accounts!vars \/ Accounts!Tick
    <2>1. UNCHANGED <<version, lastStep, codes, challenges, sessions, tokens, ctx, locks, grants>>
      BY <1>1 DEF Accounts!vars, Accounts!Tick
    <2> QED
      BY <2>1 DEF OnceInv, AccountsTypeOK, Accounts!TypeOK, RowLocksExclude, SpentStaysSpent, TokensDiffer,
                  ChallengesDiffer, UsedOnce, Accounts!UsedOnce, Unspent
  <1>2. ASSUME NEW h \in Challenges, Accounts!Expire(h) PROVE OnceInv'
    BY <1>2, OnceExpire
  <1>3. ASSUME NEW r \in Signers, Accounts!CommitChange(r) \/ Accounts!Abort(r) PROVE OnceInv'
    <2>1. /\ Accounts!End(r) /\ lastStep' = lastStep /\ codes' = codes /\ challenges' = challenges
          /\ sessions' = sessions /\ tokens' = tokens /\ grants' = grants
      BY <1>3 DEF Accounts!CommitChange, Accounts!Abort
    <2>2. version' \in Nat
      <3>1. version \in Nat /\ ctx[r].version \in Nat
        BY DEF OnceInv, AccountsTypeOK, Accounts!TypeOK, Context
      <3>2. version' = version \/ version' = ctx[r].version + 1
        BY <1>3 DEF Accounts!CommitChange, Accounts!Abort
      <3> QED
        BY <3>1, <3>2
    <2> QED
      BY <2>1, <2>2, OnceEnd
  <1>4. ASSUME NEW r \in Signers, NEW c \in Accounts!Credentials, Accounts!LoadUser(r, c) PROVE OnceInv'
    BY <1>4, OnceLoadUser
  <1>5. ASSUME NEW r \in Signers, NEW h \in Challenges, Accounts!TakeChallenge(r, h) PROVE OnceInv'
    BY <1>5, OnceTakeChallenge
  <1>6. ASSUME NEW r \in Signers, NEW s \in DOMAIN sessions, Accounts!StartRefresh(r, s) PROVE OnceInv'
    BY <1>6, OnceStartRefresh
  <1> QED
    BY <1>1, <1>2, <1>3, <1>4, <1>5, <1>6, OnceClaimStep, OnceClaimCode, OnceConsume, OnceRefuse, OnceIssue,
       OnceRefresh, OnceServe, OnceLoad DEF Accounts!Next

(* A time step, a backup code, a challenge and a refresh token each give   *)
(* tokens at most once, however many requests present it at the same time, *)
(* retry, are aborted or meet a change of credentials.                     *)
THEOREM CredentialsUsedOnce == Accounts!Spec => []UsedOnce
  <1>1. OnceInv => UsedOnce
    BY DEF OnceInv
  <1> QED
    BY <1>1, OnceInit, OnceNext, PTL DEF Accounts!Spec

-----------------------------------------------------------------------------
(* Sign-in: sessions and changes of credentials                            *)

\* A session carries the version its sign-in began with, and while no two
\* changes have overlapped nobody has loaded a later version than the account's.
SessionsBegan == \A s \in DOMAIN sessions : sessions[s].version = sessions[s].began
LoadedIsOlder == ~crossed => \A r \in Signers : ctx[r].version <= version

SessionInv == OnceInv /\ crossed \in BOOLEAN /\ SessionsBegan /\ LoadedIsOlder /\ OldSessionsEnd

LEMMA SessionInit == Accounts!Init => SessionInv
  <1> SUFFICES ASSUME Accounts!Init PROVE SessionInv
    OBVIOUS
  <1>1. OnceInv
    BY OnceInit
  <1>2. crossed = FALSE /\ served = {} /\ version = 1 /\ ctx = [r \in Signers |-> Accounts!Idle]
    BY DEF Accounts!Init
  <1>3. SessionsBegan
    <2>1. PICK on \in BOOLEAN :
             sessions = <<[active |-> on, version |-> 1, token |-> IF on THEN 1 ELSE 0, began |-> 1]>>
      BY DEF Accounts!Init
    <2> QED
      BY <2>1 DEF SessionsBegan
  <1>4. LoadedIsOlder
    BY <1>2 DEF LoadedIsOlder, Accounts!Idle
  <1>5. OldSessionsEnd
    BY <1>2 DEF OldSessionsEnd, Accounts!OldSessionsEnd
  <1> QED
    BY <1>1, <1>2, <1>3, <1>4, <1>5 DEF SessionInv

LEMMA EndedVersion == Accounts!Idle.version = 0 /\ Accounts!Idle \in Context
  BY IdleTyped DEF Accounts!Idle

\* Steps that leave the sessions' versions and what was served alone.
LEMMA SessionsAside ==
    ASSUME SessionInv, DOMAIN sessions' = DOMAIN sessions,
           \A s \in DOMAIN sessions : sessions'[s].version = sessions[s].version /\ sessions'[s].began = sessions[s].began
    PROVE  SessionsBegan'
  BY DEF SessionInv, SessionsBegan

\* The request whose step it is ends, or keeps or loads a version.
LEMMA SessionRequestStep ==
    ASSUME SessionInv, NEW r \in Signers,
           \/ \E c \in Accounts!Credentials : Accounts!LoadUser(r, c)
           \/ Accounts!ClaimStep(r) \/ Accounts!ClaimCode(r)
           \/ \E h \in Challenges : Accounts!TakeChallenge(r, h)
           \/ Accounts!ConsumeChallenge(r) \/ Accounts!CheckPasskey(r) \/ Accounts!RefuseHandoff(r)
           \/ Accounts!Issue(r)
           \/ \E s \in DOMAIN sessions : Accounts!StartRefresh(r, s) \/ Accounts!LoadClient(r, s)
           \/ Accounts!Refresh(r) \/ Accounts!Serve(r) \/ Accounts!Logout(r)
           \/ Accounts!LoadForChange(r) \/ Accounts!Abort(r)
    PROVE  LoadedIsOlder' /\ crossed' = crossed
  <1>0. ctx[r] \in Context /\ ctx \in [Signers -> Context] /\ version \in Nat
    BY DEF SessionInv, OnceInv, AccountsTypeOK, Accounts!TypeOK
  <1>1. version' = version /\ crossed' = crossed
    BY DEF Accounts!LoadUser, Accounts!ClaimStep, Accounts!ClaimCode, Accounts!TakeChallenge,
           Accounts!ConsumeChallenge, Accounts!CheckPasskey, Accounts!RefuseHandoff, Accounts!Issue,
           Accounts!StartRefresh, Accounts!LoadClient, Accounts!Refresh, Accounts!Serve, Accounts!Logout,
           Accounts!LoadForChange, Accounts!Abort
  <1>2. ctx'[r].version \in {0, version, ctx[r].version} /\ \A q \in Signers : q # r => ctx'[q] = ctx[q]
    <2>1. CASE Accounts!End(r)
      BY <1>0, <2>1, EndedVersion DEF Accounts!End
    <2>2. CASE \E f \in At : ctx' = [ctx EXCEPT ![r].at = f]
      BY <1>0, <2>2 DEF Context
    <2>3. CASE Accounts!CheckPasskey(r)
      BY <1>0, <2>3 DEF Accounts!CheckPasskey, Context
    <2>4. CASE Accounts!ClaimCode(r) /\ ctx' = [ctx EXCEPT ![r].codes = codes, ![r].tries = @ + 1]
      BY <1>0, <2>4 DEF Context
    <2>5. CASE \E c \in Accounts!Credentials : Accounts!LoadUser(r, c)
      BY <1>0, <2>5 DEF Accounts!LoadUser, Accounts!Idle
    <2>6. CASE \E h \in Challenges : Accounts!TakeChallenge(r, h)
      BY <1>0, <2>6 DEF Accounts!TakeChallenge, Accounts!Idle
    <2>7. CASE \E s \in DOMAIN sessions : Accounts!StartRefresh(r, s) \/ Accounts!LoadClient(r, s)
      BY <1>0, <2>7 DEF Accounts!StartRefresh, Accounts!LoadClient, Accounts!Idle
    <2>8. CASE Accounts!LoadForChange(r)
      BY <1>0, <2>8 DEF Accounts!LoadForChange, Accounts!Idle
    <2>9. Accounts!ClaimStep(r) => Accounts!End(r) \/ \E f \in At : ctx' = [ctx EXCEPT ![r].at = f]
      BY DEF Accounts!ClaimStep, At
    <2>10. Accounts!ClaimCode(r) => \/ Accounts!End(r) \/ \E f \in At : ctx' = [ctx EXCEPT ![r].at = f]
                                    \/ ctx' = [ctx EXCEPT ![r].codes = codes, ![r].tries = @ + 1]
      BY DEF Accounts!ClaimCode, At
    <2>11. Accounts!ConsumeChallenge(r) => \E f \in At : ctx' = [ctx EXCEPT ![r].at = f]
      BY DEF Accounts!ConsumeChallenge, At
    <2>12. Accounts!Serve(r) => Accounts!End(r) \/ \E f \in At : ctx' = [ctx EXCEPT ![r].at = f]
      BY DEF Accounts!Serve, At
    <2>13. Accounts!RefuseHandoff(r) \/ Accounts!Issue(r) \/ Accounts!Refresh(r) \/ Accounts!Logout(r)
           \/ Accounts!Abort(r) => Accounts!End(r)
      BY DEF Accounts!RefuseHandoff, Accounts!Issue, Accounts!Refresh, Accounts!Logout, Accounts!Abort
    <2> QED
      BY <2>1, <2>2, <2>3, <2>4, <2>5, <2>6, <2>7, <2>8, <2>9, <2>10, <2>11, <2>12, <2>13
  <1>3. LoadedIsOlder'
    BY <1>0, <1>1, <1>2 DEF SessionInv, LoadedIsOlder, Context
  <1> QED
    BY <1>1, <1>3

\* What Append leaves: the rows there were, in place, and the new one behind.
LEMMA AppendedRow ==
    ASSUME NEW S, NEW t \in Seq(S), NEW e \in S
    PROVE  /\ DOMAIN Append(t, e) = 1 .. Len(t) + 1 /\ Append(t, e)[Len(t) + 1] = e
           /\ \A u \in 1 .. Len(t) : Append(t, e)[u] = t[u]
  OBVIOUS

\* The rows of the sessions: a new one begins with its version, an older one
\* keeps it.
LEMMA SessionRows ==
    ASSUME SessionInv, OnceInv', NEW r \in Signers,
           sessions' = sessions \/ Accounts!Issue(r) \/ Accounts!Refresh(r) \/ Accounts!Serve(r) \/ Accounts!Logout(r)
    PROVE  SessionsBegan'
  <1>1. AccountsTypeOK /\ \A s \in DOMAIN sessions : sessions[s] \in MobileSession
    BY SessionsTyped DEF SessionInv, OnceInv
  <1>2. CASE sessions' = sessions
    BY <1>2 DEF SessionInv, SessionsBegan
  <1>3. ASSUME NEW s \in DOMAIN sessions, sessions' = Accounts!Ended(s) PROVE SessionsBegan'
    <2>1. DOMAIN sessions' = DOMAIN sessions
      BY <1>3 DEF Accounts!Ended
    <2>2. \A u \in DOMAIN sessions : sessions'[u].version = sessions[u].version /\ sessions'[u].began = sessions[u].began
      BY <1>1, <1>3 DEF Accounts!Ended, MobileSession
    <2> QED
      BY <2>1, <2>2, SessionsAside
  <1>4. CASE Accounts!Issue(r)
    <2>1. PICK e : /\ e = [active |-> TRUE, version |-> ctx[r].version, token |-> tokens',
                           began |-> ctx[r].version]
                   /\ sessions' = Append(sessions, e)
      BY <1>4 DEF Accounts!Issue, Accounts!VersionOf
    <2>2. e.version = e.began
      BY <2>1
    <2>3. sessions \in Seq(MobileSession) /\ Len(sessions) \in Nat /\ DOMAIN sessions = 1 .. Len(sessions)
      BY <1>1, SessionsTyped
    <2>4. DOMAIN sessions' = 1 .. Len(sessions) + 1 /\ sessions'[Len(sessions) + 1] = e
          /\ \A u \in 1 .. Len(sessions) : sessions'[u] = sessions[u]
      <3>1. sessions \in Seq(MobileSession \cup {e}) /\ e \in MobileSession \cup {e}
        BY <2>3
      <3>2. sessions' = Append(sessions, e)
        BY <2>1
      <3> QED
        BY <3>1, <3>2, AppendedRow
    <2>5. ASSUME NEW u \in DOMAIN sessions' PROVE sessions'[u].version = sessions'[u].began
      <3>1. CASE u = Len(sessions) + 1
        BY <2>2, <2>4, <3>1
      <3>2. CASE u \in DOMAIN sessions
        BY <2>3, <2>4, <3>2 DEF SessionInv, SessionsBegan
      <3> QED
        BY <2>3, <2>4, <3>1, <3>2
    <2> QED
      BY <2>5 DEF SessionsBegan
  <1>5. CASE Accounts!Refresh(r)
    <2>1. ctx[r].session \in DOMAIN sessions
      BY <1>5 DEF Accounts!Refresh, SessionInv, OnceInv, Unspent
    <2>2. CASE sessions[ctx[r].session].version # ctx[r].version
      BY <1>3, <1>5, <2>1, <2>2 DEF Accounts!Refresh
    <2>3. CASE sessions[ctx[r].session].version = ctx[r].version
      <3>1. sessions' = [sessions EXCEPT ![ctx[r].session].token = tokens']
        BY <1>5, <2>3 DEF Accounts!Refresh
      <3>2. DOMAIN sessions' = DOMAIN sessions
        BY <3>1
      <3>3. \A u \in DOMAIN sessions :
               sessions'[u].version = sessions[u].version /\ sessions'[u].began = sessions[u].began
        BY <1>1, <3>1 DEF MobileSession
      <3> QED
        BY <3>2, <3>3, SessionsAside
    <2> QED
      BY <2>2, <2>3
  <1>6. CASE Accounts!Serve(r) \/ Accounts!Logout(r)
    <2>1. ctx[r].session \in DOMAIN sessions
      BY <1>6 DEF Accounts!Serve, Accounts!Logout, SessionInv, OnceInv, Unspent
    <2>2. sessions' = sessions \/ sessions' = Accounts!Ended(ctx[r].session)
      BY <1>6 DEF Accounts!Serve, Accounts!Logout
    <2> QED
      BY <1>2, <1>3, <2>1, <2>2
  <1> QED
    BY <1>2, <1>4, <1>5, <1>6

\* Whoever is served has loaded no later version than the session began with.
LEMMA SessionServed ==
    ASSUME SessionInv, NEW r \in Signers, Accounts!Serve(r)
    PROVE  OldSessionsEnd'
  <1>0. PICK s : s = ctx[r].session
    OBVIOUS
  <1>1. crossed' = crossed /\ s \in DOMAIN sessions
    BY <1>0 DEF Accounts!Serve, SessionInv, OnceInv, Unspent
  <1>2. CASE sessions[s].version = version
    <2>1. served' = served \cup {<<sessions[s].began, ctx[r].version>>}
      BY <1>0, <1>2 DEF Accounts!Serve
    <2>2. ~crossed => sessions[s].began >= ctx[r].version
      <3>1. version \in Nat /\ ctx[r].version \in Nat /\ sessions[s].began = version
        BY <1>1, <1>2 DEF SessionInv, SessionsBegan, OnceInv, AccountsTypeOK, Accounts!TypeOK, Context
      <3>2. ~crossed => ctx[r].version <= version
        BY DEF SessionInv, LoadedIsOlder
      <3> QED
        BY <3>1, <3>2
    <2> QED
      BY <1>1, <2>1, <2>2 DEF SessionInv, OldSessionsEnd, Accounts!OldSessionsEnd
  <1>3. CASE sessions[s].version # version
    <2>1. served' = served
      BY <1>0, <1>3 DEF Accounts!Serve
    <2> QED
      BY <1>1, <2>1 DEF SessionInv, OldSessionsEnd, Accounts!OldSessionsEnd
  <1> QED
    BY <1>2, <1>3

LEMMA SessionNext == SessionInv /\ [Accounts!Next]_(Accounts!vars) => SessionInv'
  <1> SUFFICES ASSUME SessionInv, [Accounts!Next]_(Accounts!vars) PROVE SessionInv'
    OBVIOUS
  <1>1. OnceInv'
    BY OnceNext DEF SessionInv
  <1>2. ASSUME UNCHANGED <<version, sessions, ctx, served, crossed>> PROVE SessionInv'
    BY <1>1, <1>2 DEF SessionInv, SessionsBegan, LoadedIsOlder, OldSessionsEnd, Accounts!OldSessionsEnd
  <1>3. CASE UNCHANGED Accounts!vars \/ Accounts!Tick \/ \E h \in Challenges : Accounts!Expire(h)
    BY <1>2, <1>3 DEF Accounts!vars, Accounts!Tick, Accounts!Expire
  <1>4. ASSUME NEW r \in Signers, Accounts!CommitChange(r) PROVE SessionInv'
    <2>1. /\ version' = ctx[r].version + 1 /\ crossed' = (crossed \/ version # ctx[r].version)
          /\ ctx' = [ctx EXCEPT ![r] = Accounts!Idle] /\ UNCHANGED <<sessions, served>>
      BY <1>4 DEF Accounts!CommitChange, Accounts!End
    <2>2. SessionsBegan'
      BY <2>1 DEF SessionInv, SessionsBegan
    <2>3. LoadedIsOlder'
      <3>1. version \in Nat /\ ctx \in [Signers -> Context] /\ \A q \in Signers : ctx[q].version \in Nat
        BY DEF SessionInv, OnceInv, AccountsTypeOK, Accounts!TypeOK, Context
      <3>2. ASSUME ~crossed' PROVE ~crossed /\ version' = version + 1
        BY <2>1, <3>2
      <3>3. ASSUME ~crossed', NEW q \in Signers PROVE ctx'[q].version <= version'
        <4>1. ctx[q].version <= version
          BY <3>2, <3>3 DEF SessionInv, LoadedIsOlder
        <4>2. ctx'[q] = ctx[q] \/ ctx'[q].version = 0
          BY <2>1, <3>1, EndedVersion
        <4> QED
          BY <3>1, <3>2, <3>3, <4>1, <4>2
      <3> QED
        BY <3>3 DEF LoadedIsOlder
    <2>4. crossed' \in BOOLEAN /\ OldSessionsEnd'
      BY <2>1 DEF SessionInv, OldSessionsEnd, Accounts!OldSessionsEnd
    <2> QED
      BY <1>1, <2>2, <2>3, <2>4 DEF SessionInv
  <1>5. ASSUME NEW r \in Signers,
               \/ \E c \in Accounts!Credentials : Accounts!LoadUser(r, c)
               \/ Accounts!ClaimStep(r) \/ Accounts!ClaimCode(r)
               \/ \E h \in Challenges : Accounts!TakeChallenge(r, h)
               \/ Accounts!ConsumeChallenge(r) \/ Accounts!CheckPasskey(r) \/ Accounts!RefuseHandoff(r)
               \/ Accounts!Issue(r)
               \/ \E s \in DOMAIN sessions : Accounts!StartRefresh(r, s) \/ Accounts!LoadClient(r, s)
               \/ Accounts!Refresh(r) \/ Accounts!Serve(r) \/ Accounts!Logout(r)
               \/ Accounts!LoadForChange(r) \/ Accounts!Abort(r)
        PROVE  SessionInv'
    <2>1. LoadedIsOlder' /\ crossed' = crossed
      BY <1>5, SessionRequestStep
    <2>2. SessionsBegan'
      <3>1. sessions' = sessions \/ Accounts!Issue(r) \/ Accounts!Refresh(r) \/ Accounts!Serve(r) \/ Accounts!Logout(r)
        BY <1>5 DEF Accounts!LoadUser, Accounts!ClaimStep, Accounts!ClaimCode, Accounts!TakeChallenge,
                    Accounts!ConsumeChallenge, Accounts!CheckPasskey, Accounts!RefuseHandoff,
                    Accounts!StartRefresh, Accounts!LoadClient, Accounts!LoadForChange, Accounts!Abort
      <3> QED
        BY <1>1, <3>1, SessionRows
    <2>3. OldSessionsEnd'
      <3>1. served' = served \/ Accounts!Serve(r)
        BY <1>5 DEF Accounts!LoadUser, Accounts!ClaimStep, Accounts!ClaimCode, Accounts!TakeChallenge,
                    Accounts!ConsumeChallenge, Accounts!CheckPasskey, Accounts!RefuseHandoff, Accounts!Issue,
                    Accounts!StartRefresh, Accounts!LoadClient, Accounts!Refresh, Accounts!Logout,
                    Accounts!LoadForChange, Accounts!Abort
      <3>2. CASE served' = served
        BY <2>1, <3>2 DEF SessionInv, OldSessionsEnd, Accounts!OldSessionsEnd
      <3> QED
        BY <3>1, <3>2, SessionServed
    <2> QED
      BY <1>1, <2>1, <2>2, <2>3 DEF SessionInv
  <1> QED
    BY <1>3, <1>4, <1>5 DEF Accounts!Next

(* A request that arrives after a change of credentials is not served with *)
(* a session whose sign-in checked the older ones, however late that       *)
(* sign-in was stored and however often the session was refreshed.         *)
THEOREM OlderSessionsEnd == Accounts!Spec => []OldSessionsEnd
  <1>1. SessionInv => OldSessionsEnd
    BY DEF SessionInv
  <1> QED
    BY <1>1, SessionInit, SessionNext, PTL DEF Accounts!Spec
=============================================================================
