-------------------------- MODULE AssistantProofs --------------------------
(***************************************************************************)
(* Proofs about Assistant, for any number of users, workers and services   *)
(* and every bound: a run is claimed once and stays stopped, what is       *)
(* deleted is withdrawn, sensitive text of a running run stays inside, and *)
(* the allowance of a service is exceeded by a bounded number of calls.    *)
(***************************************************************************)
EXTENDS Assistant, FiniteSetTheorems, TLAPS

Doing == [at: Steps, run: Nat, holds: BOOLEAN, reasons: BOOLEAN,
          candidates: Seq(Services), retried: SUBSET Services]
Stopped == {"failed", "cancelled"}

\* What every step leaves of a run x, y being the run after it: nothing that
\* ended is active again, nothing is queued again, what was stopped stays so,
\* and only a run that runs is given a text.
Follows(x, y) ==
    /\ y \in Run /\ y.user = x.user /\ y.revision = x.revision /\ y.sensitive = x.sensitive
    /\ y.status \in Active => x.status \in Active
    /\ y.status = "queued" => x.status = "queued"
    /\ x.status \in Stopped => y.status \in Stopped
    /\ y.text = x.text \/ y.text = "" \/ x.status = "running"
    /\ y.kept => x.kept

RunsFollow ==
    /\ runs' \in Seq(Run)
    /\ \/ Len(runs') = Len(runs)
       \/ Len(runs') = Len(runs) + 1 /\ Len(runs) < MaxRuns
    /\ \A r \in Ids : Follows(runs[r], runs'[r])

\* A worker that has somebody to call.
Calling == {"planning call", "dial", "call", "refused"}

TurnTypeOK ==
    /\ TypeOK
    /\ Len(runs) <= MaxRuns
    /\ \A w \in Workers : worker[w].at # "idle" => worker[w].run \in Ids
    /\ \A w \in Workers : worker[w].at \in Calling => worker[w].candidates # <<>>

\* A run that was not claimed yet, and nobody works on one before it is.
ClaimInv ==
    /\ \A r \in 1 .. MaxRuns : claims[r] <= 1
    /\ \A r \in 1 .. MaxRuns : r \notin Ids \/ runs[r].status = "queued" => claims[r] = 0
    /\ \A w \in Workers : worker[w].at # "idle" => runs[worker[w].run].status # "queued"

\* From the first statement of a deletion on the runs of the conversation are
\* stopped and hold no text.
EraseInv ==
    \A r \in Ids \ raced : runs[r].user \in deleting \/ ~runs[r].kept
        => runs[r].text = "" /\ runs[r].status \in Stopped

\* While the run of a worker runs, whom it may call is private when the messages
\* are sensitive.
PrivateInv ==
    /\ \A w \in Workers : worker[w].holds = worker[w].reasons
    /\ \A w \in Workers : worker[w].at \in Calling /\ worker[w].holds
                          /\ runs[worker[w].run].status = "running"
         => \A i \in DOMAIN worker[w].candidates : worker[w].candidates[i] \notin external
    /\ \A r \in 1 .. MaxRuns : <<r, TRUE>> \notin disclosed

\* How often a worker that is at "me" may still call service s before it asks
\* for room again: each candidate once, and once more when it was busy.
Retry(me, s) == IF s \in me.retried THEN 0 ELSE 1
Spare(me, s) ==
    IF me.at \notin Calling \/ \A i \in DOMAIN me.candidates : me.candidates[i] # s THEN 0
    ELSE IF me.at = "planning call" THEN 1
    ELSE IF me.at = "dial" \/ me.candidates[1] # s THEN 1 + Retry(me, s)
    ELSE Retry(me, s)

\* These calls as a set, so that they can be counted.
Tokens(f) == {x \in Workers \X {1, 2} : x[2] <= f[x[1]]}
Spares(s) == [w \in Workers |-> Spare(worker[w], s)]

\* Candidates are different services, and the calls made and those still to be
\* made without asking keep within the bound.
Different(c) == \A i, j \in DOMAIN c : c[i] = c[j] => i = j
Bounded(n, f) == n + Cardinality(Tokens(f)) < Limit + 2 * Cardinality(Workers)
AllowanceInv ==
    /\ \A w \in Workers : Different(worker[w].candidates)
    /\ \A s \in Services : Bounded(calls[s], Spares(s))

-----------------------------------------------------------------------------
(* Types                                                                   *)

LEMMA Typed ==
    ASSUME TurnTypeOK
    PROVE  /\ runs \in Seq(Run) /\ Len(runs) \in Nat /\ MaxRuns \in Nat /\ DOMAIN runs = Ids
           /\ Ids \subseteq 1 .. MaxRuns
           /\ \A r \in Ids : r \in Nat /\ runs[r] \in Run
           /\ worker \in [Workers -> Doing] /\ \A w \in Workers : worker[w] \in Doing
  <1>1. runs \in Seq(Run)
    BY DEF TurnTypeOK, TypeOK
  <1>2. Len(runs) \in Nat /\ DOMAIN runs = Ids /\ \A r \in Ids : r \in Nat /\ runs[r] \in Run
    BY <1>1 DEF Ids
  <1>3. MaxRuns \in Nat /\ Ids \subseteq 1 .. MaxRuns
    BY <1>2, AssistantAssumption DEF Ids, TurnTypeOK
  <1>4. worker \in [Workers -> Doing]
    BY DEF TurnTypeOK, TypeOK, Doing
  <1> QED
    BY <1>1, <1>2, <1>3, <1>4

LEMMA IdleTyped == Idle \in Doing /\ Idle.at = "idle" /\ Idle.run = 0
  BY DEF Idle, Doing, Steps

\* Steps that replace the runs one by one.
LEMMA RunsReplaced ==
    ASSUME TurnTypeOK, DOMAIN runs' = Ids, runs' = [r \in Ids |-> runs'[r]],
           \A r \in Ids : Follows(runs[r], runs'[r])
    PROVE  RunsFollow /\ Len(runs') = Len(runs) /\ Ids' = Ids
  <1>1. Len(runs) \in Nat /\ Ids = 1 .. Len(runs)
    BY Typed DEF Ids
  <1>2. \A r \in Ids : runs'[r] \in Run
    BY DEF Follows
  <1>3. runs' \in [1 .. Len(runs) -> Run]
    BY <1>1, <1>2
  <1>4. runs' \in Seq(Run) /\ Len(runs') = Len(runs)
    BY <1>1, <1>3
  <1> QED
    BY <1>4 DEF RunsFollow, Ids

LEMMA RunKept == \A x \in Run : Follows(x, x)
  BY DEF Follows

LEMMA RunsUnchanged ==
    ASSUME TurnTypeOK, runs' = runs
    PROVE  RunsFollow /\ Len(runs') = Len(runs) /\ Ids' = Ids
  BY Typed, RunKept DEF RunsFollow, Ids

LEMMA OneRunReplaced ==
    ASSUME TurnTypeOK, NEW r \in Ids, NEW x, Follows(runs[r], x), runs' = [runs EXCEPT ![r] = x]
    PROVE  /\ RunsFollow /\ Len(runs') = Len(runs) /\ Ids' = Ids
           /\ runs'[r] = x /\ \A q \in Ids : q # r => runs'[q] = runs[q]
  <1>1. DOMAIN runs = Ids /\ \A q \in Ids : runs[q] \in Run
    BY Typed
  <1>2. /\ runs'[r] = x /\ \A q \in Ids : q # r => runs'[q] = runs[q]
        /\ DOMAIN runs' = Ids /\ runs' = [q \in Ids |-> runs'[q]]
    BY <1>1
  <1>3. \A q \in Ids : Follows(runs[q], runs'[q])
    BY <1>1, <1>2, RunKept
  <1> QED
    BY <1>2, <1>3, RunsReplaced

\* Stopping or ending a run, with or without its text.
LEMMA RunEnds ==
    ASSUME NEW x \in Run, NEW t \in Stopped, NEW m \in {x.text, ""}
    PROVE  /\ Follows(x, [x EXCEPT !.status = t, !.text = m])
           /\ Follows(x, [x EXCEPT !.status = t])
  BY DEF Follows, Run, Active, Ended, Stopped

LEMMA RunAnswered ==
    ASSUME NEW x \in Run, x.status = "running", NEW p \in BOOLEAN
    PROVE  /\ Follows(x, [x EXCEPT !.status = "completed", !.text = "answer", !.proposal = p])
           /\ Follows(x, [x EXCEPT !.status = "completed", !.text = "answer"])
  BY DEF Follows, Run, Active, Ended, Stopped

LEMMA RunClaimed ==
    ASSUME NEW x \in Run, x.status = "queued"
    PROVE  Follows(x, [x EXCEPT !.status = "running"])
  BY DEF Follows, Run, Active, Ended, Stopped

LEMMA SendFollows ==
    ASSUME TurnTypeOK, NEW u \in Users, NEW sensitive \in BOOLEAN, Send(u, sensitive)
    PROVE  /\ RunsFollow
           /\ \/ runs' = runs /\ raced' = raced
              \/ /\ Len(runs') = Len(runs) + 1 /\ Len(runs) < MaxRuns /\ Ids' = Ids \cup {Len(runs) + 1}
                 /\ \A r \in Ids : runs'[r] = runs[r]
                 /\ runs'[Len(runs) + 1].user = u /\ runs'[Len(runs) + 1].status = "queued"
                 /\ runs'[Len(runs) + 1].kept
                 /\ raced' = IF u \in deleting THEN raced \cup {Len(runs) + 1} ELSE raced
  <1>1. CASE runs' = runs /\ raced' = raced
    BY <1>1, RunsUnchanged
  <1>2. CASE ~(Len(runs) >= MaxRuns \/ \E r \in Ids : runs[r].user = u /\ runs[r].status \in Active)
    <2>1. PICK e : e = [status |-> "queued", user |-> u, revision |-> draft[u],
                        sensitive |-> sensitive, text |-> "question", proposal |-> FALSE, kept |-> TRUE]
      OBVIOUS
    <2>2. /\ runs' = Append(runs, e) /\ Len(runs) < MaxRuns
          /\ raced' = IF u \in deleting THEN raced \cup {Len(runs')} ELSE raced
      <3>1. Len(runs) \in Nat /\ MaxRuns \in Nat
        BY Typed
      <3> QED
        BY <1>2, <2>1, <3>1 DEF Send
    <2>3. e \in Run /\ e.user = u /\ e.status = "queued" /\ e.kept
      BY <2>1 DEF Run, Active, TurnTypeOK, TypeOK
    <2>4. runs \in Seq(Run) /\ Len(runs) \in Nat /\ Ids = 1 .. Len(runs) /\ \A r \in Ids : runs[r] \in Run
      BY Typed DEF Ids
    <2>5. /\ runs' \in Seq(Run) /\ Len(runs') = Len(runs) + 1 /\ runs'[Len(runs) + 1] = e
          /\ \A r \in Ids : runs'[r] = runs[r]
      BY <2>2, <2>3, <2>4
    <2>6. Ids' = Ids \cup {Len(runs) + 1}
      BY <2>4, <2>5 DEF Ids
    <2>7. RunsFollow
      BY <2>2, <2>4, <2>5, RunKept DEF RunsFollow
    <2> QED
      BY <2>2, <2>3, <2>5, <2>6, <2>7
  <1> QED
    BY <1>1, <1>2 DEF Send

LEMMA CancelFollows ==
    ASSUME TurnTypeOK, NEW r \in Ids, Cancel(r)
    PROVE  RunsFollow /\ Ids' = Ids
  <1>1. PICK x : x = [runs[r] EXCEPT !.status = "cancelled", !.text = ""]
    OBVIOUS
  <1>2. Follows(runs[r], x)
    BY <1>1, Typed, RunEnds DEF Stopped
  <1>3. runs' = [runs EXCEPT ![r] = x]
    BY <1>1, Typed DEF Cancel
  <1> QED
    BY <1>2, <1>3, OneRunReplaced

LEMMA DeleteFollows ==
    ASSUME TurnTypeOK, NEW u \in Users, BeginDelete(u) \/ EndDelete(u)
    PROVE  /\ RunsFollow /\ Ids' = Ids
           /\ BeginDelete(u) => \A r \in Ids : runs[r].user = u /\ runs[r].kept =>
                  runs'[r].text = "" /\ runs'[r].status = "cancelled"
           /\ EndDelete(u) => \A r \in Ids :
                  /\ runs'[r].text = runs[r].text /\ runs'[r].status = runs[r].status
                  /\ runs[r].user # u => runs'[r] = runs[r]
  <1>1. \A r \in Ids : runs[r] \in Run
    BY Typed
  <1>2. CASE BeginDelete(u)
    <2>1. runs' = [r \in Ids |-> IF runs[r].user = u /\ runs[r].kept
                                 THEN [runs[r] EXCEPT !.status = "cancelled", !.text = ""] ELSE runs[r]]
      BY <1>2 DEF BeginDelete
    <2>2. \A r \in Ids : Follows(runs[r], runs'[r])
      BY <1>1, <2>1, RunEnds, RunKept DEF Stopped
    <2>3. \A r \in Ids : runs[r].user = u /\ runs[r].kept => runs'[r].text = "" /\ runs'[r].status = "cancelled"
      BY <1>1, <2>1 DEF Run
    <2>4. RunsFollow /\ Ids' = Ids
      BY <2>1, <2>2, RunsReplaced
    <2>5. ~EndDelete(u)
      BY <1>2 DEF BeginDelete, EndDelete
    <2> QED
      BY <2>3, <2>4, <2>5
  <1>3. CASE EndDelete(u)
    <2>1. runs' = [r \in Ids |-> IF runs[r].user = u THEN [runs[r] EXCEPT !.kept = FALSE] ELSE runs[r]]
      BY <1>3 DEF EndDelete
    <2>2. \A x \in Run : /\ Follows(x, [x EXCEPT !.kept = FALSE])
                         /\ [x EXCEPT !.kept = FALSE].text = x.text /\ [x EXCEPT !.kept = FALSE].status = x.status
      BY DEF Follows, Run, Active, Ended, Stopped
    <2>3. \A r \in Ids : Follows(runs[r], runs'[r])
      BY <1>1, <2>1, <2>2, RunKept
    <2>4. \A r \in Ids : /\ runs'[r].text = runs[r].text /\ runs'[r].status = runs[r].status
                         /\ runs[r].user # u => runs'[r] = runs[r]
      BY <1>1, <2>1, <2>2
    <2>5. RunsFollow /\ Ids' = Ids
      BY <2>1, <2>3, RunsReplaced
    <2>6. ~BeginDelete(u)
      BY <1>3 DEF BeginDelete, EndDelete
    <2> QED
      BY <2>4, <2>5, <2>6
  <1> QED
    BY <1>2, <1>3

\* Changed settings stop every run.
LEMMA SettingsFollow ==
    ASSUME TurnTypeOK, CancelActive
    PROVE  RunsFollow /\ Ids' = Ids /\ \A r \in Ids : runs'[r].status \notin Active
  <1>1. \A r \in Ids : runs[r] \in Run
    BY Typed
  <1>2. runs' = [r \in Ids |-> IF runs[r].status \in Active
                               THEN [runs[r] EXCEPT !.status = "cancelled"] ELSE runs[r]]
    BY DEF CancelActive
  <1>3. \A r \in Ids : Follows(runs[r], runs'[r])
    BY <1>1, <1>2, RunEnds, RunKept DEF Stopped
  <1>4. \A r \in Ids : runs'[r].status \notin Active
    BY <1>1, <1>2 DEF Run, Active
  <1> QED
    BY <1>2, <1>3, <1>4, RunsReplaced

LEMMA ExpireFollows ==
    ASSUME TurnTypeOK, NEW w \in Workers, Expire(w)
    PROVE  RunsFollow /\ Ids' = Ids
  <1>1. \A r \in Ids : runs[r] \in Run
    BY Typed
  <1>2. runs' = [r \in Ids |-> IF Silent(r) THEN [runs[r] EXCEPT !.status = "failed"] ELSE runs[r]]
    BY DEF Expire, Interrupted
  <1>3. \A r \in Ids : Follows(runs[r], runs'[r])
    BY <1>1, <1>2, RunEnds, RunKept DEF Stopped
  <1> QED
    BY <1>2, <1>3, RunsReplaced

LEMMA ClaimFollows ==
    ASSUME TurnTypeOK, NEW w \in Workers, Claim(w)
    PROVE  \E r \in Ids :
               /\ RunsFollow /\ Ids' = Ids
               /\ runs[r].status = "queued" /\ runs'[r].status = "running"
               /\ \A q \in Ids : q # r => runs'[q] = runs[q]
               /\ worker' = [worker EXCEPT ![w].at = "prepare", ![w].run = r]
               /\ claims' = [claims EXCEPT ![r] = @ + 1]
  <1>1. PICK r \in Ids : /\ runs[r].status = "queued"
                         /\ runs' = [runs EXCEPT ![r].status = "running"]
                         /\ worker' = [worker EXCEPT ![w].at = "prepare", ![w].run = r]
                         /\ claims' = [claims EXCEPT ![r] = @ + 1]
    BY DEF Claim
  <1>2. PICK x : x = [runs[r] EXCEPT !.status = "running"]
    OBVIOUS
  <1>3. Follows(runs[r], x) /\ x.status = "running"
    BY <1>1, <1>2, Typed, RunClaimed DEF Run
  <1>4. runs' = [runs EXCEPT ![r] = x]
    BY <1>1, <1>2, Typed
  <1>5. /\ RunsFollow /\ Ids' = Ids /\ runs'[r] = x
        /\ \A q \in Ids : q # r => runs'[q] = runs[q]
    BY <1>3, <1>4, OneRunReplaced
  <1> QED
    BY <1>1, <1>3, <1>5

\* A worker answers or settles its run.
LEMMA WorkerFollows ==
    ASSUME TurnTypeOK, NEW w \in Workers, Reply(w) \/ Finish(w) \/ Settle(w)
    PROVE  RunsFollow /\ Ids' = Ids
  <1>0. PICK r \in Ids : r = worker[w].run
    BY DEF TurnTypeOK, Reply, Finish, Settle, Awake
  <1>1. runs[r] \in Run
    BY Typed
  <1>2. CASE runs' = runs
    BY <1>2, RunsUnchanged
  <1>3. CASE runs[r].status = "running" /\ runs' = [runs EXCEPT ![r].status = "completed", ![r].text = "answer"]
    <2>1. PICK x : x = [runs[r] EXCEPT !.status = "completed", !.text = "answer"]
      OBVIOUS
    <2>2. Follows(runs[r], x)
      BY <1>1, <1>3, <2>1, RunAnswered
    <2>3. runs' = [runs EXCEPT ![r] = x]
      BY <1>3, <2>1, Typed
    <2> QED
      BY <2>2, <2>3, OneRunReplaced
  <1>8. ASSUME NEW p \in BOOLEAN, runs[r].status = "running",
               runs' = [runs EXCEPT ![r].status = "completed", ![r].text = "answer", ![r].proposal = p]
        PROVE  RunsFollow /\ Ids' = Ids
    <2>1. PICK x : x = [runs[r] EXCEPT !.status = "completed", !.text = "answer", !.proposal = p]
      OBVIOUS
    <2>2. Follows(runs[r], x)
      BY <1>1, <1>8, <2>1, RunAnswered
    <2>3. runs' = [runs EXCEPT ![r] = x]
      BY <1>8, <2>1, Typed
    <2> QED
      BY <2>2, <2>3, OneRunReplaced
  <1>4. ASSUME NEW t \in Stopped, runs' = [runs EXCEPT ![r].text = "", ![r].status = t]
        PROVE  RunsFollow /\ Ids' = Ids
    <2>1. PICK x : x = [runs[r] EXCEPT !.text = "", !.status = t]
      OBVIOUS
    <2>2. x = [runs[r] EXCEPT !.status = t, !.text = ""]
      BY <1>1, <2>1 DEF Run
    <2>3. Follows(runs[r], x)
      BY <1>1, <2>2, RunEnds
    <2>4. runs' = [runs EXCEPT ![r] = x]
      BY <1>4, <2>1, Typed
    <2> QED
      BY <2>3, <2>4, OneRunReplaced
  <1>5. CASE Reply(w)
    BY <1>0, <1>2, <1>3, <1>5 DEF Reply, Publish
  <1>6. CASE Finish(w)
    BY <1>0, <1>2, <1>8, <1>6 DEF Finish, MayFinish, Continues
  <1>7. CASE Settle(w)
    BY <1>0, <1>2, <1>4, <1>7 DEF Settle, Stopped
  <1> QED
    BY <1>5, <1>6, <1>7

LEMMA RunsNext ==
    ASSUME TurnTypeOK, [Next]_vars
    PROVE  RunsFollow
  <1>1. CASE UNCHANGED vars
    BY <1>1, RunsUnchanged DEF vars
  <1>2. CASE Pages
    <2>1. ASSUME NEW u \in Users, OpenChat(u) PROVE RunsFollow
      BY <2>1, RunsUnchanged DEF OpenChat
    <2>2. ASSUME NEW on, NEW consent, SaveSettings(on, consent) PROVE RunsFollow
      BY <2>2, SettingsFollow DEF SaveSettings
    <2>3. ASSUME NEW x, EditService(x) PROVE RunsFollow
      BY <2>3, SettingsFollow DEF EditService
    <2> QED
      BY <1>2, <2>1, <2>2, <2>3, SendFollows, CancelFollows, DeleteFollows DEF Pages
  <1>3. ASSUME NEW w \in Workers, Work(w) \/ Crash(w) \/ Suspend(w) \/ Resume(w) PROVE RunsFollow
    <2>1. CASE runs' = runs
      BY <2>1, RunsUnchanged
    <2>2. CASE Expire(w) \/ Claim(w) \/ Reply(w) \/ Finish(w) \/ Settle(w)
      BY <2>2, ExpireFollows, ClaimFollows, WorkerFollows
    <2>3. (\E b \in BOOLEAN : CallFails(w, b) \/ StreamEnds(w, b)) => runs' = runs
      BY DEF CallFails, StreamEnds
    <2> QED
      BY <1>3, <2>1, <2>2, <2>3 DEF Work, Prepare, PlanTools, Plan, Dial, Flush, Crash, Suspend, Resume
  <1> QED
    BY <1>1, <1>2, <1>3 DEF Next

-----------------------------------------------------------------------------
(* What a step of a worker does to the worker                              *)

MovesTo(w, x) == x \in Doing /\ worker' = [worker EXCEPT ![w] = x]

LEMMA Moved ==
    ASSUME TurnTypeOK, NEW w \in Workers, NEW x, MovesTo(w, x)
    PROVE  /\ worker' \in [Workers -> Doing] /\ worker'[w] = x
           /\ \A v \in Workers : v # w => worker'[v] = worker[v]
  BY Typed DEF MovesTo

\* A plan is a sequence of different services, each of them eligible and with
\* room in its allowance.
LEMMA PlansTyped ==
    ASSUME NEW b, NEW p \in Plans(b)
    PROVE  /\ p \in Seq(Services) /\ Len(p) \in Nat /\ DOMAIN p = 1 .. Len(p) /\ Different(p)
           /\ \A i \in DOMAIN p : p[i] \in Services /\ p[i] \in Eligible(b) /\ HasRoom(p[i])
           /\ p # <<>> => Len(p) >= 1
  <1>1. PICK t \in SUBSET {s \in Eligible(b) : HasRoom(s)} : p \in SetToSeqs(t)
    BY DEF Plans, SetToAllKPermutations
  <1>2. t \subseteq Services /\ \A s \in t : s \in Services /\ s \in Eligible(b) /\ HasRoom(s)
    BY <1>1 DEF Eligible
  <1>3. Cardinality(t) \in Nat
    BY <1>2, AssistantAssumption, FS_Subset, FS_CardinalityType
  <1>4. PICK n \in Nat : n = Cardinality(t)
    BY <1>3
  <1>5. p \in [1 .. n -> t] /\ \A i, j \in 1 .. n : i # j => p[i] # p[j]
    BY <1>1, <1>4 DEF SetToSeqs
  <1>6. p \in [1 .. n -> Services]
    BY <1>2, <1>5
  <1>7. p \in Seq(Services) /\ Len(p) = n
    BY <1>4, <1>6
  <1>8. p # <<>> => Len(p) >= 1
    BY <1>7
  <1> QED
    BY <1>2, <1>5, <1>7, <1>8 DEF Different

\* At most three of its services are tried.
LEMMA ShortPlan ==
    ASSUME NEW p \in Seq(Services), Different(p), NEW k \in 1 .. Len(p), NEW q, q = SubSeq(p, 1, k)
    PROVE  /\ q \in Seq(Services) /\ Len(q) >= 1 /\ q # <<>> /\ Different(q)
           /\ \A i \in DOMAIN q : i \in DOMAIN p /\ q[i] = p[i]
  <1>1. Len(p) \in Nat /\ DOMAIN p = 1 .. Len(p) /\ k \in Nat /\ 1 <= k /\ k <= Len(p)
    OBVIOUS
  <1>2. \A i \in 1 .. k : i \in 1 .. Len(p)
    BY <1>1
  <1>3. q \in Seq(Services) /\ Len(q) = k
    BY <1>1
  <1>4. \A i \in 1 .. k : q[i] = p[i]
    BY <1>1
  <1>5. DOMAIN q = 1 .. k
    BY <1>3
  <1>6. q # <<>> /\ Len(q) >= 1
    BY <1>1, <1>3
  <1>7. Different(q)
    BY <1>1, <1>2, <1>4, <1>5 DEF Different
  <1> QED
    BY <1>1, <1>2, <1>3, <1>4, <1>5, <1>6, <1>7

\* Steps after which the worker has nobody to call.
LEMMA QuietMove ==
    ASSUME TurnTypeOK, NEW w \in Workers,
           Go(w, "decline") \/ Go(w, "stopped") \/ Go(w, "finish") \/ Go(w, "failed")
           \/ Leave(w) \/ Close(w, "streaming") \/ Close(w, "stopped")
    PROVE  \E x : /\ MovesTo(w, x) /\ x.at \notin Calling
                  /\ x.at # "idle" => x.run = worker[w].run
                  /\ worker[w].holds = worker[w].reasons => x.holds = x.reasons
                  /\ Different(worker[w].candidates) => Different(x.candidates)
  <1>0. worker[w] \in Doing
    BY Typed
  <1>1. CASE \E at \in {"decline", "stopped", "finish", "failed"} : Go(w, at)
    <2>1. PICK at \in {"decline", "stopped", "finish", "failed"} : worker' = [worker EXCEPT ![w].at = at]
      BY <1>1 DEF Go
    <2>2. PICK x : x = [worker[w] EXCEPT !.at = at]
      OBVIOUS
    <2>3. /\ x \in Doing /\ x.at \notin Calling /\ x.run = worker[w].run /\ x.holds = worker[w].holds
          /\ x.reasons = worker[w].reasons /\ x.candidates = worker[w].candidates
      BY <1>0, <2>2 DEF Doing, Steps, Calling
    <2>4. MovesTo(w, x)
      BY <2>1, <2>2, <2>3, Typed DEF MovesTo
    <2> QED
      BY <2>3, <2>4
  <1>2. Different(<<>>)
    BY DEF Different
  <1>3. CASE Leave(w)
    <2>1. MovesTo(w, Idle)
      BY <1>3, IdleTyped DEF Leave, MovesTo
    <2>2. Idle.at \notin Calling /\ Idle.at = "idle" /\ Idle.holds = Idle.reasons /\ Idle.candidates = <<>>
      BY DEF Idle, Calling
    <2> QED
      BY <1>2, <2>1, <2>2
  <1>4. CASE \E at \in {"streaming", "stopped"} : Close(w, at)
    <2>1. PICK at \in {"streaming", "stopped"} :
              worker' = [worker EXCEPT ![w] = [Idle EXCEPT !.at = at, !.run = worker[w].run]]
      BY <1>4 DEF Close
    <2>2. PICK x : x = [Idle EXCEPT !.at = at, !.run = worker[w].run]
      OBVIOUS
    <2>3. /\ x \in Doing /\ x.at \notin Calling /\ x.run = worker[w].run /\ x.holds = x.reasons
          /\ x.candidates = <<>>
      <3>1. Idle \in Doing /\ Idle.holds = Idle.reasons /\ Idle.candidates = <<>> /\ worker[w].run \in Nat
        BY <1>0, IdleTyped DEF Idle, Doing
      <3> QED
        BY <2>2, <3>1 DEF Doing, Steps, Calling
    <2>4. MovesTo(w, x)
      BY <2>1, <2>2, <2>3 DEF MovesTo
    <2> QED
      BY <1>2, <2>3, <2>4
  <1> QED
    BY <1>1, <1>3, <1>4

LEMMA ClaimMove ==
    ASSUME TurnTypeOK, NEW w \in Workers, NEW r \in Ids,
           worker' = [worker EXCEPT ![w].at = "prepare", ![w].run = r]
    PROVE  \E x : /\ MovesTo(w, x) /\ x.at = "prepare" /\ x.at \notin Calling /\ x.run = r
                  /\ x.holds = worker[w].holds /\ x.reasons = worker[w].reasons
                  /\ x.candidates = worker[w].candidates
  <1>1. PICK x : x = [worker[w] EXCEPT !.at = "prepare", !.run = r]
    OBVIOUS
  <1>2. worker[w] \in Doing /\ r \in Nat
    BY Typed
  <1>3. /\ x \in Doing /\ x.at = "prepare" /\ x.at \notin Calling /\ x.run = r /\ x.holds = worker[w].holds
        /\ x.reasons = worker[w].reasons /\ x.candidates = worker[w].candidates
    BY <1>1, <1>2 DEF Doing, Steps, Calling
  <1>4. MovesTo(w, x)
    BY <1>1, <1>3, Typed DEF MovesTo
  <1> QED
    BY <1>3, <1>4

LEMMA PrepareMove ==
    ASSUME TurnTypeOK, NEW w \in Workers, Prepare(w)
    PROVE  \E x : /\ MovesTo(w, x) /\ x.at # "idle" /\ x.run = worker[w].run
                  /\ worker[w].holds = worker[w].reasons => x.holds = x.reasons
                  /\ \/ x.at \notin Calling /\ (Different(worker[w].candidates) => Different(x.candidates))
                     \/ /\ x.at = "planning call"
                        /\ \E c \in Services : x.candidates = <<c>> /\ HasRoom(c) /\ c \in Eligible(x.holds)
  <1>0. worker[w] \in Doing /\ worker[w].at = "prepare" /\ worker[w].run \in Ids
    BY Typed DEF Prepare, Awake, TurnTypeOK
  <1>1. CASE Go(w, "stopped") \/ Go(w, "decline")
    <2>1. PICK x : /\ MovesTo(w, x) /\ x.at \notin Calling
                   /\ x.at # "idle" => x.run = worker[w].run
                   /\ worker[w].holds = worker[w].reasons => x.holds = x.reasons
                   /\ Different(worker[w].candidates) => Different(x.candidates)
      BY <1>1, QuietMove
    <2>2. x.at # "idle"
      <3>1. worker'[w] = x
        BY <2>1, Moved
      <3>2. worker'[w].at \in {"stopped", "decline"}
        BY <1>0, <1>1, Typed DEF Go, Doing
      <3> QED
        BY <3>1, <3>2
    <2> QED
      BY <2>1, <2>2
  <1>2. ASSUME NEW tools \in BOOLEAN, NEW p \in Plans(runs[worker[w].run].sensitive),
               worker' = [worker EXCEPT ![w].holds = runs[worker[w].run].sensitive,
                                        ![w].reasons = runs[worker[w].run].sensitive,
                                        ![w].at = IF tools /\ p # <<>> THEN "planning call" ELSE "plan",
                                        ![w].candidates = IF tools /\ p # <<>> THEN <<p[1]>> ELSE <<>>]
        PROVE  \E x : /\ MovesTo(w, x) /\ x.at # "idle" /\ x.run = worker[w].run
                      /\ x.holds = x.reasons
                      /\ \/ x.at \notin Calling /\ Different(x.candidates)
                         \/ /\ x.at = "planning call"
                            /\ \E c \in Services : x.candidates = <<c>> /\ HasRoom(c) /\ c \in Eligible(x.holds)
    <2>1. PICK b \in BOOLEAN : b = runs[worker[w].run].sensitive
      BY <1>0, Typed DEF Run
    <2>2. PICK c : c = IF tools /\ p # <<>> THEN <<p[1]>> ELSE <<>>
      OBVIOUS
    <2>3. PICK at : at = IF tools /\ p # <<>> THEN "planning call" ELSE "plan"
      OBVIOUS
    <2>4. PICK x : x = [worker[w] EXCEPT !.holds = b, !.reasons = b, !.at = at, !.candidates = c]
      OBVIOUS
    <2>5. p # <<>> => p[1] \in Services /\ p[1] \in Eligible(b) /\ HasRoom(p[1])
      <3>1. /\ Len(p) \in Nat /\ DOMAIN p = 1 .. Len(p) /\ (p # <<>> => Len(p) >= 1)
            /\ \A i \in DOMAIN p : p[i] \in Services /\ p[i] \in Eligible(b) /\ HasRoom(p[i])
        BY <1>2, <2>1, PlansTyped
      <3>2. p # <<>> => 1 \in DOMAIN p
        BY <3>1
      <3> QED
        BY <3>1, <3>2
    <2>6. c \in Seq(Services) /\ at \in {"planning call", "plan"}
      <3>1. \A s \in Services : <<s>> \in Seq(Services)
        OBVIOUS
      <3>2. <<>> \in Seq(Services)
        OBVIOUS
      <3> QED
        BY <2>2, <2>3, <2>5, <3>1, <3>2
    <2>7. /\ x \in Doing /\ x.at = at /\ x.run = worker[w].run /\ x.holds = b /\ x.reasons = b /\ x.candidates = c
      BY <1>0, <2>4, <2>6 DEF Doing, Steps
    <2>8. MovesTo(w, x)
      BY <1>2, <2>1, <2>2, <2>3, <2>4, <2>7, Typed DEF MovesTo
    <2>9. CASE tools /\ p # <<>>
      BY <2>2, <2>3, <2>5, <2>7, <2>8, <2>9
    <2>10. CASE ~(tools /\ p # <<>>)
      <3>1. x.at = "plan" /\ x.candidates = <<>>
        BY <2>2, <2>3, <2>7, <2>10
      <3>2. x.at \notin Calling /\ Different(x.candidates)
        BY <3>1 DEF Calling, Different
      <3> QED
        BY <2>7, <2>8, <3>1, <3>2
    <2> QED
      BY <2>9, <2>10
  <1> QED
    BY <1>1, <1>2 DEF Prepare

LEMMA PlanToolsMove ==
    ASSUME TurnTypeOK, NEW w \in Workers, PlanTools(w)
    PROVE  \E x : /\ MovesTo(w, x) /\ x.at # "idle" /\ x.at \notin Calling /\ x.run = worker[w].run
                  /\ worker[w].holds = worker[w].reasons => x.holds = x.reasons
                  /\ x.candidates = <<>>
  <1>0. worker[w] \in Doing
    BY Typed
  <1>1. PICK results \in BOOLEAN :
            worker' = [worker EXCEPT ![w].at = "plan", ![w].candidates = <<>>,
                                     ![w].holds = @ \/ results,
                                     ![w].reasons = @ \/ results]
    BY DEF PlanTools, Reasons
  <1>2. PICK h \in BOOLEAN : h = (worker[w].holds \/ results)
    OBVIOUS
  <1>3. PICK b \in BOOLEAN : b = (worker[w].reasons \/ results)
    OBVIOUS
  <1>4. PICK x : x = [worker[w] EXCEPT !.at = "plan", !.candidates = <<>>, !.holds = h, !.reasons = b]
    OBVIOUS
  <1>5. <<>> \in Seq(Services)
    OBVIOUS
  <1>6. /\ x \in Doing /\ x.at = "plan" /\ x.run = worker[w].run /\ x.holds = h /\ x.reasons = b /\ x.candidates = <<>>
    BY <1>0, <1>4, <1>5 DEF Doing, Steps
  <1>7. MovesTo(w, x)
    BY <1>1, <1>2, <1>3, <1>4, <1>6, Typed DEF MovesTo
  <1>8. worker[w].holds = worker[w].reasons => x.holds = x.reasons
    BY <1>2, <1>3, <1>6
  <1> QED
    BY <1>6, <1>7, <1>8 DEF Calling

LEMMA PlanMove ==
    ASSUME TurnTypeOK, NEW w \in Workers, Plan(w)
    PROVE  \E x : /\ MovesTo(w, x) /\ x.at # "idle" /\ x.run = worker[w].run
                  /\ x.holds = worker[w].holds /\ x.reasons = worker[w].reasons
                  /\ Different(x.candidates)
                  /\ \/ x.at \notin Calling
                     \/ /\ x.at = "dial" /\ x.candidates # <<>>
                        /\ \A i \in DOMAIN x.candidates :
                              HasRoom(x.candidates[i]) /\ x.candidates[i] \in Eligible(x.reasons)
  <1>0. worker[w] \in Doing
    BY Typed
  <1>1. PICK p \in Plans(worker[w].reasons) :
            worker' = [worker EXCEPT ![w].at = IF p = <<>> THEN "block" ELSE "dial",
                                     ![w].candidates = SubSeq(p, 1, IF Len(p) < 3 THEN Len(p) ELSE 3)]
    BY DEF Plan
  <1>2. PICK at : at = IF p = <<>> THEN "block" ELSE "dial"
    OBVIOUS
  <1>3. PICK k : k = IF Len(p) < 3 THEN Len(p) ELSE 3
    OBVIOUS
  <1>4. PICK q : q = SubSeq(p, 1, k)
    OBVIOUS
  <1>5. /\ p \in Seq(Services) /\ Len(p) \in Nat /\ Different(p)
        /\ \A i \in DOMAIN p : p[i] \in Eligible(worker[w].reasons) /\ HasRoom(p[i])
        /\ p # <<>> => Len(p) >= 1
    BY <1>1, PlansTyped
  <1>6. CASE p # <<>>
    <2>1. k \in 1 .. Len(p)
      BY <1>3, <1>5, <1>6
    <2>2. /\ q \in Seq(Services) /\ q # <<>> /\ Different(q)
          /\ \A i \in DOMAIN q : i \in DOMAIN p /\ q[i] = p[i]
      BY <1>4, <1>5, <2>1, ShortPlan
    <2>3. PICK x : x = [worker[w] EXCEPT !.at = "dial", !.candidates = q]
      OBVIOUS
    <2>4. /\ x \in Doing /\ x.at = "dial" /\ x.run = worker[w].run /\ x.holds = worker[w].holds
          /\ x.reasons = worker[w].reasons /\ x.candidates = q
      BY <1>0, <2>2, <2>3 DEF Doing, Steps
    <2>5. worker' = [worker EXCEPT ![w].at = "dial", ![w].candidates = q]
      BY <1>1, <1>3, <1>4, <1>6
    <2>6. MovesTo(w, x)
      BY <2>3, <2>4, <2>5, Typed DEF MovesTo
    <2>7. \A i \in DOMAIN q : HasRoom(q[i]) /\ q[i] \in Eligible(worker[w].reasons)
      BY <1>5, <2>2
    <2> QED
      BY <2>2, <2>4, <2>6, <2>7
  <1>7. CASE p = <<>>
    <2>1. q = <<>>
      BY <1>3, <1>4, <1>7
    <2>2. PICK x : x = [worker[w] EXCEPT !.at = "block", !.candidates = <<>>]
      OBVIOUS
    <2>3. <<>> \in Seq(Services) /\ Different(<<>>)
      BY DEF Different
    <2>4. /\ x \in Doing /\ x.at = "block" /\ x.run = worker[w].run /\ x.holds = worker[w].holds
          /\ x.reasons = worker[w].reasons /\ x.candidates = <<>>
      BY <1>0, <2>2, <2>3 DEF Doing, Steps
    <2>5. MovesTo(w, x)
      BY <1>1, <1>3, <1>4, <1>7, <2>1, <2>2, <2>4, Typed DEF MovesTo
    <2> QED
      BY <2>3, <2>4, <2>5 DEF Calling
  <1> QED
    BY <1>6, <1>7

LEMMA DialMove ==
    ASSUME TurnTypeOK, NEW w \in Workers, Dial(w)
    PROVE  \E x : /\ MovesTo(w, x) /\ x.at \in {"refused", "call"} /\ x.run = worker[w].run
                  /\ x.holds = worker[w].holds /\ x.reasons = worker[w].reasons
                  /\ x.candidates = worker[w].candidates /\ x.retried = worker[w].retried
  <1>0. worker[w] \in Doing
    BY Typed
  <1>1. PICK at \in {"refused", "call"} : worker' = [worker EXCEPT ![w].at = at]
    BY DEF Dial, Go
  <1>2. PICK x : x = [worker[w] EXCEPT !.at = at]
    OBVIOUS
  <1>3. /\ x \in Doing /\ x.at = at /\ x.run = worker[w].run /\ x.holds = worker[w].holds
        /\ x.reasons = worker[w].reasons /\ x.candidates = worker[w].candidates /\ x.retried = worker[w].retried
    BY <1>0, <1>2 DEF Doing, Steps
  <1>4. MovesTo(w, x)
    BY <1>1, <1>2, <1>3, Typed DEF MovesTo
  <1> QED
    BY <1>3, <1>4

LEMMA TailFacts ==
    ASSUME NEW c \in Seq(Services), Len(c) >= 2
    PROVE  /\ Tail(c) \in Seq(Services) /\ Tail(c) # <<>>
           /\ Len(Tail(c)) = Len(c) - 1 /\ DOMAIN Tail(c) = 1 .. Len(c) - 1
           /\ \A i \in 1 .. Len(c) - 1 : Tail(c)[i] = c[i + 1]
  <1>1. Len(c) \in Nat /\ c # <<>>
    OBVIOUS
  <1>2. Tail(c) \in Seq(Services) /\ Len(Tail(c)) = Len(c) - 1
    BY <1>1
  <1>3. \A i \in 1 .. Len(c) - 1 : Tail(c)[i] = c[i + 1]
    BY <1>1
  <1>4. DOMAIN Tail(c) = 1 .. Len(c) - 1
    BY <1>2
  <1>5. Len(Tail(c)) # 0 /\ Len(<<>>) = 0
    BY <1>1, <1>2
  <1>6. Tail(c) # <<>>
    BY <1>5
  <1> QED
    BY <1>2, <1>3, <1>4, <1>6

LEMMA TailInside ==
    ASSUME NEW c \in Seq(Services), c # <<>>, Tail(c) # <<>>, NEW i \in DOMAIN Tail(c)
    PROVE  \E k \in DOMAIN c : Tail(c)[i] = c[k]
  <1>1. Len(c) \in Nat /\ Len(c) >= 1 /\ DOMAIN c = 1 .. Len(c)
    OBVIOUS
  <1>2. DOMAIN Tail(c) = 1 .. Len(c) - 1 /\ i \in 1 .. Len(c) - 1
    BY <1>1
  <1>3. Len(c) >= 2 /\ i + 1 \in 1 .. Len(c)
    BY <1>1, <1>2
  <1>4. Tail(c)[i] = c[i + 1]
    BY <1>2, <1>3, TailFacts
  <1> QED
    BY <1>1, <1>3, <1>4

\* A failed call is followed by a retry, by the next candidate or by nothing.
LEMMA CallFailsMove ==
    ASSUME TurnTypeOK, NEW w \in Workers, NEW busy \in BOOLEAN, CallFails(w, busy),
           worker[w].candidates # <<>>
    PROVE  /\ worker[w].at \in {"call", "refused"}
           /\ \E x :
                /\ MovesTo(w, x) /\ x.at # "idle" /\ x.run = worker[w].run
                /\ \/ x.at \notin Calling /\ x.holds = x.reasons /\ x.candidates = <<>>
                   \/ /\ x.at = "dial" /\ x.holds = worker[w].holds /\ x.reasons = worker[w].reasons
                      /\ \/ /\ worker[w].at = "call" /\ worker[w].candidates[1] \notin worker[w].retried
                            /\ x.candidates = worker[w].candidates
                            /\ x.retried = worker[w].retried \cup {worker[w].candidates[1]}
                         \/ /\ x.candidates = Tail(worker[w].candidates) /\ x.candidates # <<>>
                            /\ x.retried = worker[w].retried
  <1>0. PICK me \in Doing : me = worker[w]
    BY Typed
  <1>1. PICK c \in Seq(Services) : c = me.candidates
    BY DEF Doing
  <1>2. Len(c) \in Nat /\ Len(c) >= 1 /\ c[1] \in Services
    BY <1>0, <1>1
  <1>3. worker[w].at \in {"call", "refused"}
    BY DEF CallFails, Awake
  <1>4. CASE busy /\ c[1] \notin me.retried
    <2>1. PICK x : x = [me EXCEPT !.at = "dial", !.retried = @ \cup {c[1]}]
      OBVIOUS
    <2>2. /\ x \in Doing /\ x.at = "dial" /\ x.run = me.run /\ x.holds = me.holds /\ x.reasons = me.reasons
          /\ x.candidates = me.candidates /\ x.retried = me.retried \cup {c[1]}
      BY <1>2, <2>1 DEF Doing, Steps
    <2>3. MovesTo(w, x)
      BY <1>0, <1>1, <1>4, <2>1, <2>2 DEF CallFails, MovesTo
    <2>4. worker[w].at = "call"
      BY <1>4 DEF CallFails, Awake
    <2> QED
      BY <1>0, <1>1, <1>3, <1>4, <2>2, <2>3, <2>4
  <1>5. CASE ~(busy /\ c[1] \notin me.retried) /\ Len(c) = 1
    <2>1. PICK x : x = [Idle EXCEPT !.at = "failed", !.run = me.run]
      OBVIOUS
    <2>2. Idle \in Doing /\ Idle.holds = Idle.reasons /\ Idle.candidates = <<>>
      BY IdleTyped DEF Idle
    <2>3. x \in Doing /\ x.at = "failed" /\ x.run = me.run /\ x.holds = x.reasons /\ x.candidates = <<>>
      BY <2>1, <2>2 DEF Doing, Steps
    <2>4. MovesTo(w, x)
      BY <1>0, <1>1, <1>5, <2>1, <2>3 DEF CallFails, MovesTo
    <2> QED
      BY <1>0, <1>3, <2>3, <2>4 DEF Calling
  <1>6. CASE ~(busy /\ c[1] \notin me.retried) /\ Len(c) # 1
    <2>1. Tail(c) \in Seq(Services) /\ Tail(c) # <<>>
      <3>0. Len(c) # 1
        BY <1>6
      <3>1. Len(c) >= 2
        <4>1. \A n \in Nat : n >= 1 /\ n # 1 => n >= 2
          OBVIOUS
        <4> QED
          BY <1>2, <3>0, <4>1
      <3> QED
        BY <3>1, TailFacts
    <2>2. PICK x : x = [me EXCEPT !.at = "dial", !.candidates = Tail(c)]
      OBVIOUS
    <2>3. /\ x \in Doing /\ x.at = "dial" /\ x.run = me.run /\ x.holds = me.holds /\ x.reasons = me.reasons
          /\ x.candidates = Tail(c) /\ x.retried = me.retried
      BY <2>1, <2>2 DEF Doing, Steps
    <2>4. worker' = [worker EXCEPT ![w] = [me EXCEPT !.at = "dial", !.candidates = Tail(@)]]
      BY <1>0, <1>1, <1>6 DEF CallFails
    <2>5. MovesTo(w, x)
      BY <1>1, <2>2, <2>3, <2>4 DEF MovesTo
    <2> QED
      BY <1>0, <1>1, <1>3, <2>1, <2>3, <2>5
  <1> QED
    BY <1>4, <1>5, <1>6

LEMMA TypeInit == Init => TurnTypeOK
  <1> SUFFICES ASSUME Init PROVE TurnTypeOK
    OBVIOUS
  <1>1. runs \in Seq(Run) /\ Len(runs) = 0 /\ MaxRuns \in Nat
    BY AssistantAssumption DEF Init
  <1>2. Idle \in [at: Steps, run: Nat, holds: BOOLEAN, reasons: BOOLEAN,
                  candidates: Seq(Services), retried: SUBSET Services]
    BY IdleTyped DEF Doing
  <1>3. TypeOK
    BY <1>1, <1>2, AssistantAssumption DEF Init, TypeOK
  <1>4. \A w \in Workers : worker[w].at = "idle"
    BY IdleTyped DEF Init
  <1>5. Len(runs) <= MaxRuns
    BY <1>1
  <1> QED
    BY <1>3, <1>4, <1>5 DEF TurnTypeOK, Calling

\* The workers keep their types: of one that moves it is enough to know where.
LEMMA MoveTyped ==
    ASSUME TurnTypeOK, RunsFollow, NEW w \in Workers, NEW x, MovesTo(w, x),
           x.at # "idle" => x.run \in Ids, x.at \in Calling => x.candidates # <<>>
    PROVE  /\ worker' \in [Workers -> Doing]
           /\ \A v \in Workers : worker'[v].at # "idle" => worker'[v].run \in Ids'
           /\ \A v \in Workers : worker'[v].at \in Calling => worker'[v].candidates # <<>>
  <1>1. /\ worker' \in [Workers -> Doing] /\ worker'[w] = x
        /\ \A v \in Workers : v # w => worker'[v] = worker[v]
    BY Moved
  <1>2. Ids \subseteq Ids'
    BY Typed DEF RunsFollow, Ids
  <1> QED
    BY <1>1, <1>2 DEF TurnTypeOK

LEMMA WorkersTyped ==
    ASSUME TurnTypeOK, [Next]_vars
    PROVE  /\ worker' \in [Workers -> Doing]
           /\ \A v \in Workers : worker'[v].at # "idle" => worker'[v].run \in Ids'
           /\ \A v \in Workers : worker'[v].at \in Calling => worker'[v].candidates # <<>>
  <1> DEFINE Goal == /\ worker' \in [Workers -> Doing]
                     /\ \A v \in Workers : worker'[v].at # "idle" => worker'[v].run \in Ids'
                     /\ \A v \in Workers : worker'[v].at \in Calling => worker'[v].candidates # <<>>
  <1>0. RunsFollow
    BY RunsNext
  <1>1. CASE worker' = worker
    <2>1. Ids \subseteq Ids'
      BY <1>0, Typed DEF RunsFollow, Ids
    <2> QED
      BY <1>1, <2>1, Typed DEF TurnTypeOK
  <1>2. (UNCHANGED vars \/ Pages) => worker' = worker
    BY DEF vars, Pages, OpenChat, Send, Cancel, BeginDelete, EndDelete, SaveSettings, EditService
  <1>3. ASSUME NEW w \in Workers, NEW x, MovesTo(w, x),
               x.at # "idle" => x.run \in Ids, x.at \in Calling => x.candidates # <<>>
        PROVE  Goal
    BY <1>0, <1>3, MoveTyped
  <1> HIDE DEF Goal
  <1>4. ASSUME NEW w \in Workers,
               Go(w, "decline") \/ Go(w, "stopped") \/ Go(w, "finish") \/ Go(w, "failed")
               \/ Leave(w) \/ Close(w, "streaming") \/ Close(w, "stopped"),
               worker[w].at # "idle"
        PROVE  Goal
    <2>1. worker[w].run \in Ids
      BY <1>4 DEF TurnTypeOK
    <2> QED
      BY <1>3, <1>4, <2>1, QuietMove
  <1>5. ASSUME NEW w \in Workers, Work(w) \/ Crash(w) PROVE Goal \/ worker' = worker
    <2>1. Expire(w) => worker' = worker
      BY DEF Expire
    <2>2. CASE Claim(w)
      <3>1. PICK r \in Ids : worker' = [worker EXCEPT ![w].at = "prepare", ![w].run = r]
        BY <2>2, ClaimFollows
      <3>2. PICK x : MovesTo(w, x) /\ x.at \notin Calling /\ x.run = r
        BY <3>1, ClaimMove
      <3> QED
        BY <1>3, <3>2
    <2>3. CASE Reply(w) \/ Flush(w) \/ Finish(w) \/ Settle(w) \/ Crash(w)
      BY <1>4, <2>3 DEF Reply, Flush, Finish, Settle, Crash, Awake
    <2>4. CASE \E b \in BOOLEAN : StreamEnds(w, b)
      BY <1>4, <2>4 DEF StreamEnds, Awake
    <2>5. worker[w].at # "idle" => worker[w].run \in Ids
      BY DEF TurnTypeOK
    <2>6. CASE Prepare(w)
      <3>1. worker[w].at # "idle"
        BY <2>6 DEF Prepare, Awake
      <3>2. \A c \in Services : <<c>> # <<>>
        OBVIOUS
      <3> QED
        BY <1>3, <2>5, <2>6, <3>1, <3>2, PrepareMove
    <2>7. CASE PlanTools(w) \/ Plan(w)
      <3>1. worker[w].at # "idle"
        BY <2>7 DEF PlanTools, Plan, Awake
      <3> QED
        BY <1>3, <2>5, <2>7, <3>1, PlanToolsMove, PlanMove
    <2>8. CASE Dial(w)
      <3>1. worker[w].at = "dial"
        BY <2>8 DEF Dial, Awake
      <3>2. worker[w].candidates # <<>>
        BY <3>1 DEF TurnTypeOK, Calling
      <3> QED
        BY <1>3, <2>5, <2>8, <3>1, <3>2, DialMove
    <2>9. ASSUME NEW b \in BOOLEAN, CallFails(w, b) PROVE Goal
      <3>1. worker[w].at \in {"call", "refused"}
        BY <2>9 DEF CallFails, Awake
      <3>2. worker[w].candidates # <<>> /\ worker[w].run \in Ids
        BY <3>1 DEF TurnTypeOK, Calling
      <3> QED
        BY <1>3, <2>9, <3>2, CallFailsMove
    <2> QED
      BY <1>5, <2>1, <2>2, <2>3, <2>4, <2>6, <2>7, <2>8, <2>9 DEF Work
  <1>6. \A w \in Workers : Suspend(w) \/ Resume(w) => worker' = worker
    BY DEF Suspend, Resume
  <1>7. Goal
    BY <1>1, <1>2, <1>5, <1>6 DEF Next, Goal
  <1> QED
    BY <1>7 DEF Goal

LEMMA SettingsTyped ==
    ASSUME TurnTypeOK, [Next]_vars
    PROVE  /\ config' \in [on: BOOLEAN, consent: BOOLEAN, revision: Nat] /\ external' \subseteq Services
           /\ draft' \in [Users -> Nat] /\ deleting' \subseteq Users
           /\ slow' \subseteq Workers /\ faults' \in Nat
  <1>0. /\ config \in [on: BOOLEAN, consent: BOOLEAN, revision: Nat] /\ external \subseteq Services
        /\ draft \in [Users -> Nat] /\ deleting \subseteq Users /\ slow \subseteq Workers /\ faults \in Nat
    BY DEF TurnTypeOK, TypeOK
  <1>1. UNCHANGED vars \/ Pages => slow' = slow /\ faults' = faults
    BY DEF vars, Pages, OpenChat, Send, Cancel, BeginDelete, EndDelete, SaveSettings, EditService
  <1>2. ASSUME NEW w \in Workers, Work(w) \/ Crash(w) \/ Suspend(w) \/ Resume(w)
        PROVE  config' = config /\ external' = external /\ draft' = draft /\ deleting' = deleting
    <2>1. (\E b \in BOOLEAN : CallFails(w, b) \/ StreamEnds(w, b)) =>
              config' = config /\ external' = external /\ draft' = draft /\ deleting' = deleting
      BY DEF CallFails, StreamEnds, pages
    <2> QED
      BY <1>2, <2>1 DEF Work, Expire, Claim, Prepare, Reply, PlanTools, Plan, Dial, Flush, Finish, Settle,
                        Crash, Suspend, Resume, pages
  <1>3. ASSUME NEW w \in Workers, Work(w) PROVE slow' = slow /\ faults' = faults
    <2>1. (\E b \in BOOLEAN : CallFails(w, b) \/ StreamEnds(w, b)) => slow' = slow /\ faults' = faults
      BY DEF CallFails, StreamEnds
    <2> QED
      BY <1>3, <2>1 DEF Work, Expire, Claim, Prepare, Reply, PlanTools, Plan, Dial, Flush, Finish, Settle
  <1>4. ASSUME NEW w \in Workers, Crash(w) \/ Suspend(w) \/ Resume(w)
        PROVE  slow' \subseteq Workers /\ faults' \in Nat
    BY <1>0, <1>4 DEF Crash, Suspend, Resume
  <1>5. slow' \subseteq Workers /\ faults' \in Nat
    BY <1>0, <1>1, <1>3, <1>4 DEF Next
  <1>6. UNCHANGED vars => config' = config /\ external' = external /\ draft' = draft /\ deleting' = deleting
    BY DEF vars, pages
  <1>7. ASSUME NEW u \in Users, OpenChat(u) \/ BeginDelete(u) \/ EndDelete(u) \/ \E b \in BOOLEAN : Send(u, b)
        PROVE  /\ config' = config /\ external' = external
               /\ draft' \in [Users -> Nat] /\ deleting' \subseteq Users
    <2>1. config' = config /\ external' = external /\ deleting' \subseteq Users
      BY <1>0, <1>7 DEF OpenChat, BeginDelete, EndDelete, Send
    <2>2. draft' = draft \/ \E n \in {0, config.revision} : draft' = [draft EXCEPT ![u] = n]
      BY <1>7 DEF OpenChat, BeginDelete, EndDelete, Send
    <2>3. config.revision \in Nat
      BY <1>0
    <2>4. draft' \in [Users -> Nat]
      BY <1>0, <2>2, <2>3
    <2> QED
      BY <2>1, <2>4
  <1>8. ASSUME NEW on \in BOOLEAN, NEW consent \in BOOLEAN, SaveSettings(on, consent)
        PROVE  /\ config' \in [on: BOOLEAN, consent: BOOLEAN, revision: Nat]
               /\ external' = external /\ draft' = draft /\ deleting' = deleting
    BY <1>0, <1>8 DEF SaveSettings, pages
  <1>9. ASSUME NEW x \in Services, EditService(x)
        PROVE  /\ config' \in [on: BOOLEAN, consent: BOOLEAN, revision: Nat]
               /\ external' \subseteq Services /\ draft' = draft /\ deleting' = deleting
    BY <1>0, <1>9 DEF EditService, pages
  <1>10. \A r \in Ids : Cancel(r) => config' = config /\ external' = external /\ draft' = draft /\ deleting' = deleting
    BY DEF Cancel, pages
  <1> QED
    BY <1>0, <1>2, <1>5, <1>6, <1>7, <1>8, <1>9, <1>10 DEF Next, Pages

LEMMA FirstCandidate ==
    ASSUME TurnTypeOK, NEW w \in Workers, worker[w].at \in Calling
    PROVE  /\ worker[w].candidates \in Seq(Services) /\ Len(worker[w].candidates) \in Nat
           /\ Len(worker[w].candidates) >= 1
           /\ DOMAIN worker[w].candidates = 1 .. Len(worker[w].candidates)
           /\ 1 \in DOMAIN worker[w].candidates /\ worker[w].candidates[1] \in Services
  <1>1. PICK c \in Seq(Services) : c = worker[w].candidates
    BY Typed DEF Doing
  <1>2. c # <<>>
    BY <1>1 DEF TurnTypeOK
  <1>3. Len(c) \in Nat /\ Len(c) >= 1 /\ DOMAIN c = 1 .. Len(c)
    BY <1>2
  <1>4. 1 \in DOMAIN c /\ c[1] \in Services
    BY <1>3
  <1> QED
    BY <1>1, <1>3, <1>4

LEMMA HistoryTyped ==
    ASSUME TurnTypeOK, [Next]_vars
    PROVE  /\ calls' \in [Services -> Nat] /\ claims' \in [1 .. MaxRuns -> Nat]
           /\ disclosed' \subseteq (1 .. MaxRuns) \X BOOLEAN /\ raced' \subseteq 1 .. MaxRuns
  <1>0. /\ calls \in [Services -> Nat] /\ claims \in [1 .. MaxRuns -> Nat]
        /\ disclosed \subseteq (1 .. MaxRuns) \X BOOLEAN /\ raced \subseteq 1 .. MaxRuns
    BY DEF TurnTypeOK, TypeOK
  <1>1. UNCHANGED vars => calls' = calls /\ claims' = claims /\ disclosed' = disclosed /\ raced' = raced
    BY DEF vars, history
  <1>2. ASSUME NEW u \in Users, NEW b \in BOOLEAN, Send(u, b)
        PROVE  calls' = calls /\ claims' = claims /\ disclosed' = disclosed /\ raced' \subseteq 1 .. MaxRuns
    <2>1. calls' = calls /\ claims' = claims /\ disclosed' = disclosed
      BY <1>2 DEF Send
    <2>2. Len(runs) \in Nat /\ MaxRuns \in Nat
      BY Typed
    <2>3. Len(runs) < MaxRuns => Len(runs) + 1 \in 1 .. MaxRuns
      BY <2>2
    <2> QED
      BY <1>0, <1>2, <2>1, <2>3, SendFollows
  <1>3. Pages => \/ calls' = calls /\ claims' = claims /\ disclosed' = disclosed /\ raced' = raced
                 \/ \E u \in Users, b \in BOOLEAN : Send(u, b)
    BY DEF Pages, OpenChat, Cancel, BeginDelete, EndDelete, SaveSettings, EditService, history
  <1>4. ASSUME NEW w \in Workers, Claim(w)
        PROVE  calls' = calls /\ disclosed' = disclosed /\ raced' = raced /\ claims' \in [1 .. MaxRuns -> Nat]
    <2>1. calls' = calls /\ disclosed' = disclosed /\ raced' = raced
      BY <1>4 DEF Claim
    <2>2. PICK r \in Ids : claims' = [claims EXCEPT ![r] = @ + 1]
      BY <1>4 DEF Claim
    <2>3. r \in 1 .. MaxRuns
      BY Typed
    <2>4. claims[r] + 1 \in Nat
      BY <1>0, <2>3
    <2>5. claims' \in [1 .. MaxRuns -> Nat]
      BY <1>0, <2>2, <2>3, <2>4
    <2> QED
      BY <2>1, <2>5
  <1>5. ASSUME NEW w \in Workers, PlanTools(w) \/ Dial(w)
        PROVE  /\ calls' \in [Services -> Nat] /\ claims' = claims /\ raced' = raced
               /\ disclosed' \subseteq (1 .. MaxRuns) \X BOOLEAN
    <2>1. worker[w].at \in {"planning call", "dial"} /\ worker[w].run \in 1 .. MaxRuns
      <3>1. worker[w].at \in {"planning call", "dial"}
        BY <1>5 DEF PlanTools, Dial, Awake
      <3> QED
        BY <3>1, Typed DEF TurnTypeOK
    <2>2. PICK c : c = worker[w].candidates[1]
      OBVIOUS
    <2>3. calls' = [calls EXCEPT ![c] = @ + 1] /\ claims' = claims /\ raced' = raced /\ Disclose(w, c)
      BY <1>5, <2>2 DEF PlanTools, Dial
    <2>4. \/ disclosed' = disclosed
          \/ disclosed' = disclosed \cup {<<worker[w].run, runs[worker[w].run].status = "running">>}
      BY <2>3 DEF Disclose
    <2>5. PICK b \in BOOLEAN : b = (runs[worker[w].run].status = "running")
      OBVIOUS
    <2>6. disclosed' \subseteq (1 .. MaxRuns) \X BOOLEAN
      <3>1. disclosed' \subseteq disclosed \cup {<<worker[w].run, b>>}
        BY <2>4, <2>5
      <3>2. <<worker[w].run, b>> \in (1 .. MaxRuns) \X BOOLEAN
        BY <2>1
      <3> QED
        BY <1>0, <3>1, <3>2
    <2>7. c \in Services
      BY <2>1, <2>2, FirstCandidate DEF Calling
    <2>8. calls' \in [Services -> Nat]
      BY <1>0, <2>3, <2>7
    <2> QED
      BY <2>3, <2>6, <2>8
  <1>6. ASSUME NEW w \in Workers, Work(w) \/ Crash(w) \/ Suspend(w) \/ Resume(w)
        PROVE  \/ calls' = calls /\ claims' = claims /\ disclosed' = disclosed /\ raced' = raced
               \/ Claim(w) \/ PlanTools(w) \/ Dial(w)
    <2>1. (\E b \in BOOLEAN : CallFails(w, b) \/ StreamEnds(w, b)) =>
              calls' = calls /\ claims' = claims /\ disclosed' = disclosed /\ raced' = raced
      BY DEF CallFails, StreamEnds, history
    <2> QED
      BY <1>6, <2>1 DEF Work, Expire, Prepare, Reply, Plan, Flush, Finish, Settle, Crash, Suspend, Resume, history
  <1> QED
    BY <1>0, <1>1, <1>2, <1>3, <1>4, <1>5, <1>6 DEF Next

LEMMA TypeNext == TurnTypeOK /\ [Next]_vars => TurnTypeOK'
  <1> SUFFICES ASSUME TurnTypeOK, [Next]_vars PROVE TurnTypeOK'
    OBVIOUS
  <1>1. runs' \in Seq(Run) /\ Len(runs') <= MaxRuns
    <2>1. RunsFollow /\ Len(runs) \in Nat /\ MaxRuns \in Nat /\ Len(runs) <= MaxRuns
      BY RunsNext, Typed DEF TurnTypeOK
    <2> QED
      BY <2>1 DEF RunsFollow
  <1>2. TypeOK'
    BY <1>1, WorkersTyped, SettingsTyped, HistoryTyped DEF TypeOK, Doing
  <1> QED
    BY <1>1, <1>2, WorkersTyped DEF TurnTypeOK

\* Every row keeps its type, and a worker that has begun has a run, whatever the
\* pages and other workers do to that run meanwhile.
THEOREM TurnsKeepTheirTypes == Spec => []TypeOK
  <1>1. TurnTypeOK => TypeOK
    BY DEF TurnTypeOK
  <1> QED
    BY <1>1, TypeInit, TypeNext, PTL DEF Spec

-----------------------------------------------------------------------------
(* Claims                                                                  *)

\* A worker keeps its run until it is idle again.
LEMMA WorkersKeepRuns ==
    ASSUME TurnTypeOK, [Next]_vars
    PROVE  \A v \in Workers : worker'[v].at # "idle" =>
               \/ worker[v].at # "idle" /\ worker'[v].run = worker[v].run
               \/ Claim(v) /\ worker'[v].run \in Ids /\ runs'[worker'[v].run].status = "running"
  <1> DEFINE Keeps(v) == worker'[v].at # "idle" =>
                 \/ worker[v].at # "idle" /\ worker'[v].run = worker[v].run
                 \/ Claim(v) /\ worker'[v].run \in Ids /\ runs'[worker'[v].run].status = "running"
  <1>1. CASE worker' = worker
    BY <1>1
  <1>2. (UNCHANGED vars \/ Pages) => worker' = worker
    BY DEF vars, Pages, OpenChat, Send, Cancel, BeginDelete, EndDelete, SaveSettings, EditService
  <1>3. ASSUME NEW w \in Workers, NEW x, MovesTo(w, x), worker[w].at # "idle",
               x.at # "idle" => x.run = worker[w].run
        PROVE  \A v \in Workers : Keeps(v)
    <2>1. worker'[w] = x /\ \A v \in Workers : v # w => worker'[v] = worker[v]
      BY <1>3, Moved
    <2> QED
      BY <1>3, <2>1
  <1>4. ASSUME NEW w \in Workers, Claim(w) PROVE \A v \in Workers : Keeps(v)
    <2>1. PICK r \in Ids : /\ worker' = [worker EXCEPT ![w].at = "prepare", ![w].run = r]
                           /\ runs'[r].status = "running"
      BY <1>4, ClaimFollows
    <2>2. PICK x : MovesTo(w, x) /\ x.at \notin Calling /\ x.run = r
      <3> HIDE DEF Keeps
      <3>1. worker' = [worker EXCEPT ![w].at = "prepare", ![w].run = r]
        BY <2>1
      <3> QED
        BY <3>1, ClaimMove
    <2>3. worker'[w] = x /\ \A v \in Workers : v # w => worker'[v] = worker[v]
      BY <2>2, Moved
    <2> QED
      BY <1>4, <2>1, <2>2, <2>3
  <1>5. ASSUME NEW w \in Workers, Work(w) \/ Crash(w)
        PROVE  (\A v \in Workers : Keeps(v)) \/ worker' = worker
    <2> HIDE DEF Keeps
    <2>1. Expire(w) => worker' = worker
      BY DEF Expire
    <2>2. CASE Reply(w) \/ Flush(w) \/ Finish(w) \/ Settle(w) \/ Crash(w) \/ \E b \in BOOLEAN : StreamEnds(w, b)
      <3>1. /\ worker[w].at # "idle"
            /\ Go(w, "decline") \/ Go(w, "stopped") \/ Go(w, "finish") \/ Go(w, "failed")
               \/ Leave(w) \/ Close(w, "streaming") \/ Close(w, "stopped")
        BY <2>2 DEF Reply, Flush, Finish, Settle, Crash, Awake, StreamEnds
      <3> QED
        BY <1>3, <3>1, QuietMove
    <2>3. CASE Prepare(w) \/ PlanTools(w) \/ Plan(w) \/ Dial(w)
      <3>1. worker[w].at # "idle"
        BY <2>3 DEF Prepare, PlanTools, Plan, Dial, Awake
      <3> QED
        BY <1>3, <2>3, <3>1, PrepareMove, PlanToolsMove, PlanMove, DialMove
    <2>4. ASSUME NEW b \in BOOLEAN, CallFails(w, b) PROVE \A v \in Workers : Keeps(v)
      <3>1. worker[w].at \in {"call", "refused"}
        BY <2>4 DEF CallFails, Awake
      <3>2. worker[w].candidates # <<>>
        BY <3>1 DEF TurnTypeOK, Calling
      <3> QED
        BY <1>3, <2>4, <3>1, <3>2, CallFailsMove
    <2> QED
      BY <1>4, <1>5, <2>1, <2>2, <2>3, <2>4 DEF Work
  <1>6. \A w \in Workers : Suspend(w) \/ Resume(w) => worker' = worker
    BY DEF Suspend, Resume
  <1> QED
    BY <1>1, <1>2, <1>5, <1>6 DEF Next

LEMMA ClaimsNext ==
    ASSUME TurnTypeOK, ClaimInv, [Next]_vars
    PROVE  ClaimInv'
  <1>0. /\ RunsFollow /\ Ids \subseteq Ids' /\ Ids' \subseteq 1 .. MaxRuns /\ Ids \subseteq 1 .. MaxRuns
        /\ claims \in [1 .. MaxRuns -> Nat]
    <2>1. TurnTypeOK'
      BY TypeNext
    <2>2. RunsFollow /\ Ids \subseteq 1 .. MaxRuns /\ Len(runs) \in Nat
      BY RunsNext, Typed
    <2>3. Len(runs') \in Nat /\ MaxRuns \in Nat /\ Len(runs') <= MaxRuns
      BY <2>1, <2>2, AssistantAssumption DEF TurnTypeOK, RunsFollow
    <2>4. Ids \subseteq Ids' /\ Ids' \subseteq 1 .. MaxRuns
      BY <2>2, <2>3 DEF RunsFollow, Ids
    <2> QED
      BY <2>2, <2>4 DEF TurnTypeOK, TypeOK
  <1>1. \A r \in Ids : runs'[r].status = "queued" => runs[r].status = "queued"
    BY <1>0 DEF RunsFollow, Follows
  <1>2. \A w \in Workers : worker'[w].at # "idle" => runs'[worker'[w].run].status # "queued"
    <2>1. ASSUME NEW w \in Workers, worker'[w].at # "idle" PROVE runs'[worker'[w].run].status # "queued"
      <3>1. CASE worker[w].at # "idle" /\ worker'[w].run = worker[w].run
        <4>1. worker[w].run \in Ids /\ runs[worker[w].run].status # "queued"
          BY <3>1 DEF TurnTypeOK, ClaimInv
        <4> QED
          BY <1>1, <3>1, <4>1
      <3>2. CASE runs'[worker'[w].run].status = "running"
        BY <3>2
      <3> QED
        BY <2>1, <3>1, <3>2, WorkersKeepRuns
    <2> QED
      BY <2>1
  <1>3. CASE claims' = claims
    <2>1. \A r \in 1 .. MaxRuns : r \notin Ids' \/ runs'[r].status = "queued" =>
              r \notin Ids \/ runs[r].status = "queued"
      BY <1>0, <1>1
    <2> QED
      BY <1>2, <1>3, <2>1 DEF ClaimInv
  <1>4. ASSUME NEW w \in Workers, Claim(w) PROVE ClaimInv'
    <2>1. PICK r \in Ids : /\ Ids' = Ids /\ runs[r].status = "queued" /\ runs'[r].status = "running"
                           /\ \A q \in Ids : q # r => runs'[q] = runs[q]
                           /\ claims' = [claims EXCEPT ![r] = @ + 1]
      BY <1>4, ClaimFollows
    <2>2. claims[r] = 0 /\ r \in 1 .. MaxRuns
      BY <1>0, <2>1 DEF ClaimInv
    <2>3. claims'[r] = 1 /\ \A q \in 1 .. MaxRuns : q # r => claims'[q] = claims[q]
      BY <1>0, <2>1, <2>2
    <2>4. \A q \in 1 .. MaxRuns : claims'[q] <= 1
      BY <2>3 DEF ClaimInv
    <2>5. \A q \in 1 .. MaxRuns : q \notin Ids' \/ runs'[q].status = "queued" => claims'[q] = 0
      BY <2>1, <2>3 DEF ClaimInv
    <2> QED
      BY <1>2, <2>4, <2>5 DEF ClaimInv
  <1>5. UNCHANGED vars \/ Pages => claims' = claims
    BY DEF vars, Pages, OpenChat, Send, Cancel, BeginDelete, EndDelete, SaveSettings, EditService, history
  <1>6. ASSUME NEW w \in Workers, Work(w) \/ Crash(w) \/ Suspend(w) \/ Resume(w)
        PROVE  claims' = claims \/ Claim(w)
    <2>1. (\E b \in BOOLEAN : CallFails(w, b) \/ StreamEnds(w, b)) => claims' = claims
      BY DEF CallFails, StreamEnds, history
    <2> QED
      BY <1>6, <2>1 DEF Work, Expire, Prepare, Reply, PlanTools, Plan, Dial, Flush, Finish, Settle,
                        Crash, Suspend, Resume, history
  <1> QED
    BY <1>3, <1>4, <1>5, <1>6 DEF Next

LEMMA ClaimsInit == Init => ClaimInv
  <1> SUFFICES ASSUME Init PROVE ClaimInv
    OBVIOUS
  <1>1. Ids = {} /\ \A w \in Workers : worker[w].at = "idle"
    BY IdleTyped DEF Init, Ids
  <1>2. \A r \in 1 .. MaxRuns : claims[r] = 0
    BY DEF Init
  <1> QED
    BY <1>1, <1>2 DEF ClaimInv

LEMMA ClaimsAlways == Spec => [](TurnTypeOK /\ ClaimInv)
  <1>1. Init => TurnTypeOK /\ ClaimInv
    BY TypeInit, ClaimsInit
  <1>2. TurnTypeOK /\ ClaimInv /\ [Next]_vars => (TurnTypeOK /\ ClaimInv)'
    BY TypeNext, ClaimsNext
  <1> QED
    BY <1>1, <1>2, PTL DEF Spec

\* However workers die, are suspended or find each other's runs silent, a run is
\* claimed at most once (process_one).
THEOREM RunsAreClaimedOnce == Spec => []ClaimedOnce
  <1>1. TurnTypeOK /\ ClaimInv => ClaimedOnce
    BY DEF ClaimInv, ClaimedOnce
  <1> QED
    BY <1>1, ClaimsAlways, PTL

\* What was cancelled or failed never becomes an answer, is never queued and
\* never runs again: for the late worker of every step (_finish, _decline, _block
\* and the handler of process_one).
THEOREM RunsStayStopped == Spec => StoppedStaysStopped
  <1>1. TurnTypeOK /\ [Next]_vars =>
            [\A r \in Ids : runs[r].status \in {"failed", "cancelled"}
                              => runs'[r].status \in {"failed", "cancelled"}]_vars
    BY RunsNext DEF RunsFollow, Follows, Stopped
  <1> QED
    BY <1>1, TypeInit, TypeNext, PTL DEF Spec, StoppedStaysStopped

-----------------------------------------------------------------------------
(* Deletion                                                                *)

LEMMA EraseNext ==
    ASSUME TurnTypeOK, EraseInv, [Next]_vars
    PROVE  EraseInv'
  <1>0. RunsFollow /\ Ids \subseteq Ids' /\ \A r \in Ids : Follows(runs[r], runs'[r])
    BY RunsNext, Typed DEF RunsFollow, Ids
  \* Of the runs there are it is enough that the deletions and what is kept do
  \* not change.
  <1>1. ASSUME NEW r \in Ids, runs[r].user \in deleting \/ ~runs[r].kept, r \notin raced
        PROVE  runs'[r].text = "" /\ runs'[r].status \in Stopped
    <2>1. runs[r].text = "" /\ runs[r].status \in Stopped
      BY <1>1 DEF EraseInv
    <2> QED
      BY <1>0, <2>1 DEF Follows, Stopped
  <1>2. CASE /\ Ids' = Ids /\ deleting' = deleting /\ raced' = raced
             /\ \A r \in Ids : runs'[r].kept = runs[r].kept
    BY <1>0, <1>1, <1>2 DEF EraseInv, Follows
  <1>3. ASSUME NEW u \in Users, NEW b \in BOOLEAN, Send(u, b) PROVE EraseInv'
    <2>1. deleting' = deleting
      BY <1>3 DEF Send
    <2>2. CASE runs' = runs /\ raced' = raced
      BY <2>1, <2>2 DEF EraseInv, Ids
    <2>3. CASE /\ Ids' = Ids \cup {Len(runs) + 1}
               /\ \A r \in Ids : runs'[r] = runs[r]
               /\ runs'[Len(runs) + 1].user = u /\ runs'[Len(runs) + 1].kept
               /\ raced' = IF u \in deleting THEN raced \cup {Len(runs) + 1} ELSE raced
      <3>1. ASSUME NEW r \in Ids' \ raced', runs'[r].user \in deleting' \/ ~runs'[r].kept
            PROVE  runs'[r].text = "" /\ runs'[r].status \in Stopped
        <4>1. r # Len(runs) + 1
          BY <2>1, <2>3, <3>1
        <4>2. r \in Ids /\ r \notin raced /\ (runs[r].user \in deleting \/ ~runs[r].kept)
          BY <2>1, <2>3, <3>1, <4>1
        <4> QED
          BY <1>1, <4>2
      <3> QED
        BY <3>1 DEF EraseInv
    <2> QED
      BY <1>3, <2>2, <2>3, SendFollows
  <1>4. ASSUME NEW u \in Users, BeginDelete(u) PROVE EraseInv'
    <2>1. deleting' = deleting \cup {u} /\ raced' = raced
      BY <1>4 DEF BeginDelete, history
    <2>2. /\ Ids' = Ids
          /\ \A r \in Ids : runs[r].user = u /\ runs[r].kept => runs'[r].text = "" /\ runs'[r].status = "cancelled"
      BY <1>4, DeleteFollows
    <2>3. \A r \in Ids : (~runs'[r].kept => ~runs[r].kept) \/ runs'[r].kept = runs[r].kept
      BY <1>4, Typed DEF BeginDelete, Run
    <2>4. ASSUME NEW r \in Ids \ raced, runs'[r].user \in deleting' \/ ~runs'[r].kept
          PROVE  runs'[r].text = "" /\ runs'[r].status \in Stopped
      <3>1. runs'[r].user = runs[r].user
        BY <1>0 DEF Follows
      <3>2. CASE runs[r].user = u /\ runs[r].kept
        BY <2>2, <3>2 DEF Stopped
      <3>3. CASE runs[r].user \in deleting \/ ~runs[r].kept
        BY <1>1, <3>3
      <3> QED
        BY <2>1, <2>3, <2>4, <3>1, <3>2, <3>3
    <2> QED
      BY <2>1, <2>2, <2>4 DEF EraseInv
  <1>5. ASSUME NEW u \in Users, EndDelete(u) PROVE EraseInv'
    <2>1. u \in deleting /\ deleting' = deleting \ {u} /\ raced' = raced
      BY <1>5 DEF EndDelete, history
    <2>2. Ids' = Ids /\ \A r \in Ids : runs[r].user # u => runs'[r] = runs[r]
      BY <1>5, DeleteFollows
    <2>3. ASSUME NEW r \in Ids \ raced, runs'[r].user \in deleting' \/ ~runs'[r].kept
          PROVE  runs'[r].text = "" /\ runs'[r].status \in Stopped
      <3>1. runs[r].user \in deleting \/ ~runs[r].kept
        BY <2>1, <2>2, <2>3
      <3> QED
        BY <1>1, <3>1
    <2> QED
      BY <2>1, <2>2, <2>3 DEF EraseInv
  <1>6. \A r \in Ids : runs[r] \in Run /\ DOMAIN runs = Ids
    BY Typed
  <1>7. runs' = runs => Ids' = Ids /\ \A r \in Ids : runs'[r].kept = runs[r].kept
    BY DEF Ids
  <1>8. ASSUME Pages
        PROVE  \/ EraseInv'
               \/ /\ Ids' = Ids /\ deleting' = deleting /\ raced' = raced
                  /\ \A r \in Ids : runs'[r].kept = runs[r].kept
    <2>1. ASSUME NEW r \in Ids, Cancel(r)
          PROVE  Ids' = Ids /\ deleting' = deleting /\ raced' = raced /\ \A q \in Ids : runs'[q].kept = runs[q].kept
      <3>1. \A q \in Ids : runs'[q].kept = runs[q].kept
        BY <1>6, <2>1 DEF Cancel, Run
      <3> QED
        BY <2>1, <3>1, CancelFollows DEF Cancel, pages, history
    <2>2. ASSUME CancelActive PROVE Ids' = Ids /\ \A q \in Ids : runs'[q].kept = runs[q].kept
      <3>1. \A q \in Ids : runs'[q].kept = runs[q].kept
        BY <1>6, <2>2 DEF CancelActive, Run
      <3> QED
        BY <2>2, <3>1, SettingsFollow
    <2>3. \A u \in Users : OpenChat(u) => runs' = runs /\ deleting' = deleting /\ raced' = raced
      BY DEF OpenChat, history
    <2>4. \A on, consent \in BOOLEAN : SaveSettings(on, consent) =>
              CancelActive /\ deleting' = deleting /\ raced' = raced
      BY DEF SaveSettings, pages, history
    <2>5. \A x \in Services : EditService(x) => CancelActive /\ deleting' = deleting /\ raced' = raced
      BY DEF EditService, pages, history
    <2> QED
      BY <1>3, <1>4, <1>5, <1>7, <1>8, <2>1, <2>2, <2>3, <2>4, <2>5 DEF Pages
  <1>9. ASSUME NEW w \in Workers, Work(w) \/ Crash(w) \/ Suspend(w) \/ Resume(w)
        PROVE  /\ Ids' = Ids /\ deleting' = deleting /\ raced' = raced
               /\ \A r \in Ids : runs'[r].kept = runs[r].kept
    <2>1. (\E b \in BOOLEAN : CallFails(w, b) \/ StreamEnds(w, b)) =>
              runs' = runs /\ deleting' = deleting /\ raced' = raced
      BY DEF CallFails, StreamEnds, pages, history
    <2>2. deleting' = deleting /\ raced' = raced
      BY <1>9, <2>1 DEF Work, Expire, Claim, Prepare, Reply, PlanTools, Plan, Dial, Flush, Finish, Settle,
                        Crash, Suspend, Resume, pages, history
    <2>3. Expire(w) \/ Claim(w) \/ Reply(w) \/ Finish(w) \/ Settle(w) \/ runs' = runs
      BY <1>9, <2>1 DEF Work, Prepare, PlanTools, Plan, Dial, Flush, Crash, Suspend, Resume
    <2>4. CASE Expire(w)
      <3>1. \A r \in Ids : runs'[r].kept = runs[r].kept
        BY <1>6, <2>4 DEF Expire, Interrupted, Run
      <3> QED
        BY <2>2, <2>4, <3>1, ExpireFollows
    <2>5. CASE Claim(w)
      <3>1. \A r \in Ids : runs'[r].kept = runs[r].kept
        <4>1. PICK r \in Ids : runs' = [runs EXCEPT ![r].status = "running"]
          BY <2>5 DEF Claim
        <4> QED
          BY <1>6, <4>1 DEF Run
      <3>2. Ids' = Ids
        BY <2>5, ClaimFollows
      <3> QED
        BY <2>2, <3>1, <3>2
    <2>6. CASE Reply(w) \/ Finish(w) \/ Settle(w)
      <3>1. \A r \in Ids : runs'[r].kept = runs[r].kept
        <4>1. CASE runs' = runs
          BY <4>1
        <4>2. CASE \E r, t, m : runs' = [runs EXCEPT ![r].status = t, ![r].text = m]
          <5>1. PICK r, t, m : runs' = [runs EXCEPT ![r].status = t, ![r].text = m]
            BY <4>2
          <5> QED
            BY <1>6, <5>1 DEF Run
        <4>3. CASE \E r, t, m : runs' = [runs EXCEPT ![r].text = m, ![r].status = t]
          <5>1. PICK r, t, m : runs' = [runs EXCEPT ![r].text = m, ![r].status = t]
            BY <4>3
          <5> QED
            BY <1>6, <5>1 DEF Run
        <4>5. CASE Reply(w)
          BY <4>1, <4>2, <4>5 DEF Reply, Publish
        <4>6. CASE Finish(w)
          <5>1. \/ runs' = runs
                \/ \E p \in BOOLEAN :
                     runs' = [runs EXCEPT ![worker[w].run].status = "completed", ![worker[w].run].text = "answer",
                                          ![worker[w].run].proposal = p]
            BY <4>6 DEF Finish
          <5>2. ASSUME NEW p \in BOOLEAN, NEW r,
                       runs' = [runs EXCEPT ![r].status = "completed", ![r].text = "answer", ![r].proposal = p]
                PROVE  \A q \in Ids : runs'[q].kept = runs[q].kept
            BY <1>6, <5>2 DEF Run
          <5> QED
            BY <4>1, <5>1, <5>2
        <4>7. CASE Settle(w)
          BY <4>1, <4>3, <4>7 DEF Settle
        <4> QED
          BY <2>6, <4>5, <4>6, <4>7
      <3> QED
        BY <2>2, <2>6, <3>1, WorkerFollows
    <2> QED
      BY <1>7, <2>2, <2>3, <2>4, <2>5, <2>6
  <1>10. UNCHANGED vars => runs' = runs /\ deleting' = deleting /\ raced' = raced
    BY DEF vars, pages, history
  <1> QED
    BY <1>2, <1>7, <1>8, <1>9, <1>10 DEF Next

\* After a deletion no question, answer or source is left in a run and no proposal
\* that could be opened, whatever the workers of its runs were about to write
\* (delete_conversation against _finish, _decline, _block); a question sent during
\* the deletion excepted.
THEOREM DeletedRunsAreWithdrawn == Spec => []DeletedIsWithdrawn
  <1>1. Init => EraseInv
    <2>1. Init => Ids = {}
      BY DEF Init, Ids
    <2> QED
      BY <2>1 DEF EraseInv
  <1>2. EraseInv => DeletedIsWithdrawn
    BY DEF EraseInv, DeletedIsWithdrawn, Opens, Stopped
  <1>3. TurnTypeOK /\ EraseInv /\ [Next]_vars => (TurnTypeOK /\ EraseInv)'
    BY TypeNext, EraseNext
  <1> QED
    BY <1>1, <1>2, <1>3, TypeInit, PTL DEF Spec

-----------------------------------------------------------------------------
(* Privacy                                                                 *)

\* A call of a worker whose run still runs tells an external service nothing
\* sensitive.
LEMMA DisclosesNothing ==
    ASSUME TurnTypeOK, PrivateInv, NEW w \in Workers, worker[w].at \in Calling,
           Disclose(w, worker[w].candidates[1])
    PROVE  \A r \in 1 .. MaxRuns : <<r, TRUE>> \notin disclosed'
  <1>1. CASE disclosed' = disclosed
    BY <1>1 DEF PrivateInv
  <1>2. CASE /\ worker[w].candidates[1] \in external /\ worker[w].holds
             /\ disclosed' = disclosed \cup {<<worker[w].run, runs[worker[w].run].status = "running">>}
    <2>1. 1 \in DOMAIN worker[w].candidates
      BY FirstCandidate
    <2>2. runs[worker[w].run].status # "running"
      BY <1>2, <2>1 DEF PrivateInv
    <2>3. disclosed' = disclosed \cup {<<worker[w].run, FALSE>>}
      BY <1>2, <2>2
    <2>4. \A r \in 1 .. MaxRuns : <<r, TRUE>> # <<worker[w].run, FALSE>>
      OBVIOUS
    <2> QED
      BY <2>3, <2>4 DEF PrivateInv
  <1> QED
    BY <1>1, <1>2 DEF Disclose

\* A worker that moves with the private candidates its messages need.
LEMMA PrivateMove ==
    ASSUME TurnTypeOK, ClaimInv, PrivateInv, RunsFollow, external' = external,
           \A r \in 1 .. MaxRuns : <<r, TRUE>> \notin disclosed',
           NEW w \in Workers, NEW x, MovesTo(w, x), x.holds = x.reasons,
           x.at \in Calling /\ x.holds /\ runs'[x.run].status = "running" =>
               \A i \in DOMAIN x.candidates : x.candidates[i] \notin external
    PROVE  PrivateInv'
  <1>1. worker'[w] = x /\ \A v \in Workers : v # w => worker'[v] = worker[v]
    BY Moved
  <1>2. ASSUME NEW v \in Workers, worker[v].at \in Calling, runs'[worker[v].run].status = "running"
        PROVE  runs[worker[v].run].status = "running"
    <2>1. worker[v].run \in Ids /\ runs[worker[v].run].status # "queued"
      BY <1>2 DEF TurnTypeOK, ClaimInv, Calling
    <2> QED
      BY <1>2, <2>1 DEF RunsFollow, Follows, Active
  <1>3. ASSUME NEW v \in Workers, v # w, worker'[v].at \in Calling, worker'[v].holds,
               runs'[worker'[v].run].status = "running"
        PROVE  \A i \in DOMAIN worker'[v].candidates : worker'[v].candidates[i] \notin external'
    BY <1>1, <1>2, <1>3 DEF PrivateInv
  <1>4. \A v \in Workers : worker'[v].holds = worker'[v].reasons
    BY <1>1 DEF PrivateInv
  <1> QED
    BY <1>1, <1>3, <1>4 DEF PrivateInv

LEMMA PrivateNext ==
    ASSUME TurnTypeOK, ClaimInv, PrivateInv, [Next]_vars
    PROVE  PrivateInv'
  <1>0. RunsFollow /\ \A w \in Workers : worker[w].holds = worker[w].reasons
    BY RunsNext DEF PrivateInv
  <1>1. CASE worker' = worker /\ external' = external /\ disclosed' = disclosed
    <2>1. ASSUME NEW v \in Workers, worker[v].at \in Calling, runs'[worker[v].run].status = "running"
          PROVE  runs[worker[v].run].status = "running"
      <3>1. worker[v].run \in Ids /\ runs[worker[v].run].status # "queued"
        BY <2>1 DEF TurnTypeOK, ClaimInv, Calling
      <3> QED
        BY <1>0, <2>1, <3>1 DEF RunsFollow, Follows, Active
    <2> QED
      BY <1>1, <2>1 DEF PrivateInv
  <1>2. ASSUME NEW c \in Services, EditService(c) PROVE PrivateInv'
    <2>1. worker' = worker /\ disclosed' = disclosed /\ \A r \in Ids : runs'[r].status \notin Active
      BY <1>2, SettingsFollow DEF EditService, history
    <2>2. \A v \in Workers : worker[v].at \in Calling => runs'[worker[v].run].status # "running"
      BY <2>1 DEF TurnTypeOK, Calling, Active
    <2> QED
      BY <2>1, <2>2 DEF PrivateInv
  <1>3. UNCHANGED vars \/ Pages => \/ worker' = worker /\ external' = external /\ disclosed' = disclosed
                                   \/ \E c \in Services : EditService(c)
    BY DEF vars, Pages, OpenChat, Send, Cancel, BeginDelete, EndDelete, SaveSettings, history
  <1>4. ASSUME NEW w \in Workers, Work(w) \/ Crash(w) \/ Suspend(w) \/ Resume(w)
        PROVE  external' = external /\ (disclosed' = disclosed \/ PlanTools(w) \/ Dial(w))
    <2>1. (\E b \in BOOLEAN : CallFails(w, b) \/ StreamEnds(w, b)) => external' = external /\ disclosed' = disclosed
      BY DEF CallFails, StreamEnds, history
    <2> QED
      BY <1>4, <2>1 DEF Work, Expire, Claim, Prepare, Reply, PlanTools, Plan, Dial, Flush, Finish, Settle,
                        Crash, Suspend, Resume, history
  <1>5. ASSUME NEW w \in Workers, external' = external, disclosed' = disclosed,
               NEW x, MovesTo(w, x), x.holds = x.reasons, x.at \notin Calling
        PROVE  PrivateInv'
    <2>1. \A r \in 1 .. MaxRuns : <<r, TRUE>> \notin disclosed'
      BY <1>5 DEF PrivateInv
    <2> QED
      BY <1>0, <1>5, <2>1, PrivateMove
  <1>6. ASSUME NEW w \in Workers, Work(w) \/ Crash(w) \/ Suspend(w) \/ Resume(w) PROVE PrivateInv'
    <2>0. external' = external
      BY <1>4, <1>6
    <2>1. CASE Expire(w) \/ Suspend(w) \/ Resume(w)
      BY <1>1, <2>0, <2>1 DEF Expire, Suspend, Resume, history
    <2>2. CASE Claim(w)
      <3>1. disclosed' = disclosed
        BY <2>2 DEF Claim
      <3>2. PICK r \in Ids : worker' = [worker EXCEPT ![w].at = "prepare", ![w].run = r]
        BY <2>2, ClaimFollows
      <3>3. PICK x : /\ MovesTo(w, x) /\ x.at \notin Calling
                     /\ x.holds = worker[w].holds /\ x.reasons = worker[w].reasons
        BY <3>2, ClaimMove
      <3> QED
        BY <1>0, <1>5, <2>0, <3>1, <3>3
    <2>3. CASE Reply(w) \/ Flush(w) \/ Finish(w) \/ Settle(w) \/ Crash(w) \/ \E b \in BOOLEAN : StreamEnds(w, b)
      <3>1. disclosed' = disclosed
        BY <2>3 DEF Reply, Flush, Finish, Settle, Crash, StreamEnds, history
      <3>2. Go(w, "decline") \/ Go(w, "stopped") \/ Go(w, "finish") \/ Go(w, "failed")
            \/ Leave(w) \/ Close(w, "streaming") \/ Close(w, "stopped")
        BY <2>3 DEF Reply, Flush, Finish, Settle, Crash, StreamEnds
      <3>3. PICK x : MovesTo(w, x) /\ x.at \notin Calling /\ x.holds = x.reasons
        BY <1>0, <3>2, QuietMove
      <3> QED
        BY <1>5, <2>0, <3>1, <3>3
    <2>4. CASE Prepare(w)
      <3>1. disclosed' = disclosed /\ \A r \in 1 .. MaxRuns : <<r, TRUE>> \notin disclosed'
        BY <2>4 DEF Prepare, history, PrivateInv
      <3>2. PICK x : /\ MovesTo(w, x) /\ x.holds = x.reasons
                     /\ \/ x.at \notin Calling
                        \/ \E c \in Services : x.candidates = <<c>> /\ c \in Eligible(x.holds)
        BY <1>0, <2>4, PrepareMove
      <3>3. x.at \in Calling /\ x.holds => \A i \in DOMAIN x.candidates : x.candidates[i] \notin external
        BY <3>2 DEF Eligible
      <3> QED
        BY <1>0, <2>0, <3>1, <3>2, <3>3, PrivateMove
    <2>5. CASE PlanTools(w)
      <3>1. worker[w].at \in Calling /\ Disclose(w, worker[w].candidates[1])
        BY <2>5 DEF PlanTools, Awake, Calling
      <3>2. PICK x : MovesTo(w, x) /\ x.holds = x.reasons /\ x.at \notin Calling
        BY <1>0, <2>5, PlanToolsMove
      <3>3. \A r \in 1 .. MaxRuns : <<r, TRUE>> \notin disclosed'
        BY <3>1, DisclosesNothing
      <3> QED
        BY <1>0, <2>0, <3>2, <3>3, PrivateMove
    <2>6. CASE Plan(w)
      <3>1. disclosed' = disclosed /\ \A r \in 1 .. MaxRuns : <<r, TRUE>> \notin disclosed'
        BY <2>6 DEF Plan, history, PrivateInv
      <3>2. PICK x : /\ MovesTo(w, x) /\ x.holds = worker[w].holds /\ x.reasons = worker[w].reasons
                     /\ \/ x.at \notin Calling
                        \/ \A i \in DOMAIN x.candidates : x.candidates[i] \in Eligible(x.reasons)
        BY <2>6, PlanMove
      <3>3. x.holds = x.reasons
        BY <1>0, <3>2
      <3>4. x.at \in Calling /\ x.holds => \A i \in DOMAIN x.candidates : x.candidates[i] \notin external
        BY <3>2, <3>3 DEF Eligible
      <3> QED
        BY <1>0, <2>0, <3>1, <3>2, <3>3, <3>4, PrivateMove
    <2>7. CASE Dial(w)
      <3>1. worker[w].at \in Calling /\ Disclose(w, worker[w].candidates[1]) /\ runs' = runs
        BY <2>7 DEF Dial, Awake, Calling
      <3>2. PICK x : /\ MovesTo(w, x) /\ x.run = worker[w].run /\ x.holds = worker[w].holds
                     /\ x.reasons = worker[w].reasons /\ x.candidates = worker[w].candidates
        BY <2>7, DialMove
      <3>3. \A r \in 1 .. MaxRuns : <<r, TRUE>> \notin disclosed'
        BY <3>1, DisclosesNothing
      <3>4. x.holds = x.reasons
        BY <1>0, <3>2
      <3>5. x.at \in Calling /\ x.holds /\ runs'[x.run].status = "running" =>
                \A i \in DOMAIN x.candidates : x.candidates[i] \notin external
        BY <3>1, <3>2 DEF PrivateInv
      <3> QED
        BY <1>0, <2>0, <3>2, <3>3, <3>4, <3>5, PrivateMove
    <2>8. ASSUME NEW b \in BOOLEAN, CallFails(w, b) PROVE PrivateInv'
      <3>1. /\ disclosed' = disclosed /\ runs' = runs /\ worker[w].at \in Calling
            /\ \A r \in 1 .. MaxRuns : <<r, TRUE>> \notin disclosed'
        BY <2>8 DEF CallFails, Awake, Calling, history, PrivateInv
      <3>2. PICK c \in Seq(Services) : c = worker[w].candidates /\ c # <<>>
        BY <3>1, FirstCandidate DEF TurnTypeOK
      <3>3. PICK x : /\ MovesTo(w, x) /\ x.run = worker[w].run
                     /\ \/ x.at \notin Calling /\ x.holds = x.reasons
                        \/ /\ x.holds = worker[w].holds /\ x.reasons = worker[w].reasons
                           /\ \/ x.candidates = c
                              \/ x.candidates = Tail(c) /\ x.candidates # <<>>
        BY <2>8, <3>2, CallFailsMove
      <3>4. x.holds = x.reasons
        BY <1>0, <3>3
      <3>5. ASSUME x.at \in Calling, x.holds, runs'[x.run].status = "running", NEW i \in DOMAIN x.candidates
            PROVE  x.candidates[i] \notin external
        <4>1. \A k \in DOMAIN c : c[k] \notin external
          BY <3>1, <3>2, <3>3, <3>5 DEF PrivateInv
        <4>2. \E k \in DOMAIN c : x.candidates[i] = c[k]
          <5>1. CASE x.candidates = c
            BY <3>5, <5>1
          <5>2. CASE x.candidates = Tail(c) /\ x.candidates # <<>>
            BY <3>2, <3>5, <5>2, TailInside
          <5> QED
            BY <3>3, <3>5, <5>1, <5>2
        <4> QED
          BY <4>1, <4>2
      <3> QED
        BY <1>0, <2>0, <3>1, <3>3, <3>4, <3>5, PrivateMove
    <2> QED
      BY <1>6, <2>1, <2>2, <2>3, <2>4, <2>5, <2>6, <2>7, <2>8 DEF Work
  <1> QED
    BY <1>1, <1>2, <1>3, <1>6 DEF Next

\* While a run runs nothing sensitive of it reaches an external service, for any
\* set of services, edits of their destinations, retries, fallbacks and tools
\* (routing.plan, _use_connected_tools, process_one).
THEOREM RunningRunsArePrivate == Spec => []PrivateWhileRunning
  <1>1. Init => PrivateInv
    <2>1. Init => \A w \in Workers : worker[w].at \notin Calling /\ worker[w].holds = worker[w].reasons
      <3>1. Idle.at \notin Calling /\ Idle.holds = Idle.reasons
        BY DEF Idle, Calling
      <3>2. Init => \A w \in Workers : worker[w] = Idle
        BY DEF Init
      <3> QED
        BY <3>1, <3>2
    <2>2. Init => disclosed = {}
      BY DEF Init
    <2> QED
      BY <2>1, <2>2 DEF PrivateInv
  <1>2. PrivateInv => PrivateWhileRunning
    BY DEF PrivateInv, PrivateWhileRunning
  <1>3. TurnTypeOK /\ ClaimInv /\ PrivateInv /\ [Next]_vars => PrivateInv'
    BY PrivateNext
  <1> QED
    BY <1>1, <1>2, <1>3, ClaimsAlways, PTL DEF Spec

-----------------------------------------------------------------------------
(* The allowance of a service                                              *)

LEMMA SpareTyped == \A me, s : Spare(me, s) \in {0, 1, 2}
  <1>1. \A me, s : Retry(me, s) \in {0, 1}
    BY DEF Retry
  <1>2. ASSUME NEW me, NEW s PROVE Spare(me, s) \in {0, 1, 2}
    <2>1. Spare(me, s) \in {0, 1, Retry(me, s), 1 + Retry(me, s)}
      BY DEF Spare
    <2>2. Retry(me, s) \in {0, 1}
      BY <1>1
    <2> QED
      BY <2>1, <2>2
  <1> QED
    BY <1>2

LEMMA TokensCounted ==
    ASSUME NEW f
    PROVE  /\ IsFiniteSet(Tokens(f)) /\ Cardinality(Tokens(f)) \in Nat
           /\ Cardinality(Workers) \in Nat /\ Cardinality(Workers) >= 1
           /\ Cardinality(Tokens(f)) <= 2 * Cardinality(Workers)
  <1>1. IsFiniteSet({1, 2}) /\ Cardinality({1, 2}) = 2
    <2>2. IsFiniteSet({1}) /\ Cardinality({1}) = 1 /\ 2 \notin {1}
      BY FS_Singleton
    <2>3. {1, 2} = {1} \union {2}
      OBVIOUS
    <2>4. IsFiniteSet({1} \union {2}) /\ Cardinality({1} \union {2}) = Cardinality({1}) + 1
      BY <2>2, FS_AddElement
    <2> QED
      BY <2>2, <2>3, <2>4
  <1>2. /\ IsFiniteSet(Workers \X {1, 2})
        /\ Cardinality(Workers \X {1, 2}) = Cardinality(Workers) * 2
    BY <1>1, AssistantAssumption, FS_Product
  <1>3. Tokens(f) \in SUBSET (Workers \X {1, 2})
    BY DEF Tokens
  <1>4. IsFiniteSet(Tokens(f)) /\ Cardinality(Tokens(f)) <= Cardinality(Workers) * 2
    BY <1>2, <1>3, FS_Subset
  <1>5. Cardinality(Workers) \in Nat /\ Cardinality(Tokens(f)) \in Nat
    BY <1>4, AssistantAssumption, FS_CardinalityType
  <1>6. Cardinality(Workers) # 0
    BY AssistantAssumption, FS_EmptySet
  <1>7. \A n, m \in Nat : m # 0 /\ n <= m * 2 => m >= 1 /\ n <= 2 * m
    OBVIOUS
  <1> QED
    BY <1>4, <1>5, <1>6, <1>7

\* A service that has room may be planned by everybody.
LEMMA BoundedByRoom ==
    ASSUME NEW n \in Nat, n < Limit, NEW f
    PROVE  Bounded(n, f)
  <1>1. PICK t \in Nat : t = Cardinality(Tokens(f))
    BY TokensCounted
  <1>2. PICK k \in Nat : k = Cardinality(Workers)
    BY TokensCounted
  <1>3. t <= 2 * k /\ Limit \in Nat
    BY <1>1, <1>2, TokensCounted, AssistantAssumption
  <1>4. n + t < Limit + 2 * k
    BY <1>3
  <1> QED
    BY <1>1, <1>2, <1>4 DEF Bounded

\* Who may call less often keeps the bound.
LEMMA BoundedByLess ==
    ASSUME NEW n \in Nat, NEW f \in [Workers -> {0, 1, 2}], NEW g \in [Workers -> {0, 1, 2}],
           \A w \in Workers : g[w] <= f[w], Bounded(n, f)
    PROVE  Bounded(n, g)
  <1>1. Tokens(g) \in SUBSET Tokens(f)
    <2>1. \A w \in Workers : \A i \in {1, 2} : i <= g[w] => i <= f[w]
      <3>1. \A a, b \in {0, 1, 2} : \A i \in {1, 2} : i <= a /\ a <= b => i <= b
        OBVIOUS
      <3> QED
        BY <3>1
    <2> QED
      BY <2>1 DEF Tokens
  <1>2. Cardinality(Tokens(g)) <= Cardinality(Tokens(f))
    BY <1>1, TokensCounted, FS_Subset
  <1>3. Cardinality(Tokens(f)) \in Nat /\ Cardinality(Tokens(g)) \in Nat /\ Cardinality(Workers) \in Nat
        /\ Limit \in Nat
    BY TokensCounted, AssistantAssumption
  <1> QED
    BY <1>2, <1>3 DEF Bounded

\* A call uses one up.
LEMMA BoundedByCall ==
    ASSUME NEW n \in Nat, NEW f \in [Workers -> {0, 1, 2}], NEW g \in [Workers -> {0, 1, 2}],
           NEW w \in Workers, f[w] = g[w] + 1, \A v \in Workers : v # w => g[v] = f[v], Bounded(n, f)
    PROVE  Bounded(n + 1, g)
  <1>1. PICK k \in {1, 2} : k = f[w]
    <2>1. \A a, b \in {0, 1, 2} : a = b + 1 => a \in {1, 2}
      OBVIOUS
    <2> QED
      BY <2>1
  <1>2. \A i \in {1, 2} : i <= g[w] <=> i <= f[w] /\ i # k
    <2>1. \A a, b \in {0, 1, 2} : \A i \in {1, 2} : a = b + 1 => (i <= b <=> i <= a /\ i # a)
      OBVIOUS
    <2> QED
      BY <1>1, <2>1
  <1>3. <<w, k>> \in Tokens(f)
    BY <1>1 DEF Tokens
  <1>4. \A v \in Workers : \A i \in {1, 2} :
            <<v, i>> \in Tokens(g) <=> <<v, i>> \in Tokens(f) /\ <<v, i>> # <<w, k>>
    <2>1. ASSUME NEW v \in Workers, NEW i \in {1, 2}
          PROVE  /\ <<v, i>> \in Tokens(g) <=> i <= g[v]
                 /\ <<v, i>> \in Tokens(f) <=> i <= f[v]
                 /\ <<v, i>> # <<w, k>> <=> v # w \/ i # k
      BY DEF Tokens
    <2> QED
      BY <1>2, <2>1
  <1>5. Tokens(g) = Tokens(f) \ {<<w, k>>}
    <2>1. ASSUME NEW x \in Workers \X {1, 2}
          PROVE  x \in Tokens(g) <=> x \in Tokens(f) /\ x # <<w, k>>
      <3>1. PICK v \in Workers, i \in {1, 2} : x = <<v, i>>
        <4>1. x[1] \in Workers /\ x[2] \in {1, 2} /\ x = <<x[1], x[2]>>
          OBVIOUS
        <4> QED
          BY <4>1
      <3> QED
        BY <1>4, <3>1
    <2> QED
      BY <2>1 DEF Tokens
  <1>6. Cardinality(Tokens(g)) = Cardinality(Tokens(f)) - 1
    BY <1>3, <1>5, TokensCounted, FS_RemoveElement
  <1>7. Cardinality(Tokens(f)) \in Nat /\ Cardinality(Workers) \in Nat /\ Limit \in Nat
    BY TokensCounted, AssistantAssumption
  <1> QED
    BY <1>6, <1>7 DEF Bounded

LEMMA SparesTyped == \A s : Spares(s) \in [Workers -> {0, 1, 2}]
  BY SpareTyped DEF Spares

\* One worker moves, and each service is called less by it, called once or has
\* room.
LEMMA AllowanceMove ==
    ASSUME TurnTypeOK, AllowanceInv, NEW w \in Workers, NEW x, MovesTo(w, x),
           Different(x.candidates), calls' \in [Services -> Nat],
           \A s \in Services :
               \/ calls'[s] = calls[s] /\ Spare(x, s) <= Spare(worker[w], s)
               \/ calls'[s] = calls[s] + 1 /\ Spare(worker[w], s) = Spare(x, s) + 1
               \/ calls'[s] < Limit
    PROVE  AllowanceInv'
  <1>1. worker'[w] = x /\ \A v \in Workers : v # w => worker'[v] = worker[v]
    BY Moved
  <1>2. \A v \in Workers : Different(worker'[v].candidates)
    BY <1>1 DEF AllowanceInv
  <1>3. ASSUME NEW s \in Services PROVE Bounded(calls'[s], Spares(s)')
    <2>0. calls[s] \in Nat /\ calls'[s] \in Nat /\ Bounded(calls[s], Spares(s))
      BY DEF TurnTypeOK, TypeOK, AllowanceInv
    <2>1. PICK f : f = Spares(s)
      OBVIOUS
    <2>2. PICK g : g = [v \in Workers |-> Spare(worker'[v], s)]
      OBVIOUS
    <2>3. f \in [Workers -> {0, 1, 2}] /\ g \in [Workers -> {0, 1, 2}]
      BY <2>1, <2>2, SpareTyped, SparesTyped
    <2>4. /\ f[w] = Spare(worker[w], s) /\ g[w] = Spare(x, s)
          /\ \A v \in Workers : v # w => g[v] = f[v]
      BY <1>1, <2>1, <2>2 DEF Spares
    <2>5. CASE calls'[s] = calls[s] /\ Spare(x, s) <= Spare(worker[w], s)
      <3>1. \A v \in Workers : g[v] <= f[v]
        <4>1. \A n \in {0, 1, 2} : n <= n
          OBVIOUS
        <4> QED
          BY <2>3, <2>4, <2>5, <4>1
      <3>2. Bounded(calls[s], g)
        BY <2>0, <2>1, <2>3, <3>1, BoundedByLess
      <3> QED
        BY <2>2, <2>5, <3>2 DEF Spares
    <2>6. CASE calls'[s] = calls[s] + 1 /\ Spare(worker[w], s) = Spare(x, s) + 1
      <3>1. f[w] = g[w] + 1
        BY <2>4, <2>6
      <3>2. Bounded(calls[s] + 1, g)
        BY <2>0, <2>1, <2>3, <2>4, <3>1, BoundedByCall
      <3> QED
        BY <2>2, <2>6, <3>2 DEF Spares
    <2>7. CASE calls'[s] < Limit
      <3>1. Bounded(calls'[s], g)
        BY <2>0, <2>7, BoundedByRoom
      <3> QED
        BY <2>2, <3>1 DEF Spares
    <2> QED
      BY <2>5, <2>6, <2>7
  <1> QED
    BY <1>2, <1>3 DEF AllowanceInv, Bounded

\* A worker that leaves its candidates, plans them anew, calls the first of them,
\* tries it once more or turns to the next.
LEMMA SpareOfNone ==
    ASSUME NEW x, x.at \notin Calling
    PROVE  \A s : Spare(x, s) = 0
  BY DEF Spare

LEMMA SpareIsLess ==
    ASSUME NEW x, NEW y, NEW s, Spare(x, s) = 0
    PROVE  Spare(x, s) <= Spare(y, s)
  <1>1. Spare(y, s) \in {0, 1, 2}
    BY SpareTyped
  <1>2. \A n \in {0, 1, 2} : 0 <= n
    OBVIOUS
  <1> QED
    BY <1>1, <1>2

LEMMA SpareOfPlanning ==
    ASSUME NEW x, NEW c, x.at = "planning call", c = x.candidates[1], 1 \in DOMAIN x.candidates
    PROVE  Spare(x, c) = 1
  BY DEF Spare, Calling

LEMMA SpareOfOthers ==
    ASSUME NEW x, NEW s, \A i \in DOMAIN x.candidates : x.candidates[i] # s
    PROVE  Spare(x, s) = 0
  BY DEF Spare

LEMMA SpareOfDial ==
    ASSUME NEW me, NEW x, me.at = "dial", x.at \in {"refused", "call"},
           x.candidates = me.candidates, x.retried = me.retried, 1 \in DOMAIN me.candidates
    PROVE  /\ Spare(me, me.candidates[1]) = Spare(x, me.candidates[1]) + 1
           /\ \A s : s # me.candidates[1] => Spare(x, s) = Spare(me, s)
  <1> DEFINE h == me.candidates[1]
  <1>1. Spare(me, h) = 1 + Retry(me, h) /\ Spare(x, h) = Retry(x, h)
    BY DEF Spare, Calling
  <1>2. \A s : Retry(x, s) = Retry(me, s) /\ Retry(me, s) \in {0, 1}
    BY DEF Retry
  <1>3. \A s : s # h => Spare(x, s) = Spare(me, s)
    BY <1>2 DEF Spare, Calling
  <1>4. \A n \in {0, 1} : 1 + n = n + 1
    OBVIOUS
  <1> QED
    BY <1>1, <1>2, <1>3, <1>4

LEMMA SpareOfRetry ==
    ASSUME NEW me, NEW x, me.at = "call", x.at = "dial", x.candidates = me.candidates,
           1 \in DOMAIN me.candidates, me.candidates[1] \notin me.retried,
           x.retried = me.retried \union {me.candidates[1]}
    PROVE  \A s : Spare(x, s) = Spare(me, s)
  <1> DEFINE h == me.candidates[1]
  <1>1. Retry(me, h) = 1 /\ Retry(x, h) = 0
    BY DEF Retry
  <1>2. \A s : s # h => Retry(x, s) = Retry(me, s)
    BY DEF Retry
  <1>3. Spare(me, h) = Retry(me, h) /\ Spare(x, h) = 1 + Retry(x, h)
    BY DEF Spare, Calling
  <1>4. Spare(x, h) = Spare(me, h)
    BY <1>1, <1>3
  <1>5. \A s : s # h => Spare(x, s) = Spare(me, s)
    BY <1>2 DEF Spare, Calling
  <1> QED
    BY <1>4, <1>5

LEMMA TailDifferent ==
    ASSUME NEW c \in Seq(Services), c # <<>>, Tail(c) # <<>>, Different(c)
    PROVE  Different(Tail(c)) /\ \A i \in DOMAIN Tail(c) : Tail(c)[i] # c[1]
  <1>1. Len(c) \in Nat /\ Len(c) >= 1 /\ DOMAIN c = 1 .. Len(c)
    OBVIOUS
  <1>2. DOMAIN Tail(c) = 1 .. Len(c) - 1
    BY <1>1
  <1>3. CASE Len(c) >= 2
    <2>1. \A i \in 1 .. Len(c) - 1 : Tail(c)[i] = c[i + 1]
      BY <1>3, TailFacts
    <2>2. \A n \in Nat : n >= 2 => /\ \A i \in 1 .. n - 1 : i \in Int /\ i + 1 \in 1 .. n /\ i + 1 # 1
                                   /\ 1 \in 1 .. n
      OBVIOUS
    <2>3. \A i, j \in Int : i + 1 = j + 1 => i = j
      OBVIOUS
    <2> QED
      BY <1>1, <1>2, <1>3, <2>1, <2>2, <2>3 DEF Different
  <1>4. CASE Len(c) < 2
    <2>1. DOMAIN Tail(c) = {}
      BY <1>1, <1>2, <1>4
    <2> QED
      BY <2>1 DEF Different
  <1> QED
    BY <1>1, <1>3, <1>4

LEMMA SpareOfNext ==
    ASSUME NEW me, NEW x, me.at \in {"call", "refused"}, x.at = "dial", x.retried = me.retried,
           \A i \in DOMAIN x.candidates : x.candidates[i] # me.candidates[1],
           \A i \in DOMAIN x.candidates : \E k \in DOMAIN me.candidates : x.candidates[i] = me.candidates[k]
    PROVE  \A s : Spare(x, s) <= Spare(me, s)
  <1>3. \A s : Retry(x, s) = Retry(me, s)
    BY DEF Retry
  <1>4. ASSUME NEW s PROVE Spare(x, s) <= Spare(me, s)
    <2>1. CASE \A i \in DOMAIN x.candidates : x.candidates[i] # s
      BY <2>1, SpareOfOthers, SpareIsLess
    <2>2. CASE \E i \in DOMAIN x.candidates : x.candidates[i] = s
      <3>1. s # me.candidates[1] /\ \E k \in DOMAIN me.candidates : me.candidates[k] = s
        BY <2>2
      <3>2. Spare(x, s) = Spare(me, s)
        BY <1>3, <2>2, <3>1 DEF Spare, Calling
      <3>3. \A n \in {0, 1, 2} : n <= n
        OBVIOUS
      <3> QED
        BY <3>2, <3>3, SpareTyped
    <2> QED
      BY <2>1, <2>2
  <1> QED
    BY <1>4

LEMMA AllowanceNext ==
    ASSUME TurnTypeOK, AllowanceInv, [Next]_vars
    PROVE  AllowanceInv'
  <1>0. calls \in [Services -> Nat] /\ \A v \in Workers : Different(worker[v].candidates)
    BY DEF TurnTypeOK, TypeOK, AllowanceInv
  <1>1. CASE worker' = worker /\ calls' = calls
    <2>1. \A s : Spares(s)' = Spares(s)
      BY <1>1 DEF Spares
    <2> QED
      BY <1>1, <2>1 DEF AllowanceInv, Bounded
  <1>2. (UNCHANGED vars \/ Pages) => worker' = worker /\ calls' = calls
    BY DEF vars, Pages, OpenChat, Send, Cancel, BeginDelete, EndDelete, SaveSettings, EditService
  <1>3. ASSUME NEW w \in Workers, NEW x, MovesTo(w, x), x.at \notin Calling, Different(x.candidates),
               calls' = calls
        PROVE  AllowanceInv'
    <2>1. \A s \in Services : Spare(x, s) <= Spare(worker[w], s)
      BY <1>3, SpareOfNone, SpareIsLess
    <2> QED
      BY <1>0, <1>3, <2>1, AllowanceMove
  <1>4. ASSUME NEW w \in Workers, Work(w) \/ Crash(w) \/ Suspend(w) \/ Resume(w) PROVE AllowanceInv'
    <2>1. CASE Expire(w) \/ Suspend(w) \/ Resume(w)
      BY <1>1, <2>1 DEF Expire, Suspend, Resume
    <2>2. CASE Claim(w)
      <3>1. calls' = calls
        BY <2>2 DEF Claim
      <3>2. PICK r \in Ids : worker' = [worker EXCEPT ![w].at = "prepare", ![w].run = r]
        BY <2>2, ClaimFollows
      <3>3. PICK x : MovesTo(w, x) /\ x.at \notin Calling /\ x.candidates = worker[w].candidates
        BY <3>2, ClaimMove
      <3> QED
        BY <1>0, <1>3, <3>1, <3>3
    <2>3. CASE Reply(w) \/ Flush(w) \/ Finish(w) \/ Settle(w) \/ Crash(w) \/ \E b \in BOOLEAN : StreamEnds(w, b)
      <3>1. calls' = calls
        BY <2>3 DEF Reply, Flush, Finish, Settle, Crash, StreamEnds
      <3>2. Go(w, "decline") \/ Go(w, "stopped") \/ Go(w, "finish") \/ Go(w, "failed")
            \/ Leave(w) \/ Close(w, "streaming") \/ Close(w, "stopped")
        BY <2>3 DEF Reply, Flush, Finish, Settle, Crash, StreamEnds
      <3>3. PICK x : MovesTo(w, x) /\ x.at \notin Calling /\ Different(x.candidates)
        BY <1>0, <3>2, QuietMove
      <3> QED
        BY <1>3, <3>1, <3>3
    <2>4. CASE Prepare(w)
      <3>1. calls' = calls
        BY <2>4 DEF Prepare
      <3>2. PICK x : /\ MovesTo(w, x)
                     /\ \/ x.at \notin Calling /\ Different(x.candidates)
                        \/ \E c \in Services : x.candidates = <<c>> /\ HasRoom(c)
        BY <1>0, <2>4, PrepareMove
      <3>3. CASE x.at \notin Calling /\ Different(x.candidates)
        BY <1>3, <3>1, <3>2, <3>3
      <3>4. ASSUME NEW c \in Services, x.candidates = <<c>>, HasRoom(c) PROVE AllowanceInv'
        <4>1. Different(x.candidates) /\ \A i \in DOMAIN x.candidates : x.candidates[i] = c
          BY <3>4 DEF Different
        <4>2. ASSUME NEW s \in Services
              PROVE  \/ calls'[s] = calls[s] /\ Spare(x, s) <= Spare(worker[w], s)
                     \/ calls'[s] < Limit
          <5>1. CASE s = c
            BY <3>1, <3>4, <5>1 DEF HasRoom
          <5>2. CASE s # c
            BY <3>1, <4>1, <5>2, SpareOfOthers, SpareIsLess
          <5> QED
            BY <5>1, <5>2
        <4> QED
          BY <1>0, <3>1, <3>2, <4>1, <4>2, AllowanceMove
      <3> QED
        BY <3>2, <3>3, <3>4
    <2>5. CASE PlanTools(w)
      <3>1. worker[w].at = "planning call"
        BY <2>5 DEF PlanTools, Awake
      <3>2. PICK h \in Services : h = worker[w].candidates[1] /\ 1 \in DOMAIN worker[w].candidates
        BY <3>1, FirstCandidate DEF Calling
      <3>3. calls' = [calls EXCEPT ![h] = @ + 1]
        BY <2>5, <3>2 DEF PlanTools
      <3>4. PICK x : MovesTo(w, x) /\ x.at \notin Calling /\ x.candidates = <<>>
        BY <2>5, PlanToolsMove
      <3>5. /\ calls' \in [Services -> Nat] /\ calls'[h] = calls[h] + 1
            /\ \A s \in Services : s # h => calls'[s] = calls[s]
        BY <1>0, <3>3
      <3>6. \A s : Spare(x, s) = 0
        BY <3>4, SpareOfNone
      <3>7. Spare(worker[w], h) = 1
        BY <3>1, <3>2, SpareOfPlanning
      <3>8. Spare(worker[w], h) = Spare(x, h) + 1 /\ \A s \in Services : Spare(x, s) <= Spare(worker[w], s)
        BY <3>6, <3>7, SpareIsLess
      <3>9. Different(x.candidates)
        <4>1. DOMAIN x.candidates = {}
          BY <3>4
        <4> QED
          BY <4>1 DEF Different
      <3> QED
        BY <3>4, <3>5, <3>8, <3>9, AllowanceMove
    <2>6. CASE Plan(w)
      <3>1. calls' = calls
        BY <2>6 DEF Plan
      <3>2. PICK x : /\ MovesTo(w, x) /\ Different(x.candidates)
                     /\ \/ x.at \notin Calling
                        \/ \A i \in DOMAIN x.candidates : HasRoom(x.candidates[i])
        BY <2>6, PlanMove
      <3>3. CASE x.at \notin Calling
        BY <1>3, <3>1, <3>2, <3>3
      <3>4. CASE \A i \in DOMAIN x.candidates : HasRoom(x.candidates[i])
        <4>1. ASSUME NEW s \in Services
              PROVE  \/ calls'[s] = calls[s] /\ Spare(x, s) <= Spare(worker[w], s)
                     \/ calls'[s] < Limit
          <5>1. CASE \E i \in DOMAIN x.candidates : x.candidates[i] = s
            BY <3>1, <3>4, <5>1 DEF HasRoom
          <5>2. CASE \A i \in DOMAIN x.candidates : x.candidates[i] # s
            BY <3>1, <5>2, SpareOfOthers, SpareIsLess
          <5> QED
            BY <5>1, <5>2
        <4> QED
          BY <1>0, <3>1, <3>2, <4>1, AllowanceMove
      <3> QED
        BY <3>2, <3>3, <3>4
    <2>7. CASE Dial(w)
      <3>1. worker[w].at = "dial"
        BY <2>7 DEF Dial, Awake
      <3>2. PICK h \in Services : h = worker[w].candidates[1] /\ 1 \in DOMAIN worker[w].candidates
        BY <3>1, FirstCandidate DEF Calling
      <3>3. calls' = [calls EXCEPT ![h] = @ + 1]
        BY <2>7, <3>2 DEF Dial
      <3>4. PICK x : /\ MovesTo(w, x) /\ x.at \in {"refused", "call"}
                     /\ x.candidates = worker[w].candidates /\ x.retried = worker[w].retried
        BY <2>7, DialMove
      <3>5. /\ calls' \in [Services -> Nat] /\ calls'[h] = calls[h] + 1
            /\ \A s \in Services : s # h => calls'[s] = calls[s]
        BY <1>0, <3>3
      <3>6. /\ Spare(worker[w], h) = Spare(x, h) + 1
            /\ \A s : s # h => Spare(x, s) = Spare(worker[w], s)
        BY <3>1, <3>2, <3>4, SpareOfDial
      <3>7. \A s : s # h => Spare(x, s) <= Spare(worker[w], s)
        <4>1. \A n \in {0, 1, 2} : n <= n
          OBVIOUS
        <4> QED
          BY <3>6, <4>1, SpareTyped
      <3>8. Different(x.candidates)
        BY <1>0, <3>4
      <3> QED
        BY <3>4, <3>5, <3>6, <3>7, <3>8, AllowanceMove
    <2>8. ASSUME NEW b \in BOOLEAN, CallFails(w, b) PROVE AllowanceInv'
      <3>1. calls' = calls /\ worker[w].at \in Calling
        BY <2>8 DEF CallFails, Awake, Calling
      <3>2. /\ worker[w].candidates \in Seq(Services) /\ worker[w].candidates # <<>>
            /\ 1 \in DOMAIN worker[w].candidates
        BY <3>1, FirstCandidate DEF TurnTypeOK
      <3>3. PICK x :
              /\ MovesTo(w, x) /\ worker[w].at \in {"call", "refused"}
              /\ \/ x.at \notin Calling /\ x.candidates = <<>>
                 \/ /\ x.at = "dial"
                    /\ \/ /\ worker[w].at = "call" /\ worker[w].candidates[1] \notin worker[w].retried
                          /\ x.candidates = worker[w].candidates
                          /\ x.retried = worker[w].retried \cup {worker[w].candidates[1]}
                       \/ /\ x.candidates = Tail(worker[w].candidates) /\ x.candidates # <<>>
                          /\ x.retried = worker[w].retried
        BY <2>8, <3>2, CallFailsMove
      <3>4. CASE x.at \notin Calling /\ x.candidates = <<>>
        <4>1. Different(x.candidates)
          <5>1. DOMAIN x.candidates = {}
            BY <3>4
          <5> QED
            BY <5>1 DEF Different
        <4> QED
          BY <1>3, <3>1, <3>3, <3>4, <4>1
      <3>5. CASE /\ x.at = "dial" /\ worker[w].at = "call" /\ worker[w].candidates[1] \notin worker[w].retried
                 /\ x.candidates = worker[w].candidates
                 /\ x.retried = worker[w].retried \cup {worker[w].candidates[1]}
        <4>1. \A s : Spare(x, s) = Spare(worker[w], s)
          BY <3>2, <3>5, SpareOfRetry
        <4>2. \A n \in {0, 1, 2} : n <= n
          OBVIOUS
        <4>3. Different(x.candidates) /\ \A s : Spare(x, s) <= Spare(worker[w], s)
          BY <1>0, <3>5, <4>1, <4>2, SpareTyped
        <4> QED
          BY <1>0, <3>1, <3>3, <4>3, AllowanceMove
      <3>6. CASE /\ x.at = "dial" /\ x.candidates = Tail(worker[w].candidates) /\ x.candidates # <<>>
                 /\ x.retried = worker[w].retried
        <4>1. Different(worker[w].candidates)
          BY <1>0
        <4>2. Different(x.candidates) /\ \A s : Spare(x, s) <= Spare(worker[w], s)
          <5>1. PICK c \in Seq(Services) : c = worker[w].candidates
            BY <3>2
          <5>2. c # <<>> /\ Different(c) /\ Tail(c) # <<>> /\ x.candidates = Tail(c)
            BY <3>2, <3>6, <4>1, <5>1
          <5>3. Different(Tail(c)) /\ \A i \in DOMAIN Tail(c) : Tail(c)[i] # c[1]
            BY <5>2, TailDifferent
          <5>4. \A i \in DOMAIN Tail(c) : \E k \in DOMAIN c : Tail(c)[i] = c[k]
            BY <5>2, TailInside
          <5>5. PICK t : t = Tail(c)
            OBVIOUS
          <5>6. Different(t) /\ x.candidates = t
            BY <5>2, <5>3, <5>5
          <5>7. /\ \A i \in DOMAIN t : t[i] # c[1]
                /\ \A i \in DOMAIN t : \E k \in DOMAIN c : t[i] = c[k]
            BY <5>3, <5>4, <5>5
          <5>8. \A s : Spare(x, s) <= Spare(worker[w], s)
            BY <3>3, <3>6, <5>1, <5>6, <5>7, SpareOfNext
          <5> QED
            BY <5>6, <5>8
        <4> QED
          BY <1>0, <3>1, <3>3, <4>2, AllowanceMove
      <3> QED
        BY <3>3, <3>4, <3>5, <3>6
    <2> QED
      BY <1>4, <2>1, <2>2, <2>3, <2>4, <2>5, <2>6, <2>7, <2>8 DEF Work
  <1> QED
    BY <1>1, <1>2, <1>4 DEF Next

\* For any number of workers and services and any allowance, a service is called
\* beyond its allowance at most twice for each worker: workers that looked at the
\* same time call it once and retry once without looking again (quota.headroom,
\* process_one).
THEOREM AllowanceIsBounded == Spec => []AllowanceBounded
  <1>1. ASSUME Init PROVE AllowanceInv
    <2>1. \A w \in Workers : worker[w] = Idle
      BY <1>1 DEF Init
    <2>2. Idle.at \notin Calling /\ DOMAIN Idle.candidates = {}
      BY DEF Idle, Calling
    <2>3. \A w \in Workers : Different(worker[w].candidates)
      BY <2>1, <2>2 DEF Different
    <2>4. \A s : \A w \in Workers : Spare(worker[w], s) = 0
      BY <2>1, <2>2, SpareOfNone
    <2>5. ASSUME NEW s \in Services PROVE Bounded(calls[s], Spares(s))
      <3>1. Tokens(Spares(s)) = {}
        <4>1. \A w \in Workers : \A i \in {1, 2} : ~(i <= Spares(s)[w])
          BY <2>4 DEF Spares
        <4> QED
          BY <4>1 DEF Tokens
      <3>2. Cardinality(Tokens(Spares(s))) = 0 /\ calls[s] = 0
        BY <1>1, <3>1, FS_EmptySet DEF Init
      <3>3. PICK k \in Nat : k = Cardinality(Workers) /\ k >= 1
        BY TokensCounted
      <3>4. Limit \in Nat
        BY AssistantAssumption
      <3> QED
        BY <3>2, <3>3, <3>4 DEF Bounded
    <2> QED
      BY <2>3, <2>5 DEF AllowanceInv
  <1>2. TurnTypeOK /\ AllowanceInv => AllowanceBounded
    <2>1. ASSUME TurnTypeOK, AllowanceInv, NEW s \in Services
          PROVE  calls[s] < Limit + 2 * Cardinality(Workers)
      <3>1. PICK n \in Nat : n = calls[s]
        BY <2>1 DEF TurnTypeOK, TypeOK
      <3>2. PICK t \in Nat : t = Cardinality(Tokens(Spares(s)))
        BY TokensCounted
      <3>3. PICK k \in Nat : k = Cardinality(Workers)
        BY TokensCounted
      <3>4. n + t < Limit + 2 * k /\ Limit \in Nat
        BY <2>1, <3>1, <3>2, <3>3, AssistantAssumption DEF AllowanceInv, Bounded
      <3>5. n < Limit + 2 * k
        BY <3>4
      <3> QED
        BY <3>1, <3>3, <3>5
    <2> QED
      BY <2>1 DEF AllowanceBounded
  <1>3. TurnTypeOK /\ AllowanceInv /\ [Next]_vars => AllowanceInv'
    BY AllowanceNext
  <1> QED
    BY <1>1, <1>2, <1>3, TypeInit, TypeNext, PTL DEF Spec
=============================================================================
