--------------------------- MODULE ApprovalProofs ---------------------------
(***************************************************************************)
(* Proofs about ChangeApproval for every number of gates, every choice of  *)
(* approvers and modes, and any number of concurrent requests: gates are   *)
(* asked in order, an Approved chain carries the approvals its modes ask   *)
(* for, although cancelling and revising overwrite rows unlocked, and      *)
(* where the chat command is alone, one chain of a change runs.  And about *)
(* CatalogRequest for any items, tasks and overlapping pages: nothing is   *)
(* fulfilled without its approval, and the REQ follows its items.          *)
(***************************************************************************)
EXTENDS MCApprovals, FiniteSetTheorems, TLAPS

\* A running chain stands at a gate: the gates before it are Approved with
\* enough approvals, its own votes are open or approvals, nobody is asked yet
\* beyond it.
StandsAt(c, g) ==
    /\ \A h \in Gates : c.gate[h] = IF h < g THEN "Approved"
                                    ELSE IF h = g THEN "Requested" ELSE "Pending"
    /\ \A h \in Gates : h < g => Enough(h, c.vote)
    /\ \A b \in Ballots : b[1] = g => c.vote[b] \in {"Requested", "Approved"}
    /\ \A b \in Ballots : b[1] > g => c.vote[b] = "Not Requested"

ChainOK(c) ==
    /\ c \in Chain
    /\ c.state = "Running" => \E g \in Gates : StandsAt(c, g)
    /\ c.state = "Approved" => FullyApproved(c)

\* A session refers to a chain that exists, and to one at all before it ends it.
SessionsLoaded ==
    \A s \in Sessions :
        /\ at[s] <= Len(chains)
        /\ op[s] \in {"transition", "delete"} => at[s] # 0

ChainsOK(cs) == cs \in Seq(Chain) /\ Len(cs) # 0 /\ \A i \in 1 .. Len(cs) : ChainOK(cs[i])

ApprovalInv == TypeOK /\ ChainsOK(chains) /\ SessionsLoaded

-----------------------------------------------------------------------------
(* Chains as values                                                        *)

LEMMA BallotsTyped == \A b \in Ballots : b[1] \in Gates /\ b \in BallotsOf(b[1])
  BY DEF Ballots, BallotsOf

LEMMA NewChainOK == ChainOK(NewChain)
  <1>1. NewChain \in Chain
    <2>1. NewChain.gate \in [Gates -> GateStates]
      BY DEF NewChain, GateStates, OpenGates
    <2>2. NewChain.vote \in [Ballots -> VoteStates]
      BY DEF NewChain, VoteStates, OpenVotes
    <2> QED
      BY <2>1, <2>2 DEF NewChain, Chain, ChainStates
  <1>2. 1 \in Gates /\ Gates \subseteq Nat \ {0}
    BY ApprovalChainsAssumption DEF Gates
  <1>3. StandsAt(NewChain, 1)
    <2>1. \A h \in Gates : ~(h < 1)
      BY <1>2
    <2>2. \A h \in Gates : NewChain.gate[h] = IF h = 1 THEN "Requested" ELSE "Pending"
      BY DEF NewChain
    <2>3. \A b \in Ballots : NewChain.vote[b] = IF b[1] = 1 THEN "Requested" ELSE "Not Requested"
      BY DEF NewChain
    <2> QED
      BY <1>2, <2>1, <2>2, <2>3, BallotsTyped DEF StandsAt
  <1> QED
    BY <1>1, <1>2, <1>3 DEF ChainOK, NewChain

\* The ballots of a gate are finitely many, so majorities can be counted.
LEMMA BallotsFinite == \A g \in Gates : IsFiniteSet(BallotsOf(g))
  <1> SUFFICES ASSUME NEW g \in Gates PROVE IsFiniteSet(BallotsOf(g))
    OBVIOUS
  <1>1. IsFiniteSet({g}) /\ IsFiniteSet(Voters[g])
    BY FS_Singleton, ApprovalChainsAssumption DEF Gates
  <1>2. IsFiniteSet({g} \X Voters[g])
    BY <1>1, FS_Product
  <1>3. BallotsOf(g) \subseteq {g} \X Voters[g]
    BY DEF BallotsOf, Ballots
  <1> QED
    BY <1>2, <1>3, FS_Subset

\* What decide_vote takes for complete is enough for the mode of the gate.
LEMMA CompleteIsEnough ==
    ASSUME NEW g \in Gates, NEW vote,
           \A b \in BallotsOf(g) : vote[b] \in {"Requested", "Approved"},
           GateComplete(g, vote)
    PROVE  Enough(g, vote)
  <1> DEFINE approved == {b \in BallotsOf(g) : vote[b] = "Approved"}
  <1>1. \A b \in BallotsOf(g) : vote[b] # "Rejected"
    OBVIOUS
  <1>2. approved \subseteq BallotsOf(g) /\ IsFiniteSet(BallotsOf(g))
    BY BallotsFinite
  <1>3. Cardinality(approved) \in Nat /\ Cardinality(BallotsOf(g)) \in Nat
    BY <1>2, FS_Subset, FS_CardinalityType
  <1>4. CASE Mode[g] = "any"
    BY <1>1, <1>4 DEF Enough, ApprovedBallots, GateComplete
  <1>5. CASE Mode[g] = "all"
    BY <1>1, <1>5 DEF Enough, ApprovedBallots, GateComplete
  <1>6. CASE Mode[g] = "majority"
    <2>1. Cardinality(approved) >= Cardinality(BallotsOf(g)) \div 2 + 1
      BY <1>6 DEF GateComplete
    <2> HIDE DEF approved
    <2>2. 2 * Cardinality(approved) > Cardinality(BallotsOf(g))
      BY <1>3, <2>1
    <2> QED
      BY <1>1, <1>6, <2>2 DEF Enough, ApprovedBallots, approved
  <1> QED
    BY <1>4, <1>5, <1>6, ApprovalChainsAssumption DEF Gates

\* Enough depends on the approvals of the gate only, once nothing is rejected.
LEMMA EnoughCarriesOver ==
    ASSUME NEW g \in Gates, NEW v1, NEW v2, Enough(g, v1),
           \A b \in BallotsOf(g) : v1[b] = "Approved" <=> v2[b] = "Approved",
           \A b \in BallotsOf(g) : v2[b] # "Rejected"
    PROVE  Enough(g, v2)
  <1>1. ApprovedBallots(g, v1) = ApprovedBallots(g, v2)
    BY DEF ApprovedBallots
  <1> QED
    BY <1>1 DEF Enough

\* Ending a chain, whatever rows the session had loaded, leaves one that is
\* neither Running nor Approved; not ending it leaves it as it is.
LEMMA MergeOK ==
    ASSUME NEW stored, ChainOK(stored), NEW loaded \in Chain, NEW outcome \in {"Cancelled", "Superseded"},
           NEW written, written = loaded \/ (written = EndChain(loaded, outcome) /\ loaded.state # outcome)
    PROVE  ChainOK(Merge(stored, loaded, written))
  <1> DEFINE m == Merge(stored, loaded, written)
  <1>0. stored \in Chain
    BY DEF ChainOK
  <1>1. CASE written = loaded
    <2>1. m = [state |-> stored.state, gate |-> [g \in Gates |-> stored.gate[g]],
               vote |-> [v \in Ballots |-> stored.vote[v]]]
      BY <1>1 DEF Merge
    <2>2. m = stored
      BY <1>0, <2>1 DEF Chain
    <2> QED
      BY <2>2
  <1>2. CASE written = EndChain(loaded, outcome) /\ loaded.state # outcome
    <2>1. written.state = outcome /\ written \in Chain
      <3>1. [g \in Gates |-> IF loaded.gate[g] \in OpenGates THEN outcome ELSE loaded.gate[g]]
              \in [Gates -> GateStates]
        BY DEF Chain, GateStates
      <3>2. [v \in Ballots |-> IF loaded.vote[v] \in OpenVotes THEN "No Longer Required"
                               ELSE loaded.vote[v]] \in [Ballots -> VoteStates]
        BY DEF Chain, VoteStates
      <3> QED
        BY <1>2, <3>1, <3>2 DEF EndChain, Chain, ChainStates
    <2>2. m.state = outcome
      BY <1>2, <2>1 DEF Merge
    <2>3. m \in Chain
      <3>1. m.gate \in [Gates -> GateStates]
        BY <1>0, <2>1 DEF Merge, Chain
      <3>2. m.vote \in [Ballots -> VoteStates]
        BY <1>0, <2>1 DEF Merge, Chain
      <3> QED
        BY <3>1, <3>2, <2>2 DEF Merge, Chain, ChainStates
    <2> QED
      BY <2>2, <2>3 DEF ChainOK
  <1> QED
    BY <1>1, <1>2

\* A rejection ends the chain.
LEMMA RejectOK ==
    ASSUME NEW c, ChainOK(c), NEW b \in Ballots
    PROVE  ChainOK(RejectVote(c, b))
  <1>1. RejectVote(c, b).gate \in [Gates -> GateStates]
    BY DEF RejectVote, ChainOK, Chain, GateStates, Decisions
  <1>2. RejectVote(c, b).vote \in [Ballots -> VoteStates]
    BY DEF RejectVote, ChainOK, Chain, VoteStates, Decisions
  <1>3. RejectVote(c, b).state = "Rejected"
    BY DEF RejectVote
  <1> QED
    BY <1>1, <1>2, <1>3 DEF RejectVote, ChainOK, Chain, ChainStates

\* An approval keeps the chain at its gate, moves it to the next one, or
\* completes it.
LEMMA ApproveOK ==
    ASSUME NEW c, ChainOK(c), NEW b \in Ballots, Active(c, b)
    PROVE  ChainOK(ApproveVote(c, b))
  <1> DEFINE vote == [c.vote EXCEPT ![b] = "Approved"]
  <1>0. c \in Chain /\ c.gate \in [Gates -> GateStates] /\ c.vote \in [Ballots -> VoteStates]
    BY DEF ChainOK, Chain
  <1>1. c.state = "Running" /\ c.gate[b[1]] = "Requested" /\ b[1] \in Gates
    BY BallotsTyped DEF Active
  <1>2. PICK g \in Gates : StandsAt(c, g)
    BY <1>1 DEF ChainOK
  <1>3. b[1] = g /\ Gates \subseteq Nat \ {0} /\ g <= Stages
    <2>1. Gates \subseteq Nat \ {0} /\ g <= Stages /\ Stages \in Nat
      BY ApprovalChainsAssumption DEF Gates
    <2>2. c.gate[b[1]] = IF b[1] < g THEN "Approved"
                         ELSE IF b[1] = g THEN "Requested" ELSE "Pending"
      BY <1>1, <1>2 DEF StandsAt
    <2> QED
      BY <1>1, <2>1, <2>2
  <1>n. g \in Nat /\ \A h \in Gates : h \in Nat
    BY <1>3
  <1>4. vote \in [Ballots -> VoteStates]
    BY <1>0 DEF VoteStates, Decisions
  <1>5. \A v \in Ballots : vote[v] = IF v = b THEN "Approved" ELSE c.vote[v]
    BY <1>0
  <1> HIDE DEF vote
  <1>6. \A h \in Gates : h < g => Enough(h, vote)
    <2> SUFFICES ASSUME NEW h \in Gates, h < g PROVE Enough(h, vote)
      OBVIOUS
    <2>1. Enough(h, c.vote)
      BY <1>2 DEF StandsAt
    <2>2. \A v \in BallotsOf(h) : v \in Ballots /\ vote[v] = c.vote[v]
      BY <1>3, <1>5 DEF BallotsOf
    <2>3. \A v \in BallotsOf(h) : vote[v] # "Rejected"
      BY <2>1, <2>2 DEF Enough
    <2> QED
      BY <2>1, <2>2, <2>3, EnoughCarriesOver
  <1>7. \A v \in Ballots : v[1] = g => vote[v] \in {"Requested", "Approved"}
    BY <1>2, <1>5 DEF StandsAt
  <1>8. \A v \in Ballots : v[1] > g => vote[v] = "Not Requested"
    BY <1>2, <1>3, <1>5 DEF StandsAt
  <1>9. CASE ~GateComplete(g, vote)
    <2> DEFINE d == [c EXCEPT !.vote = vote]
    <2>1. ApproveVote(c, b) = d
      BY <1>3, <1>9 DEF ApproveVote, vote
    <2>2. d.vote = vote /\ d.gate = c.gate /\ d.state = "Running" /\ d \in Chain
      BY <1>0, <1>1, <1>4 DEF Chain
    <2> HIDE DEF d
    <2>3. StandsAt(d, g)
      BY <1>2, <1>6, <1>7, <1>8, <2>2 DEF StandsAt
    <2> QED
      BY <2>1, <2>2, <2>3 DEF ChainOK
  <1>10. CASE GateComplete(g, vote)
    <2> DEFINE d == PassGate(c, g, vote)
    <2>1. ApproveVote(c, b) = d
      BY <1>3, <1>10 DEF ApproveVote, vote
    <2>2. d.state = IF g = Stages THEN "Approved" ELSE "Running"
      BY <1>1 DEF PassGate
    <2>3. \A h \in Gates : d.gate[h] = IF h = g THEN "Approved"
                                        ELSE IF h = g + 1 THEN "Requested" ELSE c.gate[h]
      BY DEF PassGate
    <2>4. \A v \in Ballots :
            d.vote[v] = IF v[1] = g /\ vote[v] = "Requested" THEN "No Longer Required"
                        ELSE IF v[1] = g + 1 THEN "Requested" ELSE vote[v]
      BY DEF PassGate
    <2>5. d \in Chain
      <3>1. d.gate \in [Gates -> GateStates]
        BY <1>0 DEF PassGate, GateStates, OpenGates, Decisions
      <3>2. d.vote \in [Ballots -> VoteStates]
        BY <1>4 DEF PassGate, VoteStates, OpenVotes
      <3> QED
        BY <2>2, <3>1, <3>2 DEF PassGate, Chain, ChainStates
    <2> HIDE DEF d
    <2>6. Enough(g, vote)
      BY <1>7, <1>10, CompleteIsEnough DEF BallotsOf
    <2>7. \A h \in Gates : h <= g => d.gate[h] = "Approved" /\ Enough(h, d.vote)
      <3> SUFFICES ASSUME NEW h \in Gates, h <= g
                   PROVE  d.gate[h] = "Approved" /\ Enough(h, d.vote)
        OBVIOUS
      <3>1. d.gate[h] = "Approved"
        <4>1. h < g => c.gate[h] = "Approved"
          BY <1>2 DEF StandsAt
        <4>2. h \in Nat /\ (h < g \/ h = g)
          BY <1>n
        <4> QED
          BY <1>n, <2>3, <4>1, <4>2
      <3>2. Enough(h, vote)
        BY <1>3, <1>6, <2>6
      <3>3. \A v \in BallotsOf(h) :
              d.vote[v] = IF v[1] = g /\ vote[v] = "Requested" THEN "No Longer Required" ELSE vote[v]
        <4> SUFFICES ASSUME NEW v \in BallotsOf(h)
                     PROVE  d.vote[v] = IF v[1] = g /\ vote[v] = "Requested"
                                        THEN "No Longer Required" ELSE vote[v]
          OBVIOUS
        <4>1. v \in Ballots /\ v[1] = h
          BY DEF BallotsOf
        <4>2. h # g + 1
          BY <1>n
        <4> QED
          BY <2>4, <4>1, <4>2
      <3>4. \A v \in BallotsOf(h) : d.vote[v] # "Rejected"
        BY <3>2, <3>3 DEF Enough
      <3>5. \A v \in BallotsOf(h) : vote[v] = "Approved" <=> d.vote[v] = "Approved"
        BY <3>3
      <3>6. Enough(h, d.vote)
        BY <3>2, <3>4, <3>5, EnoughCarriesOver
      <3> QED
        BY <3>1, <3>6
    <2>8. CASE g = Stages
      <3>1. \A h \in Gates : h <= g
        BY <2>8, ApprovalChainsAssumption DEF Gates
      <3>2. d.state = "Approved" /\ FullyApproved(d)
        BY <2>2, <2>7, <2>8, <3>1 DEF FullyApproved
      <3> QED
        BY <2>1, <2>5, <3>2 DEF ChainOK
    <2>9. CASE g # Stages
      <3>1. g + 1 \in Gates
        BY <1>3, <2>9, ApprovalChainsAssumption DEF Gates
      <3>2. \A h \in Gates : h < g + 1 => d.gate[h] = "Approved" /\ Enough(h, d.vote)
        BY <1>3, <2>7
      <3>3. \A h \in Gates : d.gate[h] = IF h < g + 1 THEN "Approved"
                                          ELSE IF h = g + 1 THEN "Requested" ELSE "Pending"
        <4> SUFFICES ASSUME NEW h \in Gates
                     PROVE  d.gate[h] = IF h < g + 1 THEN "Approved"
                                        ELSE IF h = g + 1 THEN "Requested" ELSE "Pending"
          OBVIOUS
        <4>1. c.gate[h] = IF h < g THEN "Approved" ELSE IF h = g THEN "Requested" ELSE "Pending"
          BY <1>2 DEF StandsAt
        <4>2. h \in Nat
          BY <1>n
        <4>3. d.gate[h] = IF h = g THEN "Approved"
                          ELSE IF h = g + 1 THEN "Requested" ELSE c.gate[h]
          BY <2>3
        <4> QED
          BY <1>n, <4>1, <4>2, <4>3
      <3>n. \A v \in Ballots : v[1] \in Nat
        BY <1>n, BallotsTyped
      <3>4. \A v \in Ballots : v[1] = g + 1 => d.vote[v] \in {"Requested", "Approved"}
        <4> SUFFICES ASSUME NEW v \in Ballots, v[1] = g + 1
                     PROVE  d.vote[v] = "Requested"
          OBVIOUS
        <4>1. v[1] # g
          BY <1>n
        <4> QED
          BY <2>4, <4>1
      <3>5. \A v \in Ballots : v[1] > g + 1 => d.vote[v] = "Not Requested"
        <4> SUFFICES ASSUME NEW v \in Ballots, v[1] > g + 1
                     PROVE  d.vote[v] = "Not Requested"
          OBVIOUS
        <4>1. v[1] # g /\ v[1] # g + 1 /\ v[1] > g
          BY <1>n, <3>n
        <4> QED
          BY <1>8, <2>4, <4>1
      <3>6. StandsAt(d, g + 1)
        BY <3>2, <3>3, <3>4, <3>5 DEF StandsAt
      <3> QED
        BY <2>1, <2>2, <2>5, <2>9, <3>1, <3>6 DEF ChainOK
    <2> QED
      BY <2>8, <2>9
  <1> QED
    BY <1>9, <1>10

-----------------------------------------------------------------------------
(* The chains of the change                                                *)

LEMMA UpdatedOK ==
    ASSUME NEW cs, ChainsOK(cs), NEW i \in 1 .. Len(cs), NEW c, ChainOK(c)
    PROVE  ChainsOK([cs EXCEPT ![i] = c]) /\ Len([cs EXCEPT ![i] = c]) = Len(cs)
  <1> DEFINE ds == [cs EXCEPT ![i] = c]
  <1>1. cs \in Seq(Chain) /\ c \in Chain
    BY DEF ChainsOK, ChainOK
  <1>2. ds \in Seq(Chain) /\ Len(ds) = Len(cs)
    BY <1>1
  <1>3. \A j \in 1 .. Len(cs) : ds[j] = IF j = i THEN c ELSE cs[j]
    BY <1>1
  <1> HIDE DEF ds
  <1>4. ChainsOK(ds)
    BY <1>2, <1>3 DEF ChainsOK
  <1> QED
    BY <1>2, <1>4 DEF ds

LEMMA AppendedOK ==
    ASSUME NEW cs, ChainsOK(cs)
    PROVE  ChainsOK(Append(cs, NewChain)) /\ Len(Append(cs, NewChain)) = Len(cs) + 1
  <1> DEFINE ds == Append(cs, NewChain)
  <1>1. cs \in Seq(Chain) /\ NewChain \in Chain /\ Len(cs) \in Nat
    BY NewChainOK DEF ChainsOK, ChainOK
  <1> HIDE DEF ds
  <1>2. ds \in Seq(Chain) /\ Len(ds) = Len(cs) + 1
    BY <1>1 DEF ds
  <1>3. \A j \in 1 .. Len(ds) : ds[j] = IF j = Len(cs) + 1 THEN NewChain ELSE cs[j]
    BY <1>1, <1>2 DEF ds
  <1>4. \A j \in 1 .. Len(ds) : ChainOK(ds[j])
    <2> SUFFICES ASSUME NEW j \in 1 .. Len(ds) PROVE ChainOK(ds[j])
      OBVIOUS
    <2>1. j = Len(cs) + 1 \/ j \in 1 .. Len(cs)
      BY <1>1, <1>2
    <2> QED
      BY <1>3, <2>1, NewChainOK DEF ChainsOK
  <1> QED
    BY <1>1, <1>2, <1>4 DEF ChainsOK, ds

LEMMA CancelledOK ==
    ASSUME NEW stored, ChainOK(stored), NEW loaded \in Chain
    PROVE  ChainOK(Merge(stored, loaded, CancelChain(loaded)))
  <1>1. CancelChain(loaded) = loaded \/ (CancelChain(loaded) = EndChain(loaded, "Cancelled") /\ loaded.state # "Cancelled")
    BY DEF CancelChain
  <1> QED
    BY <1>1, MergeOK

LEMMA SupersededOK ==
    ASSUME NEW stored, ChainOK(stored), NEW loaded \in Chain
    PROVE  ChainOK(Merge(stored, loaded, SupersedeChain(loaded)))
  <1>1. SupersedeChain(loaded) = loaded
        \/ (SupersedeChain(loaded) = EndChain(loaded, "Superseded") /\ loaded.state # "Superseded")
    BY DEF SupersedeChain
  <1> QED
    BY <1>1, MergeOK

LEMMA NewChainTyped == NewChain \in Chain
  BY NewChainOK DEF ChainOK

\* What a session that ends leaves behind.
LEMMA FinishOK ==
    ASSUME ApprovalInv, NEW s \in Sessions, Finish(s), ChainsOK(chains'), Len(chains') >= Len(chains),
           ticket' \in TicketStates, deleted' \in BOOLEAN
    PROVE  ApprovalInv'
  <1>1. TypeOK'
    BY NewChainTyped DEF ApprovalInv, TypeOK, Finish, TicketStates, ChainsOK
  <1>2. SessionsLoaded'
    <2> SUFFICES ASSUME NEW t \in Sessions
                 PROVE  at'[t] <= Len(chains') /\ (op'[t] \in {"transition", "delete"} => at'[t] # 0)
      BY DEF SessionsLoaded
    <2>1. Len(chains) \in Nat /\ Len(chains') \in Nat /\ at[t] \in Nat
      BY DEF ApprovalInv, ChainsOK, TypeOK
    <2>2. at'[t] = (IF t = s THEN 0 ELSE at[t]) /\ op'[t] = IF t = s THEN "idle" ELSE op[t]
      BY DEF ApprovalInv, TypeOK, Finish
    <2>3. at[t] <= Len(chains) /\ (op[t] \in {"transition", "delete"} => at[t] # 0)
      BY DEF ApprovalInv, SessionsLoaded
    <2> QED
      BY <2>1, <2>2, <2>3
  <1> QED
    BY <1>1, <1>2 DEF ApprovalInv

\* What a session that loads the latest chain, or no chain yet, leaves behind.
LEMMA LoadOK ==
    ASSUME ApprovalInv, NEW s \in Sessions, UNCHANGED <<ticket, deleted, chains>>,
           owner' \in Sessions \union {NoSession},
           NEW o \in Entries \union {"idle"}, op' = [op EXCEPT ![s] = o],
           NEW t \in TicketStates, tseen' = [tseen EXCEPT ![s] = t],
           NEW g \in TicketStates, target' = [target EXCEPT ![s] = g],
           \/ o \notin {"transition", "delete"} /\ UNCHANGED <<at, cseen>>
           \/ at' = [at EXCEPT ![s] = Latest] /\ cseen' = [cseen EXCEPT ![s] = chains[Latest]]
    PROVE  ApprovalInv'
  <1>0. chains \in Seq(Chain) /\ Len(chains) \in Nat \ {0} /\ chains[Len(chains)] \in Chain
    BY DEF ApprovalInv, ChainsOK
  <1>1. at' \in [Sessions -> Nat] /\ cseen' \in [Sessions -> Chain]
    BY <1>0 DEF ApprovalInv, TypeOK, Latest
  <1>2. TypeOK'
    BY <1>1 DEF ApprovalInv, TypeOK
  <1>3. SessionsLoaded'
    <2> SUFFICES ASSUME NEW u \in Sessions
                 PROVE  at'[u] <= Len(chains') /\ (op'[u] \in {"transition", "delete"} => at'[u] # 0)
      BY DEF SessionsLoaded
    <2>1. at[u] <= Len(chains) /\ (op[u] \in {"transition", "delete"} => at[u] # 0)
      BY DEF ApprovalInv, SessionsLoaded
    <2>2. op'[u] = IF u = s THEN o ELSE op[u]
      BY DEF ApprovalInv, TypeOK
    <2>3. CASE o \notin {"transition", "delete"} /\ UNCHANGED <<at, cseen>>
      BY <2>1, <2>2, <2>3
    <2>4. CASE at' = [at EXCEPT ![s] = Latest]
      <3>1. at'[u] = IF u = s THEN Len(chains) ELSE at[u]
        BY <2>4 DEF ApprovalInv, TypeOK, Latest
      <3> QED
        BY <1>0, <2>1, <2>2, <3>1
    <2> QED
      BY <2>3, <2>4
  <1> QED
    BY <1>2, <1>3 DEF ApprovalInv

-----------------------------------------------------------------------------
(* The invariant                                                           *)

LEMMA InitApprovalInv == Init => ApprovalInv
  <1> SUFFICES ASSUME Init PROVE ApprovalInv
    OBVIOUS
  <1>a. chains = <<NewChain>>
    BY Zenon DEF Init
  <1>b. op = [s \in Sessions |-> "idle"] /\ at = [s \in Sessions |-> 0]
        /\ cseen = [s \in Sessions |-> NewChain]
    BY Zenon DEF Init
  <1>c. ticket = "Awaiting Approval" /\ tseen = [s \in Sessions |-> "Awaiting Approval"]
        /\ target = [s \in Sessions |-> "Awaiting Approval"] /\ owner = NoSession
    BY Zenon DEF Init
  <1>d. deleted \in BOOLEAN
    BY Zenon DEF Init
  <1>2. chains \in Seq(Chain) /\ Len(chains) = 1 /\ chains[1] = NewChain
    BY <1>a, NewChainTyped
  <1>1. TypeOK
    BY <1>b, <1>c, <1>d, <1>2, NewChainTyped DEF TypeOK, TicketStates
  <1>3. ChainsOK(chains)
    BY <1>2, NewChainOK DEF ChainsOK
  <1>4. SessionsLoaded
    BY <1>b, <1>2 DEF SessionsLoaded
  <1> QED
    BY <1>1, <1>3, <1>4 DEF ApprovalInv

LEMMA DecideKeepsInv ==
    ASSUME ApprovalInv, NEW i \in 1 .. Latest, NEW b \in Ballots, NEW decision \in Decisions,
           Decide(i, b, decision)
    PROVE  ApprovalInv'
  <1> DEFINE c == DecideVote(chains[i], b, decision)
  <1>1. ChainOK(chains[i]) /\ i \in 1 .. Len(chains) /\ ChainsOK(chains)
    BY DEF ApprovalInv, ChainsOK, Latest
  <1>2. Active(chains[i], b) /\ chains' = [chains EXCEPT ![i] = c] /\ ticket' = TicketAfter(ticket, c)
        /\ UNCHANGED <<deleted, owner, op, tseen, at, cseen, target>>
    BY DEF Decide, local
  <1>3. ChainOK(c)
    BY <1>1, <1>2, ApproveOK, RejectOK DEF DecideVote
  <1> HIDE DEF c
  <1>4. ChainsOK(chains') /\ Len(chains') = Len(chains)
    BY <1>1, <1>2, <1>3, UpdatedOK
  <1>5. TypeOK'
    BY <1>2, <1>4 DEF ApprovalInv, TypeOK, ChainsOK, TicketAfter, TicketStates, Decisions
  <1>6. SessionsLoaded'
    BY <1>2, <1>4 DEF ApprovalInv, SessionsLoaded
  <1> QED
    BY <1>4, <1>5, <1>6 DEF ApprovalInv

LEMMA CommitRevisionKeepsInv ==
    ASSUME ApprovalInv, NEW s \in Sessions, CommitRevision(s)
    PROVE  ApprovalInv'
  <1> DEFINE m == Merge(chains[at[s]], cseen[s], SupersedeChain(cseen[s]))
             cs == [chains EXCEPT ![at[s]] = m]
  <1>0. at[s] # 0
    BY DEF CommitRevision
  <1>1. ChainsOK(chains) /\ at[s] \in 1 .. Len(chains) /\ cseen[s] \in Chain /\ Len(chains) \in Nat
    BY <1>0 DEF ApprovalInv, TypeOK, SessionsLoaded, ChainsOK
  <1>2. ChainOK(m)
    BY <1>1, SupersededOK DEF ChainsOK
  <1>3. chains' = Append(cs, NewChain)
    BY DEF CommitRevision
  <1> HIDE DEF m
  <1>4. ChainsOK(cs) /\ Len(cs) = Len(chains)
    BY <1>1, <1>2, UpdatedOK
  <1> HIDE DEF cs
  <1>5. ChainsOK(chains') /\ Len(chains') = Len(chains) + 1
    BY <1>3, <1>4, AppendedOK
  <1>6. Finish(s) /\ ticket' \in TicketStates /\ deleted' \in BOOLEAN
    BY DEF CommitRevision, ApprovalInv, TypeOK, TicketStates
  <1>7. Len(chains') >= Len(chains)
    BY <1>1, <1>5
  <1> QED
    BY <1>5, <1>6, <1>7, FinishOK

LEMMA CommitKeepsInv ==
    ASSUME ApprovalInv, NEW s \in Sessions, Commit(s)
    PROVE  ApprovalInv'
  <1> DEFINE m == Merge(chains[at[s]], cseen[s], CancelChain(cseen[s]))
  <1>1. ChainsOK(chains) /\ at[s] \in 1 .. Len(chains) /\ cseen[s] \in Chain /\ Len(chains) \in Nat
    BY DEF ApprovalInv, TypeOK, SessionsLoaded, Commit, ChainsOK
  <1>2. ChainOK(m)
    BY <1>1, CancelledOK DEF ChainsOK
  <1>3. chains' = [chains EXCEPT ![at[s]] = m] \/ chains' = chains
    BY DEF Commit
  <1> HIDE DEF m
  <1>4. ChainsOK(chains') /\ Len(chains') = Len(chains)
    BY <1>1, <1>2, <1>3, UpdatedOK
  <1>5. Finish(s) /\ ticket' \in TicketStates /\ deleted' \in BOOLEAN
    BY DEF Commit, ApprovalInv, TypeOK
  <1>6. Len(chains') >= Len(chains)
    BY <1>1, <1>4
  <1> QED
    BY <1>4, <1>5, <1>6, FinishOK

LEMMA NextKeepsInv == ApprovalInv /\ [Next]_vars => ApprovalInv'
  <1> SUFFICES ASSUME ApprovalInv, [Next]_vars PROVE ApprovalInv'
    OBVIOUS
  <1>0. TypeOK
    BY DEF ApprovalInv
  <1>1. CASE UNCHANGED vars
    BY <1>1 DEF vars, ApprovalInv, TypeOK, SessionsLoaded
  <1>2. ASSUME NEW i \in 1 .. Latest, NEW b \in Ballots, NEW decision \in Decisions,
               Decide(i, b, decision)
        PROVE  ApprovalInv'
    BY <1>2, DecideKeepsInv
  <1>3. ASSUME NEW s \in Sessions, NEW entry \in Entries \intersect Revisions,
               BeginRevision(s, entry)
        PROVE  ApprovalInv'
    <2>1. entry \notin {"transition", "delete"}
      BY DEF Revisions
    <2>2. target' = [target EXCEPT ![s] = target[s]] /\ target[s] \in TicketStates
      BY <1>0, <1>3 DEF BeginRevision, TypeOK
    <2> QED
      BY <1>0, <1>3, <2>1, <2>2, LoadOK DEF BeginRevision, TypeOK
  <1>4. ASSUME NEW s \in Sessions, LockForReassignment(s) PROVE ApprovalInv'
    <2>1. target' = [target EXCEPT ![s] = target[s]] /\ target[s] \in TicketStates
      BY <1>0, <1>4 DEF LockForReassignment, TypeOK
    <2>2. op' = [op EXCEPT ![s] = op[s]] /\ op[s] \in Entries \union {"idle"}
      BY <1>0, <1>4 DEF LockForReassignment, TypeOK
    <2> QED
      BY <1>0, <1>4, <2>1, <2>2, LoadOK DEF LockForReassignment, TypeOK
  <1>5. ASSUME NEW s \in Sessions, LoadChain(s) PROVE ApprovalInv'
    <2>1. target' = [target EXCEPT ![s] = target[s]] /\ target[s] \in TicketStates
      BY <1>0, <1>5 DEF LoadChain, TypeOK
    <2>2. op' = [op EXCEPT ![s] = op[s]] /\ op[s] \in Entries \union {"idle"}
      BY <1>0, <1>5 DEF LoadChain, TypeOK
    <2>3. tseen' = [tseen EXCEPT ![s] = tseen[s]] /\ tseen[s] \in TicketStates
      BY <1>0, <1>5 DEF LoadChain, TypeOK
    <2> QED
      BY <1>0, <1>5, <2>1, <2>2, <2>3, LoadOK DEF LoadChain, TypeOK
  <1>6. ASSUME NEW s \in Sessions, CommitRevision(s) PROVE ApprovalInv'
    BY <1>6, CommitRevisionKeepsInv
  <1>7. ASSUME NEW s \in Sessions, NEW state \in TicketStates, "transition" \in Entries,
               BeginTransition(s, state)
        PROVE  ApprovalInv'
    BY <1>0, <1>7, LoadOK DEF BeginTransition, TypeOK
  <1>8. ASSUME NEW s \in Sessions, "delete" \in Entries, BeginDelete(s) PROVE ApprovalInv'
    <2>1. "Cancelled" \in TicketStates
      BY DEF TicketStates, Locked
    <2> QED
      BY <1>0, <1>8, <2>1, LoadOK DEF BeginDelete, TypeOK
  <1>9. ASSUME NEW s \in Sessions, Commit(s) PROVE ApprovalInv'
    BY <1>9, CommitKeepsInv
  <1>10. ASSUME NEW s \in Sessions, Abort(s) PROVE ApprovalInv'
    <2>1. ChainsOK(chains') /\ Len(chains') >= Len(chains)
      BY <1>10 DEF Abort, ApprovalInv, ChainsOK
    <2>2. Finish(s) /\ ticket' \in TicketStates /\ deleted' \in BOOLEAN
      BY <1>0, <1>10 DEF Abort, TypeOK
    <2> QED
      BY <2>1, <2>2, FinishOK
  <1> QED
    BY <1>1, <1>2, <1>3, <1>4, <1>5, <1>6, <1>7, <1>8, <1>9, <1>10 DEF Next

\* Every reachable state is well typed, whatever requests run concurrently:
\* the columns a stale session writes over fresher rows never leave a chain,
\* a gate or a vote in a state it has not.
THEOREM ChangeTypeOK == Spec => []TypeOK
  <1>1. ApprovalInv => TypeOK
    BY DEF ApprovalInv
  <1> QED
    BY <1>1, InitApprovalInv, NextKeepsInv, PTL DEF Spec

\* The gates of a running chain are asked strictly in order (decide_vote
\* activates the next one), for any number of gates and of requests.
THEOREM ChangeRunningInOrder == Spec => []RunningInOrder
  <1>1. ApprovalInv => RunningInOrder
    BY DEF ApprovalInv, ChainsOK, ChainOK, StandsAt, RunningInOrder, GatesInOrder, Latest
  <1> QED
    BY <1>1, InitApprovalInv, NextKeepsInv, PTL DEF Spec

\* No chain is Approved with fewer approvals than its gates ask for, or over a
\* rejection, for every mode, any approvers, and any number of requests that
\* cancel and revise the change while it is being decided.
THEOREM ChangeApprovedIsFullyApproved == Spec => []ApprovedIsFullyApproved
  <1>1. ApprovalInv => ApprovedIsFullyApproved
    BY DEF ApprovalInv, ChainsOK, ChainOK, ApprovedIsFullyApproved, Latest
  <1> QED
    BY <1>1, InitApprovalInv, NextKeepsInv, PTL DEF Spec

-----------------------------------------------------------------------------
(* One chain at a time                                                     *)
(*                                                                         *)
(* The revising pages hold the row lock of the ticket from before they load *)
(* the latest chain until they append the next one, so that the chain they  *)
(* supersede is the latest still; the chat command holds no lock and is     *)
(* safe only as long as no other request is open.                           *)

OnlyLatestRuns ==
    /\ \A i \in 1 .. Latest : chains[i].state = "Running" => i = Latest
    /\ chains[Latest].state # "Superseded"

\* What a request has loaded is current enough for what it will write.
SessionOK(s) ==
    /\ op[s] = "idle" => at[s] = 0
    /\ op[s] \in Revisions /\ at[s] # 0 =>
         /\ at[s] = Latest
         /\ chains[Latest].state = "Running" => cseen[s].state = "Running"
         /\ op[s] # "chat" => owner = s

ChatAlone == \A s, t \in Sessions : op[s] = "chat" /\ s # t => op[t] = "idle"

\* As long as requests do not overlap: nobody else has changed what a page that
\* moves the ticket has seen, except for a decision.
TransitionOK(s) ==
    op[s] \in {"transition", "delete"} =>
        /\ tseen[s] # "Awaiting Approval" => ticket # "Awaiting Approval"
        /\ target[s] = "Awaiting Approval" => tseen[s] = "Awaiting Approval"
        /\ target[s] = "In Progress" /\ tseen[s] # "In Progress" => chains[Latest].state = "Approved"

WhileAlone ==
    ~overlapped => /\ ~Overlap(op)
                   /\ AwaitingIsAsked
                   /\ \A s \in Sessions : TransitionOK(s)

ChangeInv ==
    /\ ApprovalInv /\ OnlyLatestRuns /\ ChatAlone /\ WhileAlone
    /\ \A s \in Sessions : SessionOK(s)

\* What ending a chain makes of its state, and what a decision does.
LEMMA CancelledState ==
    ASSUME NEW stored, NEW loaded
    PROVE  Merge(stored, loaded, CancelChain(loaded)).state \in {stored.state, "Cancelled"}
  BY DEF Merge, CancelChain, EndChain

LEMMA SupersededState ==
    ASSUME NEW stored, NEW loaded, stored.state = "Running" => loaded.state = "Running"
    PROVE  Merge(stored, loaded, SupersedeChain(loaded)).state # "Running"
  BY DEF Merge, SupersedeChain, EndChain

LEMMA DecidedState ==
    ASSUME NEW c \in Chain, NEW b \in Ballots, Active(c, b), NEW decision
    PROVE  /\ c.state = "Running"
           /\ DecideVote(c, b, decision).state \in {"Running", "Approved", "Rejected"}
  <1>1. c.state = "Running"
    BY DEF Active
  <1>2. RejectVote(c, b).state = "Rejected"
    BY DEF RejectVote
  <1>3. ApproveVote(c, b).state \in {"Running", "Approved"}
    <2>1. PICK vote : vote = [c.vote EXCEPT ![b] = "Approved"]
      OBVIOUS
    <2>2. [c EXCEPT !.vote = vote].state = "Running"
      BY <1>1 DEF Chain
    <2>3. PassGate(c, b[1], vote).state \in {"Running", "Approved"}
      BY <1>1 DEF PassGate
    <2> QED
      BY <2>1, <2>2, <2>3 DEF ApproveVote
  <1> QED
    BY <1>1, <1>2, <1>3 DEF DecideVote

\* A request that does nothing while another one, or a decision, goes on.
LEMMA BystanderOK ==
    ASSUME NEW s \in Sessions, SessionOK(s), op'[s] = op[s], at'[s] = at[s], cseen'[s] = cseen[s],
           owner = s => owner' = s, Len(chains') = Len(chains),
           chains'[Latest].state = "Running" => chains[Latest].state = "Running"
    PROVE  SessionOK(s)'
  BY DEF SessionOK, Latest

\* As long as nothing overlaps, the others are idle while a request goes on.
LEMMA OthersIdle ==
    ASSUME ~Overlap(op), NEW s \in Sessions, op[s] # "idle", NEW t \in Sessions, t # s
    PROVE  op[t] = "idle"
  BY DEF Overlap

LEMMA ChainsTyped ==
    ASSUME ApprovalInv
    PROVE  /\ chains \in Seq(Chain) /\ Len(chains) \in Nat \ {0} /\ Latest \in 1 .. Len(chains)
           /\ \A i \in 1 .. Len(chains) : chains[i] \in Chain
           /\ NoSession \notin Sessions
  <1>1. chains \in Seq(Chain) /\ Len(chains) \in Nat \ {0}
    BY DEF ApprovalInv, ChainsOK
  <1> QED
    BY <1>1, ChangeApprovalAssumption DEF Latest, NoSession

\* The condition under which the model lets requests overlap.
Allowed ==
    /\ "chat" \notin Beside
    /\ Overlap(op') => \A s \in Sessions : op'[s] \in Beside \union {"idle"}
    /\ overlapped' = (overlapped \/ Overlap(op'))

LEMMA AllowedFacts ==
    ASSUME Allowed
    PROVE  ChatAlone' /\ (~overlapped' => ~overlapped /\ ~Overlap(op)')
  <1>1. ~overlapped' => ~overlapped /\ ~Overlap(op)'
    BY Zenon DEF Allowed
  <1>2. ASSUME NEW s \in Sessions, NEW t \in Sessions, op'[s] = "chat", s # t, op'[t] # "idle"
        PROVE  FALSE
    <2>1. Overlap(op')
      BY <1>2 DEF Overlap
    <2> QED
      BY <1>2, <2>1 DEF Allowed
  <1> QED
    BY <1>1, <1>2 DEF ChatAlone

LEMMA DecideKeepsChange ==
    ASSUME ChangeInv, ApprovalInv', Allowed, NEW i \in 1 .. Latest, NEW b \in Ballots, NEW decision \in Decisions,
           Decide(i, b, decision)
    PROVE  ChangeInv'
  <1>1. PICK c : c = DecideVote(chains[i], b, decision)
    OBVIOUS
  <1>2. Active(chains[i], b) /\ chains' = [chains EXCEPT ![i] = c] /\ ticket' = TicketAfter(ticket, c)
        /\ owner' = owner /\ op' = op /\ tseen' = tseen /\ at' = at /\ cseen' = cseen /\ target' = target
    BY <1>1 DEF Decide, local
  <1>3. ApprovalInv /\ OnlyLatestRuns
    BY DEF ChangeInv
  <1>4. chains[i].state = "Running" /\ c.state \in {"Running", "Approved", "Rejected"}
    BY <1>1, <1>2, <1>3, ChainsTyped, DecidedState DEF Latest
  <1>5. i = Latest
    BY <1>3, <1>4 DEF OnlyLatestRuns
  <1>6. /\ Len(chains') = Len(chains) /\ Latest' = Latest /\ chains'[Latest] = c
        /\ \A j \in 1 .. Latest : j # Latest => chains'[j] = chains[j]
    BY <1>2, <1>3, <1>5, ChainsTyped DEF Latest
  <1>7. OnlyLatestRuns'
    BY <1>3, <1>4, <1>6 DEF OnlyLatestRuns
  <1>8. \A s \in Sessions : SessionOK(s)'
    BY <1>2, <1>4, <1>5, <1>6, BystanderOK DEF ChangeInv
  <1>9. ASSUME ~overlapped' PROVE AwaitingIsAsked' /\ \A s \in Sessions : TransitionOK(s)'
    <2>1. AwaitingIsAsked /\ \A s \in Sessions : TransitionOK(s)
      BY <1>9, AllowedFacts DEF ChangeInv, WhileAlone
    <2>2. ticket' = "Awaiting Approval" => ticket = "Awaiting Approval" /\ c.state = "Running"
      BY <1>2, <1>4 DEF TicketAfter, Decisions
    <2>3. AwaitingIsAsked'
      BY <1>6, <2>2 DEF AwaitingIsAsked
    <2>4. ASSUME NEW s \in Sessions PROVE TransitionOK(s)'
      BY <1>2, <1>4, <1>5, <2>1, <2>2 DEF TransitionOK
    <2> QED
      BY <2>3, <2>4
  <1> QED
    BY <1>7, <1>8, <1>9, AllowedFacts DEF ChangeInv, WhileAlone

\* What a request that ends leaves of itself, and of the others.
LEMMA FinishFacts ==
    ASSUME ApprovalInv, NEW s \in Sessions, Finish(s)
    PROVE  /\ op'[s] = "idle" /\ at'[s] = 0
           /\ \A t \in Sessions : t # s => /\ op'[t] = op[t] /\ at'[t] = at[t] /\ cseen'[t] = cseen[t]
                                           /\ tseen'[t] = tseen[t] /\ target'[t] = target[t]
                                           /\ owner = t => owner' = t
  BY DEF ApprovalInv, TypeOK, Finish

LEMMA IdleOK ==
    ASSUME NEW s \in Sessions, op'[s] = "idle", at'[s] = 0
    PROVE  SessionOK(s)' /\ TransitionOK(s)'
  BY DEF SessionOK, TransitionOK, Revisions

LEMMA CommitRevisionKeepsChange ==
    ASSUME ChangeInv, ApprovalInv', Allowed, NEW s \in Sessions, CommitRevision(s)
    PROVE  ChangeInv'
  <1>1. PICK m : m = Merge(chains[at[s]], cseen[s], SupersedeChain(cseen[s]))
    OBVIOUS
  <1>2. PICK cs : cs = [chains EXCEPT ![at[s]] = m]
    OBVIOUS
  <1>3. op[s] \in Revisions /\ at[s] # 0 /\ owner \in {NoSession, s} /\ Finish(s)
        /\ chains' = Append(cs, NewChain)
    BY <1>1, <1>2 DEF CommitRevision, MayWriteTicket
  <1>4. ApprovalInv /\ OnlyLatestRuns /\ ChatAlone /\ \A t \in Sessions : SessionOK(t)
    BY DEF ChangeInv
  <1>5. at[s] = Latest /\ (chains[Latest].state = "Running" => cseen[s].state = "Running")
    BY <1>3, <1>4 DEF SessionOK
  <1>6. m.state # "Running"
    BY <1>1, <1>5, SupersededState
  <1>7. m \in Chain /\ NewChain \in Chain /\ NewChain.state = "Running"
    <2>1. cseen[s] \in Chain /\ ChainOK(chains[at[s]])
      BY <1>4, <1>5, ChainsTyped DEF ApprovalInv, TypeOK, ChainsOK
    <2> QED
      BY <1>1, <2>1, SupersededOK, NewChainTyped DEF ChainOK, NewChain
  <1>8. /\ cs \in Seq(Chain) /\ Len(cs) = Len(chains)
        /\ \A j \in 1 .. Len(chains) : cs[j] = IF j = Latest THEN m ELSE chains[j]
    BY <1>2, <1>4, <1>5, <1>7, ChainsTyped
  <1>9. /\ Latest' = Latest + 1 /\ chains'[Latest + 1] = NewChain
        /\ \A j \in 1 .. Latest : chains'[j] = IF j = Latest THEN m ELSE chains[j]
    BY <1>3, <1>4, <1>7, <1>8, ChainsTyped DEF Latest
  <1>10. OnlyLatestRuns'
    <2>1. Latest \in Nat
      BY <1>4, ChainsTyped
    <2>2. \A j \in 1 .. Latest + 1 : j # Latest + 1 => j \in 1 .. Latest
      BY <2>1
    <2>3. \A j \in 1 .. Latest : chains'[j].state # "Running"
      BY <1>4, <1>6, <1>9 DEF OnlyLatestRuns
    <2> QED
      BY <1>7, <1>9, <2>2, <2>3 DEF OnlyLatestRuns
  <1>11. ASSUME NEW t \in Sessions PROVE SessionOK(t)'
    <2>1. CASE t = s
      BY <1>3, <1>4, <2>1, FinishFacts, IdleOK
    <2>2. CASE t # s
      <3>1. op'[t] = op[t] /\ at'[t] = at[t]
        BY <1>3, <1>4, <2>2, FinishFacts
      <3>2. ~(op[t] \in Revisions /\ at[t] # 0)
        <4> SUFFICES ASSUME op[t] \in Revisions, at[t] # 0 PROVE FALSE
          OBVIOUS
        <4>1. op[t] = "chat" \/ owner = t
          BY <1>4 DEF SessionOK
        <4>2. owner # t
          BY <1>3, <1>4, <2>2, ChainsTyped
        <4>3. op[s] = "idle"
          BY <1>4, <2>2, <4>1, <4>2 DEF ChatAlone
        <4> QED
          BY <1>3, <4>3 DEF Revisions
      <3> QED
        BY <1>4, <3>1, <3>2 DEF SessionOK
    <2> QED
      BY <2>1, <2>2
  <1>12. ASSUME ~overlapped' PROVE AwaitingIsAsked' /\ \A t \in Sessions : TransitionOK(t)'
    <2>1. AwaitingIsAsked'
      BY <1>7, <1>9 DEF AwaitingIsAsked
    <2>2. ~Overlap(op) /\ op[s] # "idle"
      BY <1>3, <1>12, AllowedFacts DEF ChangeInv, WhileAlone, Revisions
    <2>3. ASSUME NEW t \in Sessions PROVE TransitionOK(t)'
      <3>1. CASE t = s
        BY <1>3, <1>4, <3>1, FinishFacts, IdleOK
      <3>2. CASE t # s
        <4>1. op'[t] = "idle"
          BY <1>3, <1>4, <2>2, <3>2, FinishFacts, OthersIdle
        <4> QED
          BY <4>1 DEF TransitionOK
      <3> QED
        BY <3>1, <3>2
    <2> QED
      BY <2>1, <2>3
  <1> QED
    BY <1>10, <1>11, <1>12, AllowedFacts DEF ChangeInv, WhileAlone

\* A request that ends without a new chain: no chain comes to life.
LEMMA EndKeepsChange ==
    ASSUME ChangeInv, ApprovalInv', Allowed, NEW s \in Sessions, op[s] # "idle", Finish(s),
           Len(chains') = Len(chains),
           \A j \in 1 .. Len(chains) : chains'[j].state \in {chains[j].state, "Cancelled"},
           ~overlapped => AwaitingIsAsked'
    PROVE  ChangeInv'
  <1>1. ApprovalInv /\ OnlyLatestRuns /\ \A t \in Sessions : SessionOK(t)
    BY DEF ChangeInv
  <1>2. Latest \in 1 .. Len(chains) /\ Latest' = Latest /\ Latest = Len(chains)
    BY <1>1, ChainsTyped DEF Latest
  <1>3. OnlyLatestRuns'
    BY <1>1, <1>2 DEF OnlyLatestRuns
  <1>4. ASSUME NEW t \in Sessions PROVE SessionOK(t)'
    <2>1. CASE t = s
      BY <1>1, <2>1, FinishFacts, IdleOK
    <2>2. CASE t # s
      <3>1. op'[t] = op[t] /\ at'[t] = at[t] /\ cseen'[t] = cseen[t] /\ (owner = t => owner' = t)
        BY <1>1, <2>2, FinishFacts
      <3>2. chains'[Latest].state = "Running" => chains[Latest].state = "Running"
        BY <1>2
      <3> QED
        BY <1>1, <3>1, <3>2, BystanderOK
    <2> QED
      BY <2>1, <2>2
  <1>5. ASSUME ~overlapped' PROVE AwaitingIsAsked' /\ \A t \in Sessions : TransitionOK(t)'
    <2>1. AwaitingIsAsked' /\ ~Overlap(op)
      BY <1>5, AllowedFacts DEF ChangeInv, WhileAlone
    <2>2. ASSUME NEW t \in Sessions PROVE TransitionOK(t)'
      <3>1. op'[t] = "idle"
        BY <1>1, <2>1, FinishFacts, OthersIdle
      <3> QED
        BY <3>1 DEF TransitionOK
    <2> QED
      BY <2>1, <2>2
  <1> QED
    BY <1>3, <1>4, <1>5, AllowedFacts DEF ChangeInv, WhileAlone

LEMMA CommitKeepsChange ==
    ASSUME ChangeInv, ApprovalInv', Allowed, NEW s \in Sessions, Commit(s)
    PROVE  ChangeInv'
  <1>1. op[s] \in {"transition", "delete"} /\ Finish(s)
        /\ ticket' = (IF target[s] # tseen[s] THEN target[s] ELSE ticket)
    BY DEF Commit
  <1>2. PICK m : m = Merge(chains[at[s]], cseen[s], CancelChain(cseen[s]))
    OBVIOUS
  <1>3. ApprovalInv
    BY DEF ChangeInv
  <1>4. at[s] \in 1 .. Len(chains) /\ cseen[s] \in Chain /\ ChainOK(chains[at[s]])
    BY <1>1, <1>3, ChainsTyped DEF ApprovalInv, TypeOK, SessionsLoaded, ChainsOK
  <1>5. m.state \in {chains[at[s]].state, "Cancelled"} /\ m \in Chain
    BY <1>2, <1>4, CancelledState, CancelledOK DEF ChainOK
  <1>6. (chains' = [chains EXCEPT ![at[s]] = m] /\ target[s] = "Cancelled") \/ chains' = chains
    BY <1>2 DEF Commit
  <1>7. /\ Len(chains') = Len(chains)
        /\ \A j \in 1 .. Len(chains) : chains'[j].state \in {chains[j].state, "Cancelled"}
    BY <1>3, <1>4, <1>5, <1>6, ChainsTyped
  <1>8. ASSUME ~overlapped PROVE AwaitingIsAsked'
    <2> SUFFICES ASSUME ticket' = "Awaiting Approval"
                 PROVE  chains'[Latest'].state = "Running"
      BY DEF AwaitingIsAsked
    <2>1. TransitionOK(s) /\ AwaitingIsAsked
      BY <1>8 DEF ChangeInv, WhileAlone
    <2>2. target[s] = tseen[s] /\ ticket = "Awaiting Approval" /\ tseen[s] = "Awaiting Approval"
      BY <1>1, <2>1 DEF TransitionOK
    <2>3. chains' = chains
      BY <1>6, <2>2
    <2> QED
      BY <2>1, <2>2, <2>3 DEF AwaitingIsAsked, Latest
  <1> QED
    BY <1>1, <1>7, <1>8, EndKeepsChange

LEMMA AbortKeepsChange ==
    ASSUME ChangeInv, ApprovalInv', Allowed, NEW s \in Sessions, Abort(s)
    PROVE  ChangeInv'
  <1>1. op[s] # "idle" /\ Finish(s) /\ ticket' = ticket /\ chains' = chains
    BY DEF Abort
  <1>2. ~overlapped => AwaitingIsAsked'
    BY <1>1 DEF ChangeInv, WhileAlone, AwaitingIsAsked, Latest
  <1> QED
    BY <1>1, <1>2, EndKeepsChange

\* A request that loads something writes nothing.
LEMMA LoadKeepsChange ==
    ASSUME ChangeInv, ApprovalInv', Allowed, NEW s \in Sessions, ticket' = ticket, chains' = chains,
           \A t \in Sessions : t # s =>
               /\ op'[t] = op[t] /\ at'[t] = at[t] /\ cseen'[t] = cseen[t]
               /\ tseen'[t] = tseen[t] /\ target'[t] = target[t]
               /\ owner = t => owner' = t,
           SessionOK(s)', ~overlapped => TransitionOK(s)'
    PROVE  ChangeInv'
  <1>1. OnlyLatestRuns' /\ Latest' = Latest
    BY DEF ChangeInv, OnlyLatestRuns, Latest
  <1>2. ASSUME NEW t \in Sessions PROVE SessionOK(t)'
    <2>1. CASE t # s
      BY <2>1, BystanderOK DEF ChangeInv
    <2> QED
      BY <2>1
  <1>3. ASSUME ~overlapped' PROVE AwaitingIsAsked' /\ \A t \in Sessions : TransitionOK(t)'
    <2>1. AwaitingIsAsked /\ ~overlapped /\ \A t \in Sessions : TransitionOK(t)
      BY <1>3, AllowedFacts DEF ChangeInv, WhileAlone
    <2>2. ASSUME NEW t \in Sessions, t # s PROVE TransitionOK(t)'
      BY <1>1, <2>1, <2>2 DEF TransitionOK
    <2> QED
      BY <1>1, <2>1, <2>2 DEF AwaitingIsAsked
  <1> QED
    BY <1>1, <1>2, <1>3, AllowedFacts DEF ChangeInv, WhileAlone

LEMMA BeginRevisionKeepsChange ==
    ASSUME ChangeInv, ApprovalInv', Allowed, NEW s \in Sessions, NEW entry \in Revisions, BeginRevision(s, entry)
    PROVE  ChangeInv'
  <1>1. op[s] = "idle" /\ op' = [op EXCEPT ![s] = entry] /\ tseen' = [tseen EXCEPT ![s] = ticket]
        /\ ticket' = ticket /\ chains' = chains /\ at' = at /\ cseen' = cseen /\ target' = target
        /\ (owner' = owner \/ owner = NoSession)
    BY DEF BeginRevision
  <1>2. ApprovalInv /\ SessionOK(s)
    BY DEF ChangeInv
  <1>3. op'[s] = entry /\ at'[s] = 0 /\ entry \notin {"idle", "transition", "delete"}
    BY <1>1, <1>2 DEF ApprovalInv, TypeOK, SessionOK, Revisions
  <1>4. \A t \in Sessions : t # s =>
           /\ op'[t] = op[t] /\ at'[t] = at[t] /\ cseen'[t] = cseen[t]
           /\ tseen'[t] = tseen[t] /\ target'[t] = target[t]
           /\ owner = t => owner' = t
    BY <1>1, <1>2, ChainsTyped DEF ApprovalInv, TypeOK
  <1>5. SessionOK(s)' /\ TransitionOK(s)'
    BY <1>3 DEF SessionOK, TransitionOK
  <1> QED
    BY <1>1, <1>4, <1>5, LoadKeepsChange

LEMMA LockKeepsChange ==
    ASSUME ChangeInv, ApprovalInv', Allowed, NEW s \in Sessions, LockForReassignment(s)
    PROVE  ChangeInv'
  <1>1. op[s] = "reassign" /\ owner = NoSession /\ owner' = s /\ tseen' = [tseen EXCEPT ![s] = ticket]
        /\ ticket' = ticket /\ chains' = chains /\ op' = op /\ at' = at /\ cseen' = cseen /\ target' = target
    BY DEF LockForReassignment
  <1>2. ApprovalInv /\ SessionOK(s)
    BY DEF ChangeInv
  <1>3. \A t \in Sessions : t # s =>
           /\ op'[t] = op[t] /\ at'[t] = at[t] /\ cseen'[t] = cseen[t]
           /\ tseen'[t] = tseen[t] /\ target'[t] = target[t]
           /\ owner = t => owner' = t
    BY <1>1, <1>2, ChainsTyped DEF ApprovalInv, TypeOK
  <1>4. SessionOK(s)'
    BY <1>1, <1>2 DEF SessionOK, Latest
  <1>5. TransitionOK(s)'
    BY <1>1 DEF TransitionOK
  <1> QED
    BY <1>1, <1>3, <1>4, <1>5, LoadKeepsChange

LEMMA LoadChainKeepsChange ==
    ASSUME ChangeInv, ApprovalInv', Allowed, NEW s \in Sessions, LoadChain(s)
    PROVE  ChangeInv'
  <1>1. op[s] \in Revisions /\ (op[s] # "chat" => owner = s)
        /\ at' = [at EXCEPT ![s] = Latest] /\ cseen' = [cseen EXCEPT ![s] = chains[Latest]]
        /\ ticket' = ticket /\ chains' = chains /\ owner' = owner /\ op' = op /\ tseen' = tseen /\ target' = target
    BY DEF LoadChain
  <1>2. ApprovalInv
    BY DEF ChangeInv
  <1>3. at'[s] = Latest /\ cseen'[s] = chains[Latest] /\ op[s] \notin {"idle", "transition", "delete"}
    BY <1>1, <1>2 DEF ApprovalInv, TypeOK, Revisions
  <1>4. \A t \in Sessions : t # s =>
           /\ op'[t] = op[t] /\ at'[t] = at[t] /\ cseen'[t] = cseen[t]
           /\ tseen'[t] = tseen[t] /\ target'[t] = target[t]
           /\ owner = t => owner' = t
    BY <1>1, <1>2 DEF ApprovalInv, TypeOK
  <1>5. SessionOK(s)' /\ TransitionOK(s)'
    BY <1>1, <1>3 DEF SessionOK, TransitionOK, Latest
  <1> QED
    BY <1>1, <1>4, <1>5, LoadKeepsChange

\* allowed_ticket_states never leads back to Awaiting Approval, and to In
\* Progress only with a chain that is neither Running nor ended without approval.
LEMMA AllowedStates ==
    ASSUME NEW state, NEW chain \in Chain, NEW to \in AllowedTicketStates(state, chain), to # state
    PROVE  /\ to # "Awaiting Approval"
           /\ to = "In Progress" => chain.state \in {"Approved", "Superseded"}
  BY DEF AllowedTicketStates, TicketTransitions, Chain, ChainStates

LEMMA BeginEndKeepsChange ==
    ASSUME ChangeInv, ApprovalInv', Allowed, NEW s \in Sessions,
           NEW o \in {"transition", "delete"}, NEW to,
           to # ticket => to # "Awaiting Approval" /\ (to = "In Progress" => chains[Latest].state \in {"Approved", "Superseded"}),
           op' = [op EXCEPT ![s] = o], tseen' = [tseen EXCEPT ![s] = ticket], target' = [target EXCEPT ![s] = to],
           at' = [at EXCEPT ![s] = Latest], cseen' = [cseen EXCEPT ![s] = chains[Latest]],
           ticket' = ticket, chains' = chains, owner' = owner
    PROVE  ChangeInv'
  <1>1. ApprovalInv /\ OnlyLatestRuns
    BY DEF ChangeInv
  <1>2. op'[s] = o /\ tseen'[s] = ticket /\ target'[s] = to
    BY <1>1 DEF ApprovalInv, TypeOK
  <1>3. \A t \in Sessions : t # s =>
           /\ op'[t] = op[t] /\ at'[t] = at[t] /\ cseen'[t] = cseen[t]
           /\ tseen'[t] = tseen[t] /\ target'[t] = target[t]
           /\ owner = t => owner' = t
    BY <1>1 DEF ApprovalInv, TypeOK
  <1>4. SessionOK(s)'
    BY <1>2 DEF SessionOK, Revisions
  <1>5. TransitionOK(s)'
    <2>1. Latest' = Latest /\ chains[Latest].state # "Superseded"
      BY <1>1 DEF Latest, OnlyLatestRuns
    <2> QED
      BY <1>2, <2>1 DEF TransitionOK
  <1> QED
    BY <1>3, <1>4, <1>5, LoadKeepsChange

LEMMA NextKeepsChange ==
    ASSUME ChangeInv, Allowed, Next
    PROVE  ChangeInv'
  <1>0. ApprovalInv' /\ ApprovalInv
    BY NextKeepsInv DEF ChangeInv
  <1>1. ASSUME NEW i \in 1 .. Latest, NEW b \in Ballots, NEW decision \in Decisions, Decide(i, b, decision)
        PROVE  ChangeInv'
    BY <1>0, <1>1, DecideKeepsChange
  <1>2. ASSUME NEW s \in Sessions, NEW entry \in Entries \intersect Revisions, BeginRevision(s, entry)
        PROVE  ChangeInv'
    BY <1>0, <1>2, BeginRevisionKeepsChange
  <1>3. ASSUME NEW s \in Sessions,
               LockForReassignment(s) \/ LoadChain(s) \/ CommitRevision(s) \/ Commit(s) \/ Abort(s)
        PROVE  ChangeInv'
    BY <1>0, <1>3, LockKeepsChange, LoadChainKeepsChange, CommitRevisionKeepsChange, CommitKeepsChange,
       AbortKeepsChange
  <1>4. ASSUME NEW s \in Sessions, NEW state \in TicketStates, BeginTransition(s, state)
        PROVE  ChangeInv'
    <2>1. state \in AllowedTicketStates(ticket, chains[Latest]) /\ chains[Latest] \in Chain
      BY <1>0, <1>4, ChainsTyped DEF BeginTransition
    <2>2. state # ticket => state # "Awaiting Approval"
                            /\ (state = "In Progress" => chains[Latest].state \in {"Approved", "Superseded"})
      BY <2>1, AllowedStates
    <2>3. /\ op' = [op EXCEPT ![s] = "transition"] /\ tseen' = [tseen EXCEPT ![s] = ticket]
          /\ target' = [target EXCEPT ![s] = state] /\ at' = [at EXCEPT ![s] = Latest]
          /\ cseen' = [cseen EXCEPT ![s] = chains[Latest]]
          /\ ticket' = ticket /\ chains' = chains /\ owner' = owner
      BY <1>4 DEF BeginTransition
    <2> QED
      BY <1>0, <2>2, <2>3, BeginEndKeepsChange
  <1>5. ASSUME NEW s \in Sessions, BeginDelete(s) PROVE ChangeInv'
    <2>1. /\ op' = [op EXCEPT ![s] = "delete"] /\ tseen' = [tseen EXCEPT ![s] = ticket]
          /\ target' = [target EXCEPT ![s] = "Cancelled"] /\ at' = [at EXCEPT ![s] = Latest]
          /\ cseen' = [cseen EXCEPT ![s] = chains[Latest]]
          /\ ticket' = ticket /\ chains' = chains /\ owner' = owner
      BY <1>5 DEF BeginDelete
    <2> QED
      BY <1>0, <2>1, BeginEndKeepsChange
  <1> QED
    BY <1>1, <1>2, <1>3, <1>4, <1>5 DEF Next

LEMMA ChangeStays ==
    ASSUME ChangeInv, UNCHANGED vars, ~overlapped' => ~overlapped
    PROVE  ChangeInv'
  <1>1. ApprovalInv'
    BY NextKeepsInv DEF ChangeInv
  <1>2. /\ ticket' = ticket /\ chains' = chains /\ op' = op /\ at' = at /\ cseen' = cseen /\ tseen' = tseen
        /\ target' = target /\ owner' = owner
    BY DEF vars
  <1>3. OnlyLatestRuns' /\ ChatAlone' /\ Latest' = Latest
    BY <1>2 DEF ChangeInv, OnlyLatestRuns, ChatAlone, Latest
  <1>4. ASSUME NEW s \in Sessions PROVE SessionOK(s)'
    BY <1>2, BystanderOK DEF ChangeInv
  <1>5. WhileAlone'
    BY <1>2 DEF ChangeInv, WhileAlone, Overlap, AwaitingIsAsked, TransitionOK, Latest
  <1> QED
    BY <1>1, <1>3, <1>4, <1>5 DEF ChangeInv

LEMMA InitChange == MCInit => ChangeInv
  <1> SUFFICES ASSUME MCInit PROVE ChangeInv
    OBVIOUS
  <1>1. Init /\ ApprovalInv
    BY InitApprovalInv DEF MCInit
  <1>2. chains = <<NewChain>>
    BY <1>1, Zenon DEF Init
  <1>3. op = [s \in Sessions |-> "idle"] /\ at = [s \in Sessions |-> 0]
    BY <1>1, Zenon DEF Init
  <1>4. Latest = 1 /\ chains[1].state = "Running"
    BY <1>2, NewChainTyped DEF Latest, NewChain
  <1>5. OnlyLatestRuns /\ ChatAlone /\ AwaitingIsAsked /\ ~Overlap(op)
    BY <1>3, <1>4 DEF OnlyLatestRuns, ChatAlone, AwaitingIsAsked, Overlap
  <1>6. \A s \in Sessions : SessionOK(s) /\ TransitionOK(s)
    BY <1>3 DEF SessionOK, TransitionOK, Revisions
  <1> QED
    BY <1>1, <1>5, <1>6 DEF ChangeInv, WhileAlone

LEMMA ChangeKept == "chat" \notin Beside /\ ChangeInv /\ [Change \/ Request]_allVars => ChangeInv'
  <1> SUFFICES ASSUME "chat" \notin Beside, ChangeInv, [Change \/ Request]_allVars PROVE ChangeInv'
    OBVIOUS
  <1>1. CASE Change
    BY <1>1, NextKeepsChange DEF Change, Allowed
  <1>2. CASE Request
    <2>1. UNCHANGED vars /\ (~overlapped' => ~overlapped)
      BY <1>2, Zenon DEF Request
    <2> QED
      BY <2>1, ChangeStays
  <1>3. CASE UNCHANGED allVars
    <2>1. UNCHANGED vars /\ overlapped' = overlapped
      BY <1>3 DEF allVars
    <2> QED
      BY <2>1, ChangeStays
  <1> QED
    BY <1>1, <1>2, <1>3

\* For any number of requests that revise, cancel, delete, progress and decide a
\* change at the same time, at most one of its chains runs, provided that the
\* chat command, which takes no lock (Google Chat /escalate), does not run
\* beside another request; and as long as requests do not overlap, a change
\* that awaits approval has a chain that is asked.
THEOREM ChangeWaitsForOneChain == "chat" \notin Beside => (MCSpec => []WaitsForOneChain)
  <1> SUFFICES ASSUME "chat" \notin Beside PROVE MCSpec => []WaitsForOneChain
    OBVIOUS
  <1>1. ChangeInv => WaitsForOneChain
    <2> SUFFICES ASSUME ChangeInv PROVE WaitsForOneChain
      OBVIOUS
    <2>1. OneRunningChain
      BY DEF ChangeInv, OnlyLatestRuns, OneRunningChain
    <2> QED
      BY <2>1 DEF ChangeInv, WhileAlone, WaitsForOneChain
  <1>2. ChangeInv /\ [Change \/ Request]_allVars => ChangeInv'
    BY ChangeKept
  <1> QED
    BY <1>1, <1>2, InitChange, PTL DEF MCSpec

\* As long as requests do not overlap, transition_ticket moves a change to In
\* Progress only with its latest chain Approved.
THEOREM ChangeStartsApproved == "chat" \notin Beside => (MCSpec => StartsApproved)
  <1> SUFFICES ASSUME "chat" \notin Beside PROVE MCSpec => StartsApproved
    OBVIOUS
  <1> DEFINE Starts == ticket # "In Progress" /\ ticket' = "In Progress" /\ ~overlapped'
                       => chains'[Len(chains')].state = "Approved"
  <1>1. ASSUME ChangeInv, [Change \/ Request]_allVars, ticket # "In Progress", ticket' = "In Progress",
               ~overlapped'
        PROVE  chains'[Len(chains')].state = "Approved"
    <2>1. Change
      <3>1. ticket' # ticket
        BY <1>1
      <3> QED
        BY <1>1, <3>1 DEF Request, allVars, vars
    <2>2. Next /\ ~overlapped
      BY <1>1, <2>1, Zenon DEF Change
    <2>3. PICK s \in Sessions : Commit(s)
      <3>1. ASSUME NEW i, NEW b, NEW decision, Decide(i, b, decision) PROVE FALSE
        BY <1>1, <3>1 DEF Decide, TicketAfter, Decisions
      <3>2. ASSUME NEW s \in Sessions, CommitRevision(s) PROVE FALSE
        BY <1>1, <3>2 DEF CommitRevision
      <3> QED
        BY <1>1, <2>2, <3>1, <3>2 DEF Next, BeginRevision, LockForReassignment, LoadChain, BeginTransition,
                                      BeginDelete, Abort
    <2>4. TransitionOK(s) /\ AwaitingIsAsked
      BY <1>1, <2>2 DEF ChangeInv, WhileAlone
    <2>5. op[s] \in {"transition", "delete"} /\ target[s] = "In Progress" /\ tseen[s] # "In Progress"
          /\ chains' = chains
      BY <1>1, <2>3 DEF Commit
    <2> QED
      BY <2>4, <2>5 DEF TransitionOK, Latest
  <1>2. ChangeInv /\ [Change \/ Request]_allVars => ChangeInv' /\ [Starts]_<<vars, overlapped>>
    <2>1. ChangeInv /\ [Change \/ Request]_allVars => ChangeInv'
      BY ChangeKept
    <2>2. ChangeInv /\ [Change \/ Request]_allVars => [Starts]_<<vars, overlapped>>
      BY <1>1
    <2> QED
      BY <2>1, <2>2
  <1>3. ([][Starts]_<<vars, overlapped>>) => StartsApproved
    BY DEF StartsApproved
  <1> QED
    BY <1>2, <1>3, InitChange, PTL DEF MCSpec
-----------------------------------------------------------------------------
(* Catalog requests: the rows as values                                    *)

Rows == Catalog!Rows
Task == Catalog!Task

Authorizing == {"none", "Approved"}
Fulfilled == {"Closed Complete", "Closed Incomplete"}

\* The states of the items ordered, and what the REQ is to be with them.
Outcomes(d) == {d.item[i] : i \in Catalog!Added(d)}
AllEnded(d) == Outcomes(d) \subseteq Catalog!ItemTerminal
Follows(d) == d.request = IF AllEnded(d) THEN Catalog!FinalState(Outcomes(d)) ELSE "Open"

LEMMA RowsTyped ==
    ASSUME NEW d \in Rows
    PROVE  /\ d = [request |-> d.request, item |-> d.item, chain |-> d.chain, tasks |-> d.tasks]
           /\ d.request \in {"Open"} \union Catalog!RequestFinal
           /\ d.item \in [Items -> Catalog!ItemStates] /\ d.chain \in [Items -> Catalog!ChainStates]
           /\ d.tasks \in [Items -> Seq(Task)]
           /\ \A i \in Items : d.tasks[i] \in Seq(Task) /\ Len(d.tasks[i]) \in Nat
  <1>1. /\ d = [request |-> d.request, item |-> d.item, chain |-> d.chain, tasks |-> d.tasks]
        /\ d.request \in {"Open"} \union Catalog!RequestFinal
        /\ d.item \in [Items -> Catalog!ItemStates] /\ d.chain \in [Items -> Catalog!ChainStates]
        /\ d.tasks \in [Items -> Seq(Task)]
    BY DEF Rows, Catalog!Rows, Task
  <1>2. \A i \in Items : d.tasks[i] \in Seq(Task)
    BY <1>1
  <1> QED
    BY <1>1, <1>2

LEMMA RowsBuilt ==
    ASSUME NEW r \in {"Open"} \union Catalog!RequestFinal, NEW it \in [Items -> Catalog!ItemStates],
           NEW ch \in [Items -> Catalog!ChainStates], NEW ts \in [Items -> Seq(Task)]
    PROVE  [request |-> r, item |-> it, chain |-> ch, tasks |-> ts] \in Rows
  BY DEF Rows, Catalog!Rows, Task

LEMMA RowsRewritten ==
    ASSUME NEW d \in Rows, NEW it, NEW ch, NEW ts
    PROVE  [d EXCEPT !.chain = ch, !.tasks = ts, !.item = it]
             = [request |-> d.request, item |-> it, chain |-> ch, tasks |-> ts]
  <1>1. PICK a, b, c, t : d = [request |-> a, item |-> b, chain |-> c, tasks |-> t]
    BY RowsTyped
  <1>2. PICK x : x = [d EXCEPT !.chain = ch]
    OBVIOUS
  <1>3. PICK y : y = [x EXCEPT !.tasks = ts]
    OBVIOUS
  <1>4. PICK z : z = [y EXCEPT !.item = it]
    OBVIOUS
  <1>5. x = [request |-> a, item |-> b, chain |-> ch, tasks |-> t]
    BY <1>1, <1>2
  <1>6. y = [request |-> a, item |-> b, chain |-> ch, tasks |-> ts]
    BY <1>3, <1>5
  <1>7. z = [request |-> d.request, item |-> it, chain |-> ch, tasks |-> ts]
    BY <1>1, <1>4, <1>6
  <1> QED
    BY <1>2, <1>3, <1>4, <1>7, Zenon

LEMMA StateNames ==
    /\ {"Awaiting Approval", "Open", "Approved", "Rejected", "Cancelled", "Closed Complete", "Closed Incomplete"}
         \subseteq Catalog!ItemStates
    /\ {"Running", "Approved", "Rejected", "Cancelled", "none"} \subseteq Catalog!ChainStates
    /\ Catalog!ItemTerminal \subseteq Catalog!ItemStates
    /\ {"Rejected", "Cancelled", "Closed Complete", "Closed Incomplete"} \subseteq Catalog!ItemTerminal
    /\ "none" \notin Catalog!ItemTerminal /\ "Awaiting Approval" \notin Catalog!ItemTerminal
    /\ "Open" \notin Catalog!ItemTerminal /\ "Approved" \notin Catalog!ItemTerminal
  BY DEF Catalog!ItemStates, Catalog!ChainStates, Catalog!ItemTerminal

LEMMA OutcomesAre ==
    ASSUME NEW d
    PROVE  {d.item[i] : i \in Items} \ {"none"} = Outcomes(d)
  BY DEF Outcomes, Catalog!Added

\* settle_request touches the REQ only, and only when no item is still open.
LEMMA SettledRows ==
    ASSUME NEW d \in Rows, NEW e, e = Catalog!Settle(d)
    PROVE  /\ e \in Rows /\ e.item = d.item /\ e.chain = d.chain /\ e.tasks = d.tasks
           /\ e.request = IF AllEnded(d) THEN Catalog!FinalState(Outcomes(d)) ELSE d.request
  <1>1. PICK F : F = Catalog!FinalState(Outcomes(d))
    OBVIOUS
  <1>2. F \in {"Open"} \union Catalog!RequestFinal
    BY <1>1 DEF Catalog!FinalState, Catalog!RequestFinal
  <1>3. e = IF AllEnded(d) THEN [d EXCEPT !.request = F] ELSE d
    BY <1>1, OutcomesAre DEF Catalog!Settle, AllEnded
  <1>4. [d EXCEPT !.request = F] = [request |-> F, item |-> d.item, chain |-> d.chain, tasks |-> d.tasks]
    BY RowsTyped
  <1>5. [request |-> F, item |-> d.item, chain |-> d.chain, tasks |-> d.tasks] \in Rows
    BY <1>2, RowsTyped, RowsBuilt
  <1> QED
    BY <1>1, <1>3, <1>4, <1>5

LEMMA SettledFollows ==
    ASSUME NEW d \in Rows, ~AllEnded(d) => d.request = "Open"
    PROVE  Follows(Catalog!Settle(d))
  <1>1. PICK e : e = Catalog!Settle(d)
    OBVIOUS
  <1>2. e.item = d.item /\ e.request = IF AllEnded(d) THEN Catalog!FinalState(Outcomes(d)) ELSE d.request
    BY <1>1, SettledRows
  <1>3. Outcomes(e) = Outcomes(d)
    BY <1>2 DEF Outcomes, Catalog!Added
  <1> QED
    BY <1>1, <1>2, <1>3 DEF Follows, AllEnded

\* What a page makes of the rows: e compared with d.  It adds to the tasks of an
\* item or leaves their number, and takes no item away.
Changes(d, e, is) ==
    /\ e \in Rows
    /\ \A i \in Items :
         /\ Len(e.tasks[i]) >= Len(d.tasks[i])
         /\ e.item[i] = d.item[i] \/ e.item[i] # "none"
         /\ i \notin is => e.item[i] = d.item[i] /\ e.chain[i] = d.chain[i] /\ Len(e.tasks[i]) = Len(d.tasks[i])

LEMMA SkippedTasks ==
    ASSUME NEW ts \in Seq(Task)
    PROVE  Catalog!SkipTasks(ts) \in Seq(Task) /\ Len(Catalog!SkipTasks(ts)) = Len(ts)
  <1>1. \A x \in Task : [x EXCEPT !.state = "Closed Skipped"] \in Task
    BY DEF Task, Catalog!Task, Catalog!TaskStates, Catalog!TaskClosed
  <1>2. \A k \in 1 .. Len(ts) : ts[k] \in Task
    OBVIOUS
  <1>3. PICK C : C = Catalog!TaskClosed
    OBVIOUS
  <1>4. Catalog!SkipTasks(ts) = [k \in 1 .. Len(ts) |->
           IF ts[k].state \in C THEN ts[k] ELSE [ts[k] EXCEPT !.state = "Closed Skipped"]]
    BY <1>3 DEF Catalog!SkipTasks
  <1>5. \A k \in 1 .. Len(ts) : (IF ts[k].state \in C THEN ts[k] ELSE [ts[k] EXCEPT !.state = "Closed Skipped"]) \in Task
    BY <1>1, <1>2
  <1>6. Len(ts) \in Nat
    OBVIOUS
  <1>7. PICK q : q = Catalog!SkipTasks(ts)
    OBVIOUS
  <1>8. q \in [1 .. Len(ts) -> Task]
    BY <1>4, <1>5, <1>7
  <1> QED
    BY <1>6, <1>7, <1>8

LEMMA WithdrawnRows ==
    ASSUME NEW d \in Rows, NEW is \in SUBSET Items, NEW e, e = Catalog!Withdraw(d, is)
    PROVE  /\ Changes(d, e, is)
           /\ \A i \in Items : /\ Len(e.tasks[i]) = Len(d.tasks[i])
                               /\ e.item[i] = IF i \in is /\ d.item[i] \notin Catalog!ItemTerminal
                                              THEN "Cancelled" ELSE d.item[i]
                               /\ e.chain[i] = IF i \in is /\ d.item[i] \notin Catalog!ItemTerminal
                                                  /\ d.chain[i] = "Running"
                                               THEN "Cancelled" ELSE d.chain[i]
           /\ d.request = "Open" => Follows(e)
  <1>1. PICK open : open = {i \in is : d.item[i] \notin Catalog!ItemTerminal}
    OBVIOUS
  <1>2. PICK ch : ch = [i \in Items |-> IF i \in open /\ d.chain[i] = "Running" THEN "Cancelled" ELSE d.chain[i]]
    OBVIOUS
  <1>3. PICK ts : ts = [i \in Items |-> IF i \in open THEN Catalog!SkipTasks(d.tasks[i]) ELSE d.tasks[i]]
    OBVIOUS
  <1>4. PICK it : it = [i \in Items |-> IF i \in open THEN "Cancelled" ELSE d.item[i]]
    OBVIOUS
  <1>5. PICK f : f = [request |-> d.request, item |-> it, chain |-> ch, tasks |-> ts]
    OBVIOUS
  <1>6. e = Catalog!Settle(f)
    <2>1. PICK g : g = [d EXCEPT
             !.chain = [i \in Items |-> IF i \in open /\ @[i] = "Running" THEN "Cancelled" ELSE @[i]],
             !.tasks = [i \in Items |-> IF i \in open THEN Catalog!SkipTasks(@[i]) ELSE @[i]],
             !.item = [i \in Items |-> IF i \in open THEN "Cancelled" ELSE @[i]]]
      OBVIOUS
    <2>2. e = Catalog!Settle(g)
      BY <1>1, <2>1 DEF Catalog!Withdraw
    <2>3. g = [d EXCEPT !.chain = ch, !.tasks = ts, !.item = it]
      BY <1>2, <1>3, <1>4, <2>1
    <2>4. [d EXCEPT !.chain = ch, !.tasks = ts, !.item = it] = f
      BY <1>5, RowsRewritten
    <2> QED
      BY <2>2, <2>3, <2>4
  <1>7. ch \in [Items -> Catalog!ChainStates] /\ it \in [Items -> Catalog!ItemStates]
    BY <1>2, <1>4, RowsTyped, StateNames
  <1>8. ts \in [Items -> Seq(Task)] /\ \A i \in Items : Len(ts[i]) = Len(d.tasks[i])
    BY <1>3, RowsTyped, SkippedTasks
  <1>9. f \in Rows
    BY <1>5, <1>7, <1>8, RowsTyped, RowsBuilt
  <1>10. e \in Rows /\ e.item = it /\ e.chain = ch /\ e.tasks = ts
    BY <1>5, <1>6, <1>9, SettledRows
  <1>11. \A i \in Items : /\ Len(e.tasks[i]) = Len(d.tasks[i])
                          /\ e.item[i] = IF i \in is /\ d.item[i] \notin Catalog!ItemTerminal
                                         THEN "Cancelled" ELSE d.item[i]
                          /\ e.chain[i] = IF i \in is /\ d.item[i] \notin Catalog!ItemTerminal
                                             /\ d.chain[i] = "Running"
                                          THEN "Cancelled" ELSE d.chain[i]
    BY <1>1, <1>2, <1>4, <1>8, <1>10
  <1>12. d.request = "Open" => Follows(e)
    BY <1>5, <1>6, <1>9, SettledFollows
  <1>13. Changes(d, e, is)
    BY <1>10, <1>11, RowsTyped DEF Changes
  <1> QED
    BY <1>11, <1>12, <1>13
LEMMA EndedAre ==
    ASSUME NEW d
    PROVE  AllEnded(d) <=> \A j \in Items : d.item[j] = "none" \/ d.item[j] \in Catalog!ItemTerminal
  BY DEF AllEnded, Outcomes, Catalog!Added

\* One item gets the state c, in which nothing is left to do, and the REQ is settled.
LEMMA EndedRows ==
    ASSUME NEW d \in Rows, NEW i \in Items, NEW c \in Catalog!ItemTerminal, NEW f \in Rows, NEW e,
           f.request = d.request, f.item[i] = c, \A j \in Items \ {i} : f.item[j] = d.item[j],
           e = Catalog!Settle(f)
    PROVE  /\ e \in Rows /\ e.item = f.item /\ e.chain = f.chain /\ e.tasks = f.tasks
           /\ Follows(d) => Follows(e)
  <1>1. e \in Rows /\ e.item = f.item /\ e.chain = f.chain /\ e.tasks = f.tasks
    BY SettledRows
  <1>2. AllEnded(d) => AllEnded(f)
    BY EndedAre
  <1>3. Follows(d) /\ ~AllEnded(f) => f.request = "Open"
    BY <1>2 DEF Follows
  <1>4. Follows(d) => Follows(e)
    BY <1>3, SettledFollows
  <1> QED
    BY <1>1, <1>4

LEMMA OneState ==
    ASSUME NEW st \in Catalog!TaskStates
    PROVE  \A ts \in Seq(Task) : \A k : LET q == [ts EXCEPT ![k].state = st]
                                        IN q \in Seq(Task) /\ Len(q) = Len(ts)
  <1>1. \A x \in Task : [x EXCEPT !.state = st] \in Task
    BY DEF Task, Catalog!Task
  <1> SUFFICES ASSUME NEW ts \in Seq(Task), NEW k, NEW q, q = [ts EXCEPT ![k].state = st]
               PROVE  q \in Seq(Task) /\ Len(q) = Len(ts)
    OBVIOUS
  <1>2. Len(ts) \in Nat /\ ts \in [1 .. Len(ts) -> Task]
    OBVIOUS
  <1>3. q \in [1 .. Len(ts) -> Task]
    BY <1>1, <1>2
  <1> QED
    BY <1>2, <1>3

\* A task of an item, and with its last one the item, is worked on.
LEMMA UpdatedRows ==
    ASSUME NEW d \in Rows, NEW i \in Items, NEW k, NEW st \in Catalog!TaskStates,
           NEW e, e = Catalog!Update(d, i, k, st)
    PROVE  /\ e \in Rows /\ e.chain = d.chain
           /\ \A j \in Items : Len(e.tasks[j]) = Len(d.tasks[j])
           /\ \A j \in Items \ {i} : e.item[j] = d.item[j]
           /\ e.item[i] \in {d.item[i]} \union Fulfilled
           /\ Follows(d) => Follows(e)
  <1>1. PICK q : q = [d.tasks[i] EXCEPT ![k].state = st]
    OBVIOUS
  <1>2. PICK ts : ts = [d.tasks EXCEPT ![i] = q]
    OBVIOUS
  <1>3. PICK d1 : d1 = [d EXCEPT !.tasks[i][k].state = st]
    OBVIOUS
  <1>4. q \in Seq(Task) /\ Len(q) = Len(d.tasks[i])
    <2>1. PICK u : u = d.tasks[i]
      OBVIOUS
    <2>2. u \in Seq(Task)
      BY <2>1, RowsTyped
    <2>3. q = [u EXCEPT ![k].state = st]
      BY <1>1, <2>1
    <2>4. \A v \in Seq(Task) : \A m : LET w == [v EXCEPT ![m].state = st]
                                       IN w \in Seq(Task) /\ Len(w) = Len(v)
      BY OneState
    <2>5. LET w == [u EXCEPT ![k].state = st] IN w \in Seq(Task) /\ Len(w) = Len(u)
      BY <2>2, <2>4, Zenon
    <2> QED
      BY <2>1, <2>3, <2>5
  <1>5. ts \in [Items -> Seq(Task)] /\ \A j \in Items : Len(ts[j]) = Len(d.tasks[j])
    BY <1>2, <1>4, RowsTyped
  <1>6. d1 = [request |-> d.request, item |-> d.item, chain |-> d.chain, tasks |-> ts]
    <2>1. d1 = [d EXCEPT !.tasks = ts]
      BY <1>1, <1>2, <1>3
    <2>2. d = [request |-> d.request, item |-> d.item, chain |-> d.chain, tasks |-> d.tasks]
      BY RowsTyped
    <2> QED
      BY <2>1, <2>2
  <1>7. d1 \in Rows
    BY <1>5, <1>6, RowsTyped, RowsBuilt
  <1>8. \/ e = d1
        \/ \E c \in Fulfilled : e = Catalog!Settle([d1 EXCEPT !.item[i] = c])
    BY <1>3 DEF Catalog!Update, Fulfilled
  <1>9. CASE e = d1
    <2>1. e.item = d.item /\ e.request = d.request /\ e.chain = d.chain /\ e.tasks = ts
      BY <1>6, <1>9
    <2>2. Follows(d) => Follows(e)
      BY <2>1 DEF Follows, AllEnded, Outcomes, Catalog!Added
    <2> QED
      BY <1>5, <1>7, <1>9, <2>1, <2>2
  <1>10. ASSUME NEW c \in Fulfilled, e = Catalog!Settle([d1 EXCEPT !.item[i] = c])
         PROVE  /\ e \in Rows /\ e.chain = d.chain
                /\ \A j \in Items : Len(e.tasks[j]) = Len(d.tasks[j])
                /\ \A j \in Items \ {i} : e.item[j] = d.item[j]
                /\ e.item[i] \in {d.item[i]} \union Fulfilled
                /\ Follows(d) => Follows(e)
    <2>1. PICK it : it = [d.item EXCEPT ![i] = c]
      OBVIOUS
    <2>2. PICK f : f = [request |-> d.request, item |-> it, chain |-> d.chain, tasks |-> ts]
      OBVIOUS
    <2>3. c \in Catalog!ItemTerminal /\ c \in Catalog!ItemStates
      BY StateNames DEF Fulfilled
    <2>4. it \in [Items -> Catalog!ItemStates] /\ it[i] = c /\ \A j \in Items \ {i} : it[j] = d.item[j]
      BY <2>1, <2>3, RowsTyped
    <2>5. f \in Rows
      BY <1>5, <2>2, <2>4, RowsTyped, RowsBuilt
    <2>6. [d1 EXCEPT !.item[i] = c] = f
      BY <1>6, <2>1, <2>2
    <2>7. /\ e \in Rows /\ e.item = f.item /\ e.chain = f.chain /\ e.tasks = f.tasks
          /\ Follows(d) => Follows(e)
      BY <1>10, <2>2, <2>3, <2>4, <2>5, <2>6, EndedRows
    <2> QED
      BY <1>5, <2>2, <2>4, <2>7
  <1> QED
    BY <1>8, <1>9, <1>10

LEMMA OneMoreTask ==
    ASSUME NEW ts \in Seq(Task)
    PROVE  /\ Catalog!FirstTask(ts) \in Seq(Task) /\ Len(Catalog!FirstTask(ts)) >= Len(ts)
           /\ \A after \in Nat : /\ Append(ts, Catalog!NewTask(after)) \in Seq(Task)
                                 /\ Len(Append(ts, Catalog!NewTask(after))) = Len(ts) + 1
  <1>1. \A after \in Nat : Catalog!NewTask(after) \in Task
    BY DEF Catalog!NewTask, Task, Catalog!Task, Catalog!TaskStates
  <1>2. PICK x : x = Catalog!NewTask(0)
    OBVIOUS
  <1>3. x \in Task
    BY <1>1, <1>2
  <1>4. Catalog!FirstTask(ts) = IF ts = <<>> THEN <<x>> ELSE ts
    BY <1>2 DEF Catalog!FirstTask
  <1>5. <<x>> \in Seq(Task) /\ Len(<<x>>) = 1
    BY <1>3
  <1>6. Catalog!FirstTask(ts) \in Seq(Task) /\ Len(Catalog!FirstTask(ts)) >= Len(ts)
    BY <1>4, <1>5
  <1>7. ASSUME NEW after \in Nat
        PROVE  /\ Append(ts, Catalog!NewTask(after)) \in Seq(Task)
               /\ Len(Append(ts, Catalog!NewTask(after))) = Len(ts) + 1
    <2>1. PICK y : y = Catalog!NewTask(after)
      OBVIOUS
    <2>2. y \in Task
      BY <1>1, <2>1
    <2>3. Append(ts, y) \in Seq(Task) /\ Len(Append(ts, y)) = Len(ts) + 1
      BY <2>2
    <2> QED
      BY <2>1, <2>3
  <1> QED
    BY <1>6, <1>7

\* f is the rows of d with one item, its chain and its tasks rewritten.
Rewrites(d, f, i, c, h, ts) ==
    /\ [d EXCEPT !.chain[i] = h, !.item[i] = c, !.tasks[i] = ts] = f
    /\ ts = d.tasks[i] => /\ [d EXCEPT !.chain[i] = h, !.item[i] = c] = f
                          /\ [d EXCEPT !.item[i] = c, !.chain[i] = h] = f
    /\ h = d.chain[i] => [d EXCEPT !.item[i] = c, !.tasks[i] = ts] = f
    /\ h = d.chain[i] /\ c = d.item[i] => [d EXCEPT !.tasks[i] = ts] = f

RewrittenIn(d, f, i, c, h, ts) ==
    /\ f.request = d.request /\ f.item[i] = c /\ f.chain[i] = h /\ f.tasks[i] = ts
    /\ \A j \in Items \ {i} :
         f.item[j] = d.item[j] /\ f.chain[j] = d.chain[j] /\ f.tasks[j] = d.tasks[j]

LEMMA OneItemRows ==
    ASSUME NEW d \in Rows, NEW i \in Items, NEW c \in Catalog!ItemStates, NEW h \in Catalog!ChainStates,
           NEW ts \in Seq(Task)
    PROVE  \E f \in Rows : Rewrites(d, f, i, c, h, ts) /\ RewrittenIn(d, f, i, c, h, ts)
  <1>1. PICK a, b, e, g : /\ d = [request |-> a, item |-> b, chain |-> e, tasks |-> g]
                          /\ d.request = a /\ d.item = b /\ d.chain = e /\ d.tasks = g
    BY RowsTyped
  <1>2. PICK it : it = [b EXCEPT ![i] = c]
    OBVIOUS
  <1>3. PICK ch : ch = [e EXCEPT ![i] = h]
    OBVIOUS
  <1>4. PICK tt : tt = [g EXCEPT ![i] = ts]
    OBVIOUS
  <1>5. PICK f : f = [request |-> a, item |-> it, chain |-> ch, tasks |-> tt]
    OBVIOUS
  <1>6. a \in {"Open"} \union Catalog!RequestFinal /\ b \in [Items -> Catalog!ItemStates]
        /\ e \in [Items -> Catalog!ChainStates] /\ g \in [Items -> Seq(Task)]
    BY <1>1, RowsTyped
  <1>7. it \in [Items -> Catalog!ItemStates] /\ ch \in [Items -> Catalog!ChainStates]
        /\ tt \in [Items -> Seq(Task)]
    BY <1>2, <1>3, <1>4, <1>6
  <1>8. f \in Rows
    BY <1>5, <1>6, <1>7, RowsBuilt
  <1>9. [d EXCEPT !.chain[i] = h, !.item[i] = c, !.tasks[i] = ts] = f
    <2>1. PICK x : x = [d EXCEPT !.chain[i] = h]
      OBVIOUS
    <2>2. PICK y : y = [x EXCEPT !.item[i] = c]
      OBVIOUS
    <2>3. PICK z : z = [y EXCEPT !.tasks[i] = ts]
      OBVIOUS
    <2>4. x = [request |-> a, item |-> b, chain |-> ch, tasks |-> g]
      BY <1>1, <1>3, <2>1
    <2>5. y = [request |-> a, item |-> it, chain |-> ch, tasks |-> g]
      BY <1>2, <2>2, <2>4
    <2>6. z = f
      BY <1>4, <1>5, <2>3, <2>5
    <2> QED
      BY <2>1, <2>2, <2>3, <2>6, Zenon
  <1>10. ASSUME ts = d.tasks[i]
         PROVE  [d EXCEPT !.chain[i] = h, !.item[i] = c] = f /\ [d EXCEPT !.item[i] = c, !.chain[i] = h] = f
    <2>1. tt = g
      BY <1>1, <1>4, <1>6, <1>10
    <2>2. PICK x : x = [d EXCEPT !.chain[i] = h]
      OBVIOUS
    <2>3. PICK y : y = [d EXCEPT !.item[i] = c]
      OBVIOUS
    <2>4. x = [request |-> a, item |-> b, chain |-> ch, tasks |-> g]
      BY <1>1, <1>3, <2>2
    <2>5. y = [request |-> a, item |-> it, chain |-> e, tasks |-> g]
      BY <1>1, <1>2, <2>3
    <2>6. [x EXCEPT !.item[i] = c] = f
      BY <1>2, <1>5, <2>1, <2>4
    <2>7. [y EXCEPT !.chain[i] = h] = f
      BY <1>3, <1>5, <2>1, <2>5
    <2> QED
      BY <2>2, <2>3, <2>6, <2>7, Zenon
  <1>11. ASSUME h = d.chain[i]
         PROVE  /\ [d EXCEPT !.item[i] = c, !.tasks[i] = ts] = f
                /\ c = d.item[i] => [d EXCEPT !.tasks[i] = ts] = f
    <2>1. ch = e
      BY <1>1, <1>3, <1>6, <1>11
    <2>2. PICK y : y = [d EXCEPT !.item[i] = c]
      OBVIOUS
    <2>3. y = [request |-> a, item |-> it, chain |-> e, tasks |-> g]
      BY <1>1, <1>2, <2>2
    <2>4. [y EXCEPT !.tasks[i] = ts] = f
      BY <1>4, <1>5, <2>1, <2>3
    <2>5. ASSUME c = d.item[i] PROVE [d EXCEPT !.tasks[i] = ts] = f
      <3>1. it = b
        BY <1>1, <1>2, <1>6, <2>5
      <3> QED
        BY <1>1, <1>4, <1>5, <2>1, <3>1
    <2> QED
      BY <2>2, <2>4, <2>5, Zenon
  <1>12. it[i] = c /\ ch[i] = h /\ tt[i] = ts
         /\ \A j \in Items \ {i} : it[j] = b[j] /\ ch[j] = e[j] /\ tt[j] = g[j]
    BY <1>2, <1>3, <1>4, <1>6
  <1> QED
    <2>1. Rewrites(d, f, i, c, h, ts)
      BY <1>9, <1>10, <1>11, Zenon DEF Rewrites
    <2>2. RewrittenIn(d, f, i, c, h, ts)
      BY <1>1, <1>5, <1>12 DEF RewrittenIn
    <2> QED
      BY <1>8, <2>1, <2>2

-----------------------------------------------------------------------------
(* Catalog requests: nothing is fulfilled without its approval             *)

PageKinds == Catalog!AllKinds

\* Names of the code that hold a blank.
Awaits == "Awaiting Approval"
Order == "add item"
Assign == "add task"

LEMMA KindsDiffer ==
    /\ PageKinds = {"withdraw", "update", "decide", Order, Assign} /\ Order # Assign
    /\ Order \notin {"withdraw", "update", "decide", "idle"} /\ Assign \notin {"withdraw", "update", "decide", "idle"}
  BY DEF PageKinds, Order, Assign, Catalog!AllKinds

LEMMA AwaitsIsOpen ==
    Awaits \in Catalog!ItemStates /\ Awaits \notin Catalog!ItemTerminal /\ Awaits # "none" /\ Awaits # "Open"
  BY StateNames DEF Awaits

\* What a page of a request rests on in the committed rows, from its Load to
\* its end: nobody else takes it away, but for the approval of an item in X.
PageOK(p, d, X) ==
    /\ p.kind \in PageKinds /\ p.items \in SUBSET Items
    /\ p.kind = "withdraw" => p.items \subseteq Catalog!Added(d)
    /\ p.kind # "withdraw" => \E i \in Items :
         /\ p.items = {i}
         /\ p.kind \in {"update", Assign} => i \in Catalog!Added(d) /\ (d.chain[i] \in Authorizing \/ i \in X)
         /\ p.kind = "decide" => d.chain[i] = "Running" /\ p.to \in {"Approved", "Rejected"}
         /\ p.kind = Order => i \notin Catalog!Added(d)
         /\ p.kind = "update" => p.task \in Nat /\ p.to \in Catalog!TaskStates

LEMMA PageMore ==
    ASSUME NEW p, NEW d, NEW X, NEW Y, X \subseteq Y, PageOK(p, d, X)
    PROVE  PageOK(p, d, Y)
  <1>1. CASE p.kind = "withdraw"
    BY <1>1 DEF PageOK
  <1>2. CASE p.kind # "withdraw"
    BY <1>2 DEF PageOK
  <1> QED
    BY <1>1, <1>2

\* What it writes: n, computed from o.
Wrote(p, o, n) ==
    /\ Changes(o, n, p.items)
    /\ \A i \in p.items :
         /\ p.kind = "withdraw" =>
              /\ Len(n.tasks[i]) = Len(o.tasks[i]) /\ n.item[i] \in {o.item[i], "Cancelled"}
              /\ n.chain[i] # o.chain[i] => o.chain[i] = "Running" /\ n.chain[i] = "Cancelled"
         /\ p.kind \in {"update", Assign} => n.chain[i] = o.chain[i]
         /\ p.kind = "decide" =>
              /\ o.chain[i] = "Running"
              /\ n.chain[i] = "Approved"
                 \/ /\ n.chain[i] = "Rejected" /\ n.item[i] = "Rejected"
                    /\ Len(n.tasks[i]) = Len(o.tasks[i])
         /\ p.kind = Order =>
              /\ o.item[i] = "none" /\ n.item[i] \in {Awaits, "Open"}
              /\ n.chain[i] = o.chain[i]
                 \/ (n.chain[i] = "Running" /\ Len(n.tasks[i]) = Len(o.tasks[i]))

\* The chains a session has locked.
HoldsChain(s, i) ==
    \/ phase[s] = "flushed" /\ old[s].chain[i] # new[s].chain[i]
    \/ phase[s] # "idle" /\ page[s].kind = "decide" /\ i \in page[s].items

Unborn(d) == \A i \in Items \ Catalog!Added(d) : d.chain[i] = "none" /\ Len(d.tasks[i]) = 0

Authorized(d, X) ==
    \A i \in Items : Len(d.tasks[i]) > 0 \/ d.item[i] \in Fulfilled => d.chain[i] \in Authorizing \/ i \in X

\* Reading the chains too early, a withdrawal still knows that there is one.
LoadedOK(s) ==
    /\ seen[s] \in Rows
    /\ phase[s] = "checked" =>
         page[s].kind = "withdraw" /\ \A i \in page[s].items : seen[s].chain[i] = "Running" => db.chain[i] # "none"
    /\ page[s].kind = "withdraw" => \A i \in page[s].items : seen[s].item[i] # "none"
    /\ page[s].kind = "update" => \A i \in page[s].items : page[s].task \in 1 .. Len(seen[s].tasks[i])

FlushedOK(s) ==
    /\ old[s] \in Rows
    /\ Wrote(page[s], old[s], new[s])
    /\ \A i \in Items : old[s].chain[i] # new[s].chain[i] =>
         db.chain[i] = old[s].chain[i] \/ (page[s].kind = "withdraw" /\ db.chain[i] # "none")

Reading(s) == phase[s] \in {"loaded", "checked"}

PagesTyped ==
    /\ phase \in [Sessions -> {"idle", "loaded", "checked", "flushed"}]
    /\ DOMAIN page = Sessions /\ DOMAIN seen = Sessions /\ DOMAIN old = Sessions /\ DOMAIN new = Sessions

PagesOK ==
    /\ \A s \in Sessions : phase[s] # "idle" => PageOK(page[s], db, overruled)
    /\ \A s \in Sessions : Reading(s) => LoadedOK(s)
    /\ \A s \in Sessions : phase[s] = "flushed" => FlushedOK(s)

PagesApart ==
    \A s, t \in Sessions : s # t /\ phase[s] # "idle" /\ phase[t] # "idle" =>
        /\ \A i \in Items : HoldsChain(s, i) => ~HoldsChain(t, i)
        /\ page[s].kind = Order /\ page[t].kind = Order => page[s].items # page[t].items

FulfilmentInv ==
    /\ db \in Rows /\ Unborn(db) /\ Authorized(db, overruled)
    /\ PagesTyped /\ PagesOK /\ PagesApart

\* Once no page is beside another.
RunningAwaits(d) == \A i \in Items : d.chain[i] = "Running" => d.item[i] = Awaits
Consistent(d) == Follows(d) /\ RunningAwaits(d)

FollowsInv ==
    ~overlapped =>
        /\ ~Overlap(phase) /\ Consistent(db)
        /\ \A s \in Sessions : Reading(s) => page[s] \in Catalog!Requests(db) /\ seen[s] = db
        /\ \A s \in Sessions : phase[s] = "flushed" =>
             /\ old[s].request = db.request /\ old[s].item = db.item /\ old[s].chain = db.chain
             /\ Consistent(new[s])

\* Rows that differ in one item are consistent if they were, when the item is
\* still open and so was the REQ.
LEMMA OpenStays ==
    ASSUME NEW d \in Rows, NEW n \in Rows, NEW i \in Items,
           n.request = d.request, \A j \in Items \ {i} : n.item[j] = d.item[j] /\ n.chain[j] = d.chain[j],
           n.item[i] \notin Catalog!ItemTerminal, n.item[i] # "none", d.request = "Open",
           n.chain[i] = "Running" => n.item[i] = Awaits, RunningAwaits(d)
    PROVE  Consistent(n)
  <1>1. ~AllEnded(n)
    BY EndedAre
  <1>2. Follows(n)
    BY <1>1 DEF Follows
  <1> QED
    BY <1>2 DEF Consistent, RunningAwaits

LEMMA Withdrawing ==
    ASSUME NEW p, NEW d \in Rows, p.kind = "withdraw", p.items \in SUBSET Items,
           p.items \subseteq Catalog!Added(d), NEW n, n = Catalog!Withdraw(d, p.items)
    PROVE  Wrote(p, d, n) /\ (Consistent(d) /\ d.request = "Open" => Consistent(n))
  <1>1. PICK is \in SUBSET Items : is = p.items
    OBVIOUS
  <1>2. n = Catalog!Withdraw(d, is)
    BY <1>1
  <1>3. /\ Changes(d, n, is)
        /\ \A i \in Items : /\ Len(n.tasks[i]) = Len(d.tasks[i])
                            /\ n.item[i] = IF i \in is /\ d.item[i] \notin Catalog!ItemTerminal
                                           THEN "Cancelled" ELSE d.item[i]
                            /\ n.chain[i] = IF i \in is /\ d.item[i] \notin Catalog!ItemTerminal
                                               /\ d.chain[i] = "Running"
                                            THEN "Cancelled" ELSE d.chain[i]
        /\ d.request = "Open" => Follows(n)
    BY <1>2, WithdrawnRows
  <1>4. Wrote(p, d, n)
    BY <1>1, <1>3, KindsDiffer DEF Wrote
  <1>5. RunningAwaits(d) => RunningAwaits(n)
    BY <1>3, AwaitsIsOpen DEF RunningAwaits
  <1> QED
    BY <1>3, <1>4, <1>5 DEF Consistent

LEMMA Updating ==
    ASSUME NEW p, NEW d \in Rows, p.kind = "update", NEW i \in Items, p.items = {i},
           i \in Catalog!Added(d), p.to \in Catalog!TaskStates,
           NEW n, n = Catalog!Update(d, i, p.task, p.to)
    PROVE  Wrote(p, d, n) /\ (d.chain[i] \in Authorizing /\ Consistent(d) => Consistent(n))
  <1>1. PICK st \in Catalog!TaskStates : st = p.to
    OBVIOUS
  <1>2. PICK k : k = p.task
    OBVIOUS
  <1>3. n = Catalog!Update(d, i, k, st)
    BY <1>1, <1>2
  <1>4. /\ n \in Rows /\ n.chain = d.chain
        /\ \A j \in Items : Len(n.tasks[j]) = Len(d.tasks[j])
        /\ \A j \in Items \ {i} : n.item[j] = d.item[j]
        /\ n.item[i] \in {d.item[i]} \union Fulfilled
        /\ Follows(d) => Follows(n)
    BY <1>3, UpdatedRows
  <1>5. "none" \notin Fulfilled /\ \A j \in Items : Len(d.tasks[j]) \in Nat
    BY RowsTyped DEF Fulfilled
  <1>6. Wrote(p, d, n)
    BY <1>4, <1>5, KindsDiffer DEF Wrote, Changes
  <1>7. d.chain[i] \in Authorizing /\ RunningAwaits(d) => RunningAwaits(n)
    BY <1>4 DEF RunningAwaits, Authorizing
  <1> QED
    BY <1>4, <1>6, <1>7 DEF Consistent

LEMMA RewrittenChanges ==
    ASSUME NEW d \in Rows, NEW f \in Rows, NEW i \in Items, NEW c, NEW h, NEW ts \in Seq(Task),
           RewrittenIn(d, f, i, c, h, ts), Len(ts) >= Len(d.tasks[i]), c # "none"
    PROVE  /\ Changes(d, f, {i}) /\ f.item[i] = c /\ f.chain[i] = h /\ Len(f.tasks[i]) = Len(ts)
           /\ RunningAwaits(d) /\ d.request = "Open" /\ c \notin Catalog!ItemTerminal
              /\ (h = "Running" => c = Awaits) => Consistent(f)
  <1>1. /\ f.request = d.request /\ f.item[i] = c /\ f.chain[i] = h /\ f.tasks[i] = ts
        /\ \A j \in Items \ {i} :
             f.item[j] = d.item[j] /\ f.chain[j] = d.chain[j] /\ f.tasks[j] = d.tasks[j]
    BY DEF RewrittenIn
  <1>2. \A j \in Items : Len(f.tasks[j]) >= Len(d.tasks[j]) /\ (j # i => Len(f.tasks[j]) = Len(d.tasks[j]))
    BY <1>1, RowsTyped
  <1>3. Changes(d, f, {i})
    BY <1>1, <1>2 DEF Changes
  <1>4. ASSUME RunningAwaits(d), d.request = "Open", c \notin Catalog!ItemTerminal,
               h = "Running" => c = Awaits
        PROVE  Consistent(f)
    BY <1>1, <1>4, OpenStays DEF Consistent
  <1> QED
    BY <1>1, <1>3, <1>4

\* create_catalog_task adds at most one task.
LEMMA FirstTaskOf ==
    ASSUME NEW d \in Rows, NEW i \in Items
    PROVE  \E ts \in Seq(Task) : ts = Catalog!FirstTask(d.tasks[i]) /\ Len(ts) >= Len(d.tasks[i])
  <1>1. PICK u \in Seq(Task) : u = d.tasks[i]
    BY RowsTyped
  <1>2. Catalog!FirstTask(u) \in Seq(Task) /\ Len(Catalog!FirstTask(u)) >= Len(u)
    BY OneMoreTask
  <1> QED
    BY <1>1, <1>2

LEMMA Deciding ==
    ASSUME NEW p, NEW d \in Rows, p.kind = "decide", NEW i \in Items, p.items = {i},
           d.chain[i] = "Running", p.to \in {"Approved", "Rejected"},
           NEW n, n = Catalog!Decide(d, i, p.to)
    PROVE  Wrote(p, d, n) /\ (Consistent(d) => Consistent(n))
  <1>1. Consistent(d) => d.request = "Open"
    <2>1. ASSUME Consistent(d) PROVE d.item[i] = Awaits
      BY <2>1 DEF Consistent, RunningAwaits
    <2>2. ASSUME Consistent(d) PROVE ~AllEnded(d)
      BY <2>1, <2>2, EndedAre, AwaitsIsOpen
    <2> QED
      BY <2>2 DEF Consistent, Follows
  <1>2. CASE p.to = "Rejected"
    <2>1. PICK ts \in Seq(Task) : ts = d.tasks[i]
      BY RowsTyped
    <2>2. "Rejected" \in Catalog!ItemStates /\ "Rejected" \in Catalog!ChainStates /\ "Rejected" \in Catalog!ItemTerminal
      BY StateNames
    <2>3. PICK f \in Rows : /\ Rewrites(d, f, i, "Rejected", "Rejected", ts)
                            /\ RewrittenIn(d, f, i, "Rejected", "Rejected", ts)
      BY <2>2, OneItemRows
    <2>4. [d EXCEPT !.chain[i] = "Rejected", !.item[i] = "Rejected"] = f
      BY <2>1, <2>3, Zenon DEF Rewrites
    <2>5. n = Catalog!Settle(f)
      <3>1. n = Catalog!Settle([d EXCEPT !.chain[i] = "Rejected", !.item[i] = "Rejected"])
        BY <1>2, Zenon DEF Catalog!Decide
      <3> QED
        BY <2>4, <3>1
    <2>6. /\ f.request = d.request /\ f.item[i] = "Rejected" /\ f.chain[i] = "Rejected" /\ f.tasks[i] = ts
          /\ \A j \in Items \ {i} :
               f.item[j] = d.item[j] /\ f.chain[j] = d.chain[j] /\ f.tasks[j] = d.tasks[j]
      BY <2>3 DEF RewrittenIn
    <2>7. n.item = f.item /\ n.chain = f.chain /\ n.tasks = f.tasks /\ n \in Rows /\ (Follows(d) => Follows(n))
      <3>1. PICK c \in Catalog!ItemTerminal : c = "Rejected"
        BY <2>2
      <3>2. f.item[i] = c /\ \A j \in Items \ {i} : f.item[j] = d.item[j]
        BY <2>6, <3>1
      <3>3. f.request = d.request
        BY <2>6
      <3> QED
        BY <2>5, <3>2, <3>3, EndedRows
    <2>8. \A j \in Items : Len(n.tasks[j]) = Len(d.tasks[j]) /\ Len(d.tasks[j]) \in Nat
      BY <2>1, <2>6, <2>7, RowsTyped
    <2>9. Wrote(p, d, n)
      BY <2>6, <2>7, <2>8, KindsDiffer DEF Wrote, Changes
    <2>10. RunningAwaits(d) => RunningAwaits(n)
      <3>1. n.chain[i] = "Rejected" /\ \A j \in Items \ {i} : n.item[j] = d.item[j] /\ n.chain[j] = d.chain[j]
        BY <2>6, <2>7
      <3> QED
        BY <3>1 DEF RunningAwaits
    <2> QED
      BY <2>7, <2>9, <2>10 DEF Consistent
  <1>3. CASE p.to = "Approved"
    <2>1. PICK ts \in Seq(Task) : ts = Catalog!FirstTask(d.tasks[i]) /\ Len(ts) >= Len(d.tasks[i])
      BY FirstTaskOf
    <2>2. "Approved" \in Catalog!ItemStates /\ "Approved" \in Catalog!ChainStates /\ "Approved" \notin Catalog!ItemTerminal
      BY StateNames
    <2>3. PICK f \in Rows : /\ Rewrites(d, f, i, "Approved", "Approved", ts)
                            /\ RewrittenIn(d, f, i, "Approved", "Approved", ts)
      BY <2>2, OneItemRows
    <2>4. [d EXCEPT !.chain[i] = "Approved", !.item[i] = "Approved", !.tasks[i] = ts] = f
      BY <2>3, Zenon DEF Rewrites
    <2>5. n = f
      BY <1>3, <2>1, <2>4 DEF Catalog!Decide
    <2>6. PICK c, h : c = "Approved" /\ h = "Approved"
      OBVIOUS
    <2>7. RewrittenIn(d, f, i, c, h, ts) /\ c # "none" /\ c \notin Catalog!ItemTerminal /\ h # "Running"
      BY <2>2, <2>3, <2>6
    <2>8. /\ Changes(d, f, {i}) /\ f.item[i] = c /\ f.chain[i] = h /\ Len(f.tasks[i]) = Len(ts)
          /\ RunningAwaits(d) /\ d.request = "Open" /\ c \notin Catalog!ItemTerminal
             /\ (h = "Running" => c = Awaits) => Consistent(f)
      <3>1. RewrittenIn(d, f, i, c, h, ts)
        BY <2>7
      <3>2. c # "none"
        BY <2>7
      <3>3. Len(ts) >= Len(d.tasks[i])
        BY <2>1
      <3> QED
        BY <3>1, <3>2, <3>3, RewrittenChanges, Zenon
    <2>9. Wrote(p, d, n)
      BY <2>5, <2>6, <2>8, KindsDiffer DEF Wrote
    <2> QED
      BY <1>1, <2>5, <2>7, <2>8, <2>9 DEF Consistent
  <1> QED
    BY <1>2, <1>3

LEMMA Ordering ==
    ASSUME NEW p, NEW d \in Rows, p.kind = Order, NEW i \in Items, p.items = {i},
           i \notin Catalog!Added(d), NEW n, n = Catalog!AddItem(d, i)
    PROVE  /\ Wrote(p, d, n)
           /\ RunningAwaits(d) /\ d.request = "Open" /\ d.chain[i] = "none" => Consistent(n)
  <1>1. d.item[i] = "none"
    BY DEF Catalog!Added
  <1>2. ASSUME NEW f \in Rows, NEW c \in {Awaits, "Open"}, NEW h \in Catalog!ChainStates,
               NEW ts \in Seq(Task), RewrittenIn(d, f, i, c, h, ts), n = f, Len(ts) >= Len(d.tasks[i]),
               h = d.chain[i] \/ (h = "Running" /\ c = Awaits /\ ts = d.tasks[i])
        PROVE  /\ Wrote(p, d, n)
               /\ RunningAwaits(d) /\ d.request = "Open" /\ d.chain[i] = "none" => Consistent(n)
    <2>1. c # "none" /\ c \notin Catalog!ItemTerminal
      BY StateNames, AwaitsIsOpen
    <2>2. /\ Changes(d, f, {i}) /\ f.item[i] = c /\ f.chain[i] = h /\ Len(f.tasks[i]) = Len(ts)
          /\ RunningAwaits(d) /\ d.request = "Open" /\ c \notin Catalog!ItemTerminal
             /\ (h = "Running" => c = Awaits) => Consistent(f)
      BY <1>2, <2>1, RewrittenChanges
    <2>3. Wrote(p, d, n)
      BY <1>1, <1>2, <2>2, KindsDiffer DEF Wrote
    <2> QED
      BY <1>2, <2>1, <2>2, <2>3
  <1>3. CASE i \in NeedsApproval
    <2>1. PICK ts \in Seq(Task) : ts = d.tasks[i] /\ Len(ts) >= Len(d.tasks[i])
      <3>1. d.tasks[i] \in Seq(Task) /\ Len(d.tasks[i]) \in Nat
        BY RowsTyped
      <3> QED
        BY <3>1
    <2>2. Awaits \in Catalog!ItemStates /\ "Running" \in Catalog!ChainStates
      BY StateNames, AwaitsIsOpen
    <2>3. PICK f \in Rows : /\ Rewrites(d, f, i, Awaits, "Running", ts)
                            /\ RewrittenIn(d, f, i, Awaits, "Running", ts)
      BY <2>2, OneItemRows
    <2>4. [d EXCEPT !.item[i] = Awaits, !.chain[i] = "Running"] = f
      BY <2>1, <2>3, Zenon DEF Rewrites
    <2>5. n = f
      <3>1. n = [d EXCEPT !.item[i] = Awaits, !.chain[i] = "Running"]
        BY <1>3, Zenon DEF Catalog!AddItem, Awaits
      <3> QED
        BY <2>4, <3>1
    <2> QED
      BY <1>2, <2>1, <2>2, <2>3, <2>5
  <1>4. CASE i \notin NeedsApproval
    <2>1. PICK ts \in Seq(Task) : ts = Catalog!FirstTask(d.tasks[i]) /\ Len(ts) >= Len(d.tasks[i])
      BY FirstTaskOf
    <2>2. PICK h \in Catalog!ChainStates : h = d.chain[i]
      BY RowsTyped
    <2>3. "Open" \in Catalog!ItemStates
      BY StateNames
    <2>4. PICK f \in Rows : Rewrites(d, f, i, "Open", h, ts) /\ RewrittenIn(d, f, i, "Open", h, ts)
      BY <2>3, OneItemRows
    <2>5. [d EXCEPT !.item[i] = "Open", !.tasks[i] = ts] = f
      BY <2>2, <2>4, Zenon DEF Rewrites
    <2>6. n = f
      BY <1>4, <2>1, <2>5 DEF Catalog!AddItem
    <2> QED
      BY <1>2, <2>1, <2>2, <2>4, <2>6
  <1> QED
    BY <1>3, <1>4

LEMMA Assigning ==
    ASSUME NEW p, NEW d \in Rows, p.kind = Assign, NEW i \in Items, p.items = {i},
           NEW n, n = Catalog!AddTask(d, i, p.to), i \in Catalog!Added(d)
    PROVE  Wrote(p, d, n) /\ (Consistent(d) => Consistent(n))
  <1>1. PICK u \in Seq(Task) : u = d.tasks[i]
    BY RowsTyped
  <1>2. PICK after \in Nat : after = IF p.to = "Sequential" THEN Len(u) ELSE 0
    <2>1. Len(u) \in Nat /\ 0 \in Nat
      OBVIOUS
    <2> QED
      BY <2>1
  <1>3. PICK ts \in Seq(Task) : ts = Append(u, Catalog!NewTask(after)) /\ Len(ts) >= Len(u)
    <2>1. PICK x : x = Append(u, Catalog!NewTask(after))
      OBVIOUS
    <2>2. x \in Seq(Task) /\ Len(x) = Len(u) + 1
      BY <2>1, OneMoreTask
    <2>3. Len(x) >= Len(u)
      BY <2>2
    <2> QED
      BY <2>1, <2>2, <2>3
  <1>4. PICK h \in Catalog!ChainStates : h = d.chain[i]
    BY RowsTyped
  <1>5. PICK c \in Catalog!ItemStates : c = d.item[i] /\ c # "none"
    BY RowsTyped DEF Catalog!Added
  <1>6. PICK f \in Rows : Rewrites(d, f, i, c, h, ts) /\ RewrittenIn(d, f, i, c, h, ts)
    BY OneItemRows
  <1>7. [d EXCEPT !.tasks[i] = ts] = f
    BY <1>4, <1>5, <1>6, Zenon DEF Rewrites
  <1>8. n = f
    BY <1>1, <1>2, <1>3, <1>7 DEF Catalog!AddTask
  <1>9. /\ Changes(d, f, {i}) /\ f.item[i] = c /\ f.chain[i] = h /\ Len(f.tasks[i]) = Len(ts)
        /\ RunningAwaits(d) /\ d.request = "Open" /\ c \notin Catalog!ItemTerminal
           /\ (h = "Running" => c = Awaits) => Consistent(f)
    <2>1. RewrittenIn(d, f, i, c, h, ts) /\ c # "none" /\ Len(ts) >= Len(d.tasks[i])
      BY <1>1, <1>3, <1>5, <1>6
    <2> QED
      BY <2>1, RewrittenChanges
  <1>10. Wrote(p, d, n)
    BY <1>4, <1>5, <1>8, <1>9, KindsDiffer DEF Wrote
  <1>11. /\ f.request = d.request /\ \A j \in Items : f.item[j] = d.item[j] /\ f.chain[j] = d.chain[j]
    BY <1>4, <1>5, <1>6 DEF RewrittenIn
  <1>12. Consistent(d) => Consistent(n)
    <2>1. Catalog!Added(f) = Catalog!Added(d) /\ Catalog!Added(d) \subseteq Items
      BY <1>11 DEF Catalog!Added
    <2>2. Outcomes(f) = Outcomes(d)
      BY <1>11, <2>1 DEF Outcomes
    <2> QED
      BY <1>8, <1>11, <2>2 DEF Consistent, Follows, AllEnded, RunningAwaits
  <1> QED
    BY <1>10, <1>12

\* The pages that pass their checks on the rows d.
Withdrawals(d) ==
    {[kind |-> "withdraw", items |-> is, task |-> 0, to |-> ""] :
       is \in {js \in {{i} : i \in Catalog!Added(d)} \union {Catalog!Added(d)} :
                 js \intersect {i \in Catalog!Added(d) : d.item[i] \notin Catalog!ItemTerminal} # {}}}
Updates(d) ==
    UNION {{[kind |-> "update", items |-> {p[1]}, task |-> p[2], to |-> state] :
              state \in {st \in Catalog!TaskStates : Catalog!MayTransition(d, p[1], p[2], st)}} :
             p \in {q \in Catalog!Added(d) \X (1 .. MaxTasks) : q[2] <= Len(d.tasks[q[1]])}}
Verdicts(d) ==
    {[kind |-> "decide", items |-> {p[1]}, task |-> 0, to |-> p[2]] :
       p \in {j \in Items : d.chain[j] = "Running"} \X {"Approved", "Rejected"}}
Orders(d) ==
    {[kind |-> Order, items |-> {i}, task |-> 0, to |-> ""] :
       i \in {j \in Items \ Catalog!Added(d) : d.request = "Open"}}
Assignments(d) ==
    {[kind |-> Assign, items |-> {p[1]}, task |-> 0, to |-> p[2]] :
       p \in {j \in Catalog!Added(d) : Catalog!Authorized(d, j) /\ Len(d.tasks[j]) < MaxTasks}
             \X {"Parallel", "Sequential"}}

LEMMA RequestsSplit ==
    ASSUME NEW d
    PROVE  Catalog!Requests(d)
             = Withdrawals(d) \union Updates(d) \union Verdicts(d) \union Orders(d) \union Assignments(d)
  BY Zenon DEF Catalog!Requests, Withdrawals, Updates, Verdicts, Orders, Assignments, Order, Assign

LEMMA RequestsAre ==
    ASSUME NEW d \in Rows, NEW o \in Catalog!Requests(d)
    PROVE  /\ PageOK(o, d, {})
           /\ o.kind = "withdraw" => \E j \in Items : d.item[j] # "none" /\ d.item[j] \notin Catalog!ItemTerminal
           /\ o.kind = "update" => \A i \in o.items : o.task \in 1 .. Len(d.tasks[i])
           /\ o.kind = Order => d.request = "Open"
  <1>1. PICK A : A = Catalog!Added(d)
    OBVIOUS
  <1>2. PICK S : S = {js \in {{i} : i \in A} \union {A} :
                        js \intersect {i \in A : d.item[i] \notin Catalog!ItemTerminal} # {}}
    OBVIOUS
  <1>3. PICK P : P = {q \in A \X (1 .. MaxTasks) : q[2] <= Len(d.tasks[q[1]])}
    OBVIOUS
  <1>4. \/ \E is \in S : o = [kind |-> "withdraw", items |-> is, task |-> 0, to |-> ""]
        \/ \E p \in P : \E st \in {st \in Catalog!TaskStates : Catalog!MayTransition(d, p[1], p[2], st)} :
             o = [kind |-> "update", items |-> {p[1]}, task |-> p[2], to |-> st]
        \/ \E p \in {j \in Items : d.chain[j] = "Running"} \X {"Approved", "Rejected"} :
             o = [kind |-> "decide", items |-> {p[1]}, task |-> 0, to |-> p[2]]
        \/ \E i \in {j \in Items \ A : d.request = "Open"} :
             o = [kind |-> Order, items |-> {i}, task |-> 0, to |-> ""]
        \/ \E p \in {j \in A : Catalog!Authorized(d, j) /\ Len(d.tasks[j]) < MaxTasks} \X {"Parallel", "Sequential"} :
             o = [kind |-> Assign, items |-> {p[1]}, task |-> 0, to |-> p[2]]
    <2>1. o \in Withdrawals(d) \union Updates(d) \union Verdicts(d) \union Orders(d) \union Assignments(d)
      BY RequestsSplit
    <2>2. o \in Withdrawals(d) => \E is \in S : o = [kind |-> "withdraw", items |-> is, task |-> 0, to |-> ""]
      BY <1>1, <1>2 DEF Withdrawals
    <2>3. o \in Updates(d) =>
            \E p \in P : \E st \in {st \in Catalog!TaskStates : Catalog!MayTransition(d, p[1], p[2], st)} :
              o = [kind |-> "update", items |-> {p[1]}, task |-> p[2], to |-> st]
      BY <1>1, <1>3 DEF Updates
    <2>4. o \in Verdicts(d) =>
            \E p \in {j \in Items : d.chain[j] = "Running"} \X {"Approved", "Rejected"} :
              o = [kind |-> "decide", items |-> {p[1]}, task |-> 0, to |-> p[2]]
      BY DEF Verdicts
    <2>5. o \in Orders(d) =>
            \E i \in {j \in Items \ A : d.request = "Open"} :
              o = [kind |-> Order, items |-> {i}, task |-> 0, to |-> ""]
      BY <1>1 DEF Orders
    <2>6. o \in Assignments(d) =>
            \E p \in {j \in A : Catalog!Authorized(d, j) /\ Len(d.tasks[j]) < MaxTasks} \X {"Parallel", "Sequential"} :
              o = [kind |-> Assign, items |-> {p[1]}, task |-> 0, to |-> p[2]]
      BY <1>1 DEF Assignments
    <2> QED
      BY <2>1, <2>2, <2>3, <2>4, <2>5, <2>6, Zenon
  <1>5. A \subseteq Items /\ \A j \in A : d.item[j] # "none"
    BY <1>1 DEF Catalog!Added
  <1>6. \A j \in A : Catalog!Authorized(d, j) => d.chain[j] \in Authorizing
    BY DEF Catalog!Authorized, Authorizing
  <1>7. CASE \E is \in S : o = [kind |-> "withdraw", items |-> is, task |-> 0, to |-> ""]
    <2>1. PICK is \in S : o = [kind |-> "withdraw", items |-> is, task |-> 0, to |-> ""]
      BY <1>7
    <2>2. is \subseteq A /\ \E j \in A : d.item[j] \notin Catalog!ItemTerminal
      BY <1>2
    <2>3. o.kind = "withdraw" /\ o.items = is
      BY <2>1
    <2> QED
      BY <1>1, <1>5, <2>2, <2>3, KindsDiffer DEF PageOK
  <1>8. CASE \E p \in P : \E st \in {st \in Catalog!TaskStates : Catalog!MayTransition(d, p[1], p[2], st)} :
               o = [kind |-> "update", items |-> {p[1]}, task |-> p[2], to |-> st]
    <2>1. PICK p \in P : \E st \in {st \in Catalog!TaskStates : Catalog!MayTransition(d, p[1], p[2], st)} :
             o = [kind |-> "update", items |-> {p[1]}, task |-> p[2], to |-> st]
      BY <1>8
    <2>2. PICK st \in Catalog!TaskStates : /\ Catalog!MayTransition(d, p[1], p[2], st)
                                           /\ o = [kind |-> "update", items |-> {p[1]}, task |-> p[2], to |-> st]
      BY <2>1
    <2>3. PICK i, k : i = p[1] /\ k = p[2]
      OBVIOUS
    <2>4. i \in A /\ k \in 1 .. MaxTasks /\ k <= Len(d.tasks[i])
      BY <1>3, <2>3
    <2>5. o.kind = "update" /\ o.items = {i} /\ o.task = k /\ o.to = st
      BY <2>2, <2>3
    <2>6. Catalog!Authorized(d, i)
      BY <2>2, <2>3, Zenon DEF Catalog!MayTransition
    <2>7. i \in Items /\ d.chain[i] \in Authorizing
      BY <1>5, <1>6, <2>4, <2>6
    <2>8. k \in Nat /\ k \in 1 .. Len(d.tasks[i])
      <3>1. Len(d.tasks[i]) \in Nat
        BY <2>7, RowsTyped
      <3> QED
        BY <2>4, <3>1
    <2>9. PageOK(o, d, {})
      BY <1>1, <2>4, <2>5, <2>7, <2>8, KindsDiffer DEF PageOK
    <2> QED
      BY <2>5, <2>8, <2>9, KindsDiffer
  <1>9. CASE \E p \in {j \in Items : d.chain[j] = "Running"} \X {"Approved", "Rejected"} :
               o = [kind |-> "decide", items |-> {p[1]}, task |-> 0, to |-> p[2]]
    <2>1. PICK i \in Items, outcome \in {"Approved", "Rejected"} :
            d.chain[i] = "Running" /\ o = [kind |-> "decide", items |-> {i}, task |-> 0, to |-> outcome]
      BY <1>9
    <2>2. o.kind = "decide" /\ o.items = {i} /\ o.to = outcome
      BY <2>1
    <2> QED
      BY <2>1, <2>2, KindsDiffer DEF PageOK
  <1>10. CASE \E i \in {j \in Items \ A : d.request = "Open"} :
                o = [kind |-> Order, items |-> {i}, task |-> 0, to |-> ""]
    <2>1. PICK i \in Items \ A : d.request = "Open" /\ o = [kind |-> Order, items |-> {i}, task |-> 0, to |-> ""]
      BY <1>10
    <2>2. o.kind = Order /\ o.items = {i}
      BY <2>1
    <2> QED
      BY <1>1, <2>1, <2>2, KindsDiffer DEF PageOK
  <1>11. CASE \E p \in {j \in A : Catalog!Authorized(d, j) /\ Len(d.tasks[j]) < MaxTasks}
                       \X {"Parallel", "Sequential"} :
                  o = [kind |-> Assign, items |-> {p[1]}, task |-> 0, to |-> p[2]]
    <2>1. PICK i \in A, mode \in {"Parallel", "Sequential"} :
            Catalog!Authorized(d, i) /\ o = [kind |-> Assign, items |-> {i}, task |-> 0, to |-> mode]
      BY <1>11
    <2>2. o.kind = Assign /\ o.items = {i}
      BY <2>1
    <2> QED
      BY <1>1, <1>5, <1>6, <2>1, <2>2, KindsDiffer DEF PageOK
  <1> QED
    BY <1>4, <1>7, <1>8, <1>9, <1>10, <1>11

LEMMA Applied ==
    ASSUME NEW p, NEW d \in Rows, NEW X, PageOK(p, d, X), NEW n, n = Catalog!Apply(d, p)
    PROVE  /\ Wrote(p, d, n)
           /\ X = {} /\ Consistent(d) /\ (p.kind \in {"withdraw", Order} => d.request = "Open") /\ Unborn(d)
                => Consistent(n)
  <1>1. p.kind \in {"withdraw", "update", "decide", Order, Assign}
    BY KindsDiffer DEF PageOK
  <1>2. CASE p.kind = "withdraw"
    <2>1. n = Catalog!Withdraw(d, p.items)
      BY <1>2, Zenon DEF Catalog!Apply
    <2>2. p.items \in SUBSET Items /\ p.items \subseteq Catalog!Added(d)
      BY <1>2 DEF PageOK
    <2>3. Wrote(p, d, n) /\ (Consistent(d) /\ d.request = "Open" => Consistent(n))
      BY <1>2, <2>1, <2>2, Withdrawing, Zenon
    <2> QED
      BY <1>2, <2>3
  <1>3. ASSUME p.kind # "withdraw"
        PROVE  \E i \in Items :
                 /\ p.items = {i} /\ i = CHOOSE j \in p.items : TRUE
                 /\ p.kind \in {"update", Assign} => i \in Catalog!Added(d) /\ (d.chain[i] \in Authorizing \/ i \in X)
                 /\ p.kind = "decide" => d.chain[i] = "Running" /\ p.to \in {"Approved", "Rejected"}
                 /\ p.kind = Order => i \notin Catalog!Added(d)
                 /\ p.kind = "update" => p.task \in Nat /\ p.to \in Catalog!TaskStates
    BY <1>3 DEF PageOK
  <1>4. CASE p.kind = "update"
    <2>1. PICK i \in Items : /\ p.items = {i} /\ i = CHOOSE j \in p.items : TRUE
                             /\ i \in Catalog!Added(d) /\ (d.chain[i] \in Authorizing \/ i \in X)
                             /\ p.to \in Catalog!TaskStates
      BY <1>3, <1>4
    <2>2. n = Catalog!Update(d, i, p.task, p.to)
      BY <1>4, <2>1, Zenon DEF Catalog!Apply
    <2>3. Wrote(p, d, n) /\ (d.chain[i] \in Authorizing /\ Consistent(d) => Consistent(n))
      BY <1>4, <2>1, <2>2, Updating, Zenon
    <2> QED
      BY <2>1, <2>3
  <1>5. CASE p.kind = "decide"
    <2>1. PICK i \in Items : /\ p.items = {i} /\ i = CHOOSE j \in p.items : TRUE
                             /\ d.chain[i] = "Running" /\ p.to \in {"Approved", "Rejected"}
      BY <1>3, <1>5
    <2>2. n = Catalog!Decide(d, i, p.to)
      BY <1>5, <2>1, Zenon DEF Catalog!Apply
    <2>3. Wrote(p, d, n) /\ (Consistent(d) => Consistent(n))
      BY <1>5, <2>1, <2>2, Deciding, Zenon
    <2> QED
      BY <2>3
  <1>6. CASE p.kind = Order
    <2>1. PICK i \in Items : /\ p.items = {i} /\ i = CHOOSE j \in p.items : TRUE
                             /\ i \notin Catalog!Added(d)
      BY <1>3, <1>6, KindsDiffer
    <2>2. n = Catalog!AddItem(d, i)
      BY <1>6, <2>1, Zenon DEF Catalog!Apply, Order
    <2>3. /\ Wrote(p, d, n)
          /\ RunningAwaits(d) /\ d.request = "Open" /\ d.chain[i] = "none" => Consistent(n)
      BY <1>6, <2>1, <2>2, Ordering, Zenon DEF Order
    <2> QED
      BY <1>6, <2>1, <2>3 DEF Unborn, Consistent
  <1>7. CASE p.kind = Assign
    <2>1. PICK i \in Items : /\ p.items = {i} /\ i = CHOOSE j \in p.items : TRUE
                             /\ i \in Catalog!Added(d)
      BY <1>3, <1>7, KindsDiffer
    <2>2. n = Catalog!AddTask(d, i, p.to)
      BY <1>7, <2>1, Zenon DEF Catalog!Apply, Assign
    <2>3. Wrote(p, d, n) /\ (Consistent(d) => Consistent(n))
      BY <1>7, <2>1, <2>2, Assigning, Zenon DEF Assign
    <2> QED
      BY <2>3
  <1> QED
    BY <1>1, <1>2, <1>4, <1>5, <1>6, <1>7

LEMMA Viewed ==
    ASSUME NEW s \in Sessions, db \in Rows, NEW X, PageOK(page[s], db, X), LoadedOK(s), NEW v, v = Catalog!View(s)
    PROVE  /\ v \in Rows /\ PageOK(page[s], v, X)
           /\ page[s].kind # "withdraw" => v.chain = db.chain
           /\ \A j \in Items : v.chain[j] = IF page[s].kind = "withdraw" /\ j \in page[s].items
                                            THEN seen[s].chain[j] ELSE db.chain[j]
           /\ \A j \in Items : Len(v.tasks[j]) = Len(db.tasks[j])
           /\ page[s].kind # "withdraw" => v.item = db.item /\ v.request = db.request
           /\ seen[s] = db => v = db
  <1>1. PICK d \in Rows : d = db
    OBVIOUS
  <1>2. PICK p : p = page[s]
    OBVIOUS
  <1>3. PICK w \in Rows : w = seen[s]
    BY DEF LoadedOK
  <1>4. PageOK(p, d, X)
    BY <1>1, <1>2
  <1>5. SUFFICES /\ v \in Rows /\ PageOK(p, v, X)
                 /\ p.kind # "withdraw" => v.chain = d.chain
                 /\ \A j \in Items : v.chain[j] = IF p.kind = "withdraw" /\ j \in p.items THEN w.chain[j] ELSE d.chain[j]
                 /\ \A j \in Items : Len(v.tasks[j]) = Len(d.tasks[j])
                 /\ p.kind # "withdraw" => v.item = d.item /\ v.request = d.request
                 /\ w = d => v = d
    BY <1>1, <1>2, <1>3
  <1>6. CASE p.kind = "withdraw"
    <2>1. PICK it : it = [j \in Items |-> IF j \in p.items THEN w.item[j] ELSE d.item[j]]
      OBVIOUS
    <2>2. PICK r, ch : r = w.request /\ ch = [j \in Items |-> IF j \in p.items THEN w.chain[j] ELSE d.chain[j]]
      OBVIOUS
    <2>3. PICK f : f = [request |-> r, item |-> it, chain |-> ch, tasks |-> d.tasks]
      OBVIOUS
    <2>4. v = [d EXCEPT !.request = w.request,
                        !.item = [j \in Items |-> IF j \in p.items THEN w.item[j] ELSE @[j]],
                        !.chain = [j \in Items |-> IF j \in p.items THEN w.chain[j] ELSE @[j]]]
      BY <1>1, <1>2, <1>3, <1>6, Zenon DEF Catalog!View
    <2>5. d = [request |-> d.request, item |-> d.item, chain |-> d.chain, tasks |-> d.tasks]
      BY RowsTyped
    <2>6. v = f
      <3>1. v = [d EXCEPT !.request = r, !.item = it, !.chain = ch]
        BY <2>1, <2>2, <2>4
      <3> QED
        BY <2>3, <2>5, <3>1
    <2>7. f \in Rows
      <3>1. it \in [Items -> Catalog!ItemStates] /\ ch \in [Items -> Catalog!ChainStates] /\ r \in {"Open"} \union Catalog!RequestFinal
        BY <2>1, <2>2, RowsTyped
      <3> QED
        BY <2>3, <3>1, RowsTyped, RowsBuilt
    <2>8. p.items \in SUBSET Items /\ p.items \subseteq Catalog!Added(f) /\ p.kind \in PageKinds
      BY <1>2, <1>3, <1>4, <1>6, <2>1, <2>3 DEF PageOK, LoadedOK, Catalog!Added
    <2>9. PageOK(p, f, X)
      BY <1>6, <2>8 DEF PageOK
    <2>10. ASSUME w = d PROVE v = d
      <3>1. it = d.item /\ r = d.request /\ ch = d.chain
        BY <2>1, <2>2, <2>10, RowsTyped
      <3> QED
        BY <2>3, <2>5, <2>6, <3>1
    <2>11. \A j \in Items : f.chain[j] = IF j \in p.items THEN w.chain[j] ELSE d.chain[j]
      BY <2>2, <2>3
    <2> QED
      BY <1>6, <2>3, <2>6, <2>7, <2>9, <2>10, <2>11
  <1>7. CASE p.kind = "update"
    <2>1. PICK i \in Items : p.items = {i} /\ i = CHOOSE j \in p.items : TRUE
      BY <1>4, <1>7 DEF PageOK
    <2>2. PICK k : k = p.task /\ k \in 1 .. Len(w.tasks[i])
      BY <1>2, <1>3, <1>7, <2>1 DEF LoadedOK
    <2>3. PICK x : x = w.tasks[i][k]
      OBVIOUS
    <2>4. x \in Task
      <3>1. w.tasks[i] \in Seq(Task)
        BY RowsTyped
      <3> QED
        BY <2>2, <2>3, <3>1
    <2>5. PICK u \in Seq(Task) : u = d.tasks[i]
      BY RowsTyped
    <2>6. PICK q : q = [u EXCEPT ![k] = x]
      OBVIOUS
    <2>7. q \in Seq(Task) /\ Len(q) = Len(u)
      <3>1. Len(u) \in Nat /\ u \in [1 .. Len(u) -> Task]
        OBVIOUS
      <3>2. q \in [1 .. Len(u) -> Task]
        BY <2>4, <2>6, <3>1
      <3> QED
        BY <3>1, <3>2
    <2>8. PICK ts : ts = [d.tasks EXCEPT ![i] = q]
      OBVIOUS
    <2>9. PICK f : f = [request |-> d.request, item |-> d.item, chain |-> d.chain, tasks |-> ts]
      OBVIOUS
    <2>10. v = [d EXCEPT !.tasks[i][p.task] = w.tasks[i][p.task]]
      BY <1>1, <1>2, <1>3, <1>7, <2>1, Zenon DEF Catalog!View
    <2>11. d = [request |-> d.request, item |-> d.item, chain |-> d.chain, tasks |-> d.tasks]
      BY RowsTyped
    <2>12. v = f
      <3>1. v = [d EXCEPT !.tasks = ts]
        BY <2>2, <2>3, <2>5, <2>6, <2>8, <2>10
      <3> QED
        BY <2>9, <2>11, <3>1
    <2>13. ts \in [Items -> Seq(Task)] /\ \A j \in Items : Len(ts[j]) = Len(d.tasks[j])
      BY <2>5, <2>7, <2>8, RowsTyped
    <2>14. f \in Rows
      BY <2>9, <2>13, RowsTyped, RowsBuilt
    <2>15. PageOK(p, f, X)
      <3>1. f.item = d.item /\ f.chain = d.chain
        BY <2>9
      <3> QED
        BY <1>4, <3>1 DEF PageOK, Catalog!Added
    <2>16. ASSUME w = d PROVE v = d
      <3>1. q = u
        BY <2>2, <2>3, <2>5, <2>6, <2>16
      <3>2. ts = d.tasks
        BY <2>5, <2>8, <3>1, RowsTyped
      <3> QED
        BY <2>9, <2>11, <2>12, <3>2
    <2> QED
      BY <1>7, <2>9, <2>12, <2>13, <2>14, <2>15, <2>16
  <1>8. CASE p.kind \notin {"withdraw", "update"}
    <2>1. v = d
      <3>1. page[s].kind # "withdraw" /\ page[s].kind # "update"
        BY <1>2, <1>8
      <3>2. Catalog!View(s) = db
        BY <3>1, Zenon DEF Catalog!View
      <3> QED
        BY <1>1, <3>2
    <2> QED
      BY <1>4, <1>8, <2>1
  <1> QED
    BY <1>6, <1>7, <1>8

LEMMA TasksJoined ==
    \A x, y \in Seq(Task) : x \o y \in Seq(Task) /\ Len(x \o y) = Len(x) + Len(y)
  OBVIOUS

\* Commit publishes the columns a session changed and the tasks it added.
MergedIn(d, o, n, e) ==
    /\ e.request = IF n.request # o.request THEN n.request ELSE d.request
    /\ \A i \in Items :
         /\ e.item[i] = IF n.item[i] # o.item[i] THEN n.item[i] ELSE d.item[i]
         /\ e.chain[i] = IF n.chain[i] # o.chain[i] THEN n.chain[i] ELSE d.chain[i]
         /\ Len(e.tasks[i]) = Len(d.tasks[i]) + (Len(n.tasks[i]) - Len(o.tasks[i]))

LEMMA Merged ==
    ASSUME NEW d \in Rows, NEW o \in Rows, NEW n \in Rows,
           \A i \in Items : Len(n.tasks[i]) >= Len(o.tasks[i]), NEW e, e = Catalog!Merge(d, o, n)
    PROVE  e \in Rows /\ MergedIn(d, o, n, e)
  <1>1. PICK it : it = [i \in Items |-> IF n.item[i] # o.item[i] THEN n.item[i] ELSE d.item[i]]
    OBVIOUS
  <1>2. PICK ch : ch = [i \in Items |-> IF n.chain[i] # o.chain[i] THEN n.chain[i] ELSE d.chain[i]]
    OBVIOUS
  <1>3. PICK ts : ts = [i \in Items |->
          [k \in 1 .. Len(d.tasks[i]) |->
              IF k <= Len(o.tasks[i]) /\ n.tasks[i][k] # o.tasks[i][k] THEN n.tasks[i][k] ELSE d.tasks[i][k]]
          \o SubSeq(n.tasks[i], Len(o.tasks[i]) + 1, Len(n.tasks[i]))]
    OBVIOUS
  <1>4. PICK r : r = IF n.request # o.request THEN n.request ELSE d.request
    OBVIOUS
  <1>5. e = [request |-> r, item |-> it, chain |-> ch, tasks |-> ts]
    BY <1>1, <1>2, <1>3, <1>4, Zenon DEF Catalog!Merge
  <1>6. ASSUME NEW i \in Items
        PROVE  ts[i] \in Seq(Task) /\ Len(ts[i]) = Len(d.tasks[i]) + (Len(n.tasks[i]) - Len(o.tasks[i]))
    <2>1. PICK a, b, c \in Seq(Task) : a = d.tasks[i] /\ b = o.tasks[i] /\ c = n.tasks[i]
      BY RowsTyped
    <2>2. Len(a) \in Nat /\ Len(b) \in Nat /\ Len(c) \in Nat /\ Len(c) >= Len(b)
      BY <1>6, <2>1
    <2>3. \A k \in 1 .. Len(a) : a[k] \in Task
      OBVIOUS
    <2>4. \A k \in 1 .. Len(c) : c[k] \in Task
      OBVIOUS
    <2>5. PICK x : x = [k \in 1 .. Len(a) |-> IF k <= Len(b) /\ c[k] # b[k] THEN c[k] ELSE a[k]]
      OBVIOUS
    <2>6. PICK y : y = SubSeq(c, Len(b) + 1, Len(c))
      OBVIOUS
    <2>7. \A k \in 1 .. Len(a) : (IF k <= Len(b) /\ c[k] # b[k] THEN c[k] ELSE a[k]) \in Task
      <3> SUFFICES ASSUME NEW k \in 1 .. Len(a), k <= Len(b) PROVE c[k] \in Task
        BY <2>3
      <3>1. k \in 1 .. Len(c)
        BY <2>2
      <3> QED
        BY <2>4, <3>1
    <2>8. x \in Seq(Task) /\ Len(x) = Len(a)
      <3>1. x \in [1 .. Len(a) -> Task]
        BY <2>5, <2>7
      <3> QED
        BY <2>2, <3>1
    <2>9. y \in Seq(Task) /\ Len(y) = Len(c) - Len(b)
      <3>1. Len(b) + 1 \in Nat /\ Len(b) + 1 >= 1 /\ Len(b) + 1 <= Len(c) + 1 /\ Len(c) + 1 - (Len(b) + 1) = Len(c) - Len(b)
        BY <2>2
      <3>2. PICK m \in Nat : m = Len(b) + 1
        BY <3>1
      <3>3. \A k \in m .. Len(c) : c[k] \in Task
        BY <2>2, <2>4, <3>1, <3>2
      <3>4. SubSeq(c, m, Len(c)) \in Seq(Task)
        BY <2>2, <3>3
      <3>5. Len(SubSeq(c, m, Len(c))) = IF m <= Len(c) THEN Len(c) - m + 1 ELSE 0
        BY <2>2
      <3>6. Len(SubSeq(c, m, Len(c))) = Len(c) - Len(b)
        BY <2>2, <3>2, <3>5
      <3> QED
        BY <2>6, <3>2, <3>4, <3>6
    <2>10. x \o y \in Seq(Task) /\ Len(x \o y) = Len(x) + Len(y)
      BY <2>8, <2>9, TasksJoined
    <2>11. ts[i] = x \o y
      BY <1>3, <2>1, <2>5, <2>6
    <2>12. Len(x \o y) = Len(a) + (Len(c) - Len(b))
      BY <2>2, <2>8, <2>9, <2>10
    <2> QED
      BY <2>1, <2>10, <2>11, <2>12
  <1>7. ts \in [Items -> Seq(Task)]
    <2>1. DOMAIN ts = Items /\ ts = [i \in Items |-> ts[i]]
      BY <1>3
    <2> QED
      BY <1>6, <2>1
  <1>8. it \in [Items -> Catalog!ItemStates] /\ ch \in [Items -> Catalog!ChainStates]
        /\ r \in {"Open"} \union Catalog!RequestFinal
    BY <1>1, <1>2, <1>4, RowsTyped
  <1>9. e \in Rows
    BY <1>5, <1>7, <1>8, RowsBuilt
  <1>10. e.item = it /\ e.chain = ch /\ e.tasks = ts /\ e.request = r
    BY <1>5
  <1>11. \A i \in Items : /\ it[i] = IF n.item[i] # o.item[i] THEN n.item[i] ELSE d.item[i]
                         /\ ch[i] = IF n.chain[i] # o.chain[i] THEN n.chain[i] ELSE d.chain[i]
    BY <1>1, <1>2
  <1> HIDE <1>1, <1>2, <1>3
  <1> QED
    BY <1>4, <1>6, <1>9, <1>10, <1>11 DEF MergedIn

\* What a commit does to the rows that the pages of the others rest on.
LEMMA CommitKeeps ==
    ASSUME NEW d \in Rows, NEW X, Unborn(d), Authorized(d, X), NEW p, PageOK(p, d, X),
           NEW o \in Rows, NEW n, Wrote(p, o, n),
           \A i \in Items : o.chain[i] # n.chain[i] =>
             d.chain[i] = o.chain[i] \/ (p.kind = "withdraw" /\ d.chain[i] # "none"),
           NEW e, e = Catalog!Merge(d, o, n),
           NEW Y, Y = X \union {i \in Items : /\ d.chain[i] = "Approved" /\ o.chain[i] = "Running"
                                               /\ n.chain[i] = "Cancelled"}
    PROVE  /\ e \in Rows /\ Unborn(e) /\ Authorized(e, Y)
           /\ Catalog!Added(d) \subseteq Catalog!Added(e)
           /\ \A i \in Catalog!Added(e) \ Catalog!Added(d) : p.kind = Order /\ p.items = {i}
           /\ \A i \in Items : o.chain[i] = n.chain[i] => e.chain[i] = d.chain[i]
           /\ \A i \in Catalog!Added(d) : d.chain[i] \in Authorizing => e.chain[i] = d.chain[i] \/ i \in Y
           /\ \A i \in Items : e.chain[i] = "none" => d.chain[i] = "none"
  <1>1. /\ n \in Rows
        /\ \A i \in Items :
             /\ Len(n.tasks[i]) >= Len(o.tasks[i])
             /\ n.item[i] = o.item[i] \/ n.item[i] # "none"
             /\ i \notin p.items => n.item[i] = o.item[i] /\ n.chain[i] = o.chain[i] /\ Len(n.tasks[i]) = Len(o.tasks[i])
    BY DEF Wrote, Changes
  <1>2. /\ e \in Rows
        /\ \A i \in Items :
             /\ e.item[i] = IF n.item[i] # o.item[i] THEN n.item[i] ELSE d.item[i]
             /\ e.chain[i] = IF n.chain[i] # o.chain[i] THEN n.chain[i] ELSE d.chain[i]
             /\ Len(e.tasks[i]) = Len(d.tasks[i]) + (Len(n.tasks[i]) - Len(o.tasks[i]))
    <2>1. PICK m \in Rows : m = n
      BY <1>1
    <2>2. \A i \in Items : Len(m.tasks[i]) >= Len(o.tasks[i])
      BY <1>1, <2>1
    <2>3. e = Catalog!Merge(d, o, m)
      BY <2>1
    <2>4. e \in Rows /\ MergedIn(d, o, m, e)
      BY <2>2, <2>3, Merged
    <2> QED
      BY <2>1, <2>4 DEF MergedIn
  <1>3. /\ \A i \in Items : i \in Catalog!Added(d) <=> d.item[i] # "none"
        /\ \A i \in Items : i \in Catalog!Added(e) <=> e.item[i] # "none"
        /\ Catalog!Added(d) \subseteq Items /\ Catalog!Added(e) \subseteq Items
    BY DEF Catalog!Added
  <1>4. /\ "none" \notin Fulfilled /\ "Cancelled" \notin Fulfilled /\ "Rejected" \notin Fulfilled
        /\ "Open" \notin Fulfilled /\ Awaits \notin Fulfilled
    BY DEF Fulfilled, Awaits
  <1>5. ASSUME NEW i \in Items
        PROVE  /\ e.item[i] = "none" => e.chain[i] = "none" /\ Len(e.tasks[i]) = 0 /\ d.item[i] = "none"
               /\ Len(e.tasks[i]) > 0 \/ e.item[i] \in Fulfilled => e.chain[i] \in Authorizing \/ i \in Y
               /\ e.item[i] # "none" /\ d.item[i] = "none" => p.kind = Order /\ p.items = {i}
               /\ d.item[i] # "none" /\ d.chain[i] \in Authorizing => e.chain[i] = d.chain[i] \/ i \in Y
               /\ e.chain[i] = "none" => d.chain[i] = "none"
    <2>1. PICK L, K, M \in Nat : L = Len(d.tasks[i]) /\ K = Len(o.tasks[i]) /\ M = Len(n.tasks[i])
      <3>1. Len(d.tasks[i]) \in Nat /\ Len(o.tasks[i]) \in Nat /\ Len(n.tasks[i]) \in Nat
        BY <1>1, RowsTyped
      <3> QED
        BY <3>1
    <2>2. M >= K /\ Len(e.tasks[i]) = L + (M - K)
      BY <1>1, <1>2, <2>1
    <2>3. M = K => Len(e.tasks[i]) = L
      BY <2>1, <2>2
    <2>4. Len(e.tasks[i]) > 0 => L > 0 \/ M # K
      <3>1. \A k, l, m \in Nat : l + (m - k) > 0 => l > 0 \/ m # k
        OBVIOUS
      <3>2. L + (M - K) > 0 => L > 0 \/ M # K
        BY <3>1
      <3> QED
        BY <2>2, <3>2
    <2>5. d.item[i] = "none" => d.chain[i] = "none" /\ L = 0
      BY <1>3, <2>1 DEF Unborn
    <2>6. L > 0 \/ d.item[i] \in Fulfilled => d.chain[i] \in Authorizing \/ i \in X
      BY <2>1 DEF Authorized
    <2>7. /\ e.item[i] = IF n.item[i] # o.item[i] THEN n.item[i] ELSE d.item[i]
          /\ e.chain[i] = IF n.chain[i] # o.chain[i] THEN n.chain[i] ELSE d.chain[i]
      BY <1>2
    <2>8. e.item[i] = "none" => d.item[i] = "none" /\ n.item[i] = o.item[i]
      BY <1>1, <2>7
    <2>9. CASE i \notin p.items
      <3>1. e.item[i] = d.item[i] /\ e.chain[i] = d.chain[i] /\ Len(e.tasks[i]) = L
        BY <1>1, <2>1, <2>3, <2>7, <2>9
      <3> QED
        BY <2>5, <2>6, <3>1
    <2>10. CASE i \in p.items /\ p.kind = "withdraw"
      <3>1. /\ M = K /\ n.item[i] \in {o.item[i], "Cancelled"}
            /\ n.chain[i] # o.chain[i] => o.chain[i] = "Running" /\ n.chain[i] = "Cancelled"
        BY <2>1, <2>10 DEF Wrote
      <3>2. d.item[i] # "none"
        BY <1>3, <2>10 DEF PageOK
      <3>3. e.item[i] = d.item[i] \/ e.item[i] \notin Fulfilled
        BY <1>4, <2>7, <3>1
      <3>4. e.chain[i] # d.chain[i] => e.chain[i] = "Cancelled" /\ o.chain[i] = "Running" /\ n.chain[i] = "Cancelled"
        BY <2>7, <3>1
      <3>5. d.chain[i] \in Authorizing => e.chain[i] = d.chain[i] \/ i \in Y
        BY <2>10, <3>4 DEF Authorizing
      <3>6. Len(e.tasks[i]) > 0 \/ e.item[i] \in Fulfilled => d.chain[i] \in Authorizing \/ i \in X
        BY <2>1, <2>3, <2>6, <3>1, <3>3
      <3>7. e.chain[i] = "none" => d.chain[i] = "none"
        BY <3>4
      <3> QED
        BY <2>8, <3>2, <3>5, <3>6, <3>7
    <2>11. CASE i \in p.items /\ p.kind \in {"update", Assign}
      <3>1. n.chain[i] = o.chain[i]
        BY <2>11 DEF Wrote, Assign
      <3>2. d.item[i] # "none" /\ (d.chain[i] \in Authorizing \/ i \in X)
        BY <1>3, <2>11, KindsDiffer DEF PageOK, Assign
      <3> QED
        BY <2>7, <2>8, <3>1, <3>2
    <2>12. CASE i \in p.items /\ p.kind = "decide"
      <3>1. /\ o.chain[i] = "Running"
            /\ \/ n.chain[i] = "Approved"
               \/ n.chain[i] = "Rejected" /\ n.item[i] = "Rejected" /\ M = K
        BY <2>1, <2>12 DEF Wrote
      <3>2. d.chain[i] = "Running" /\ d.item[i] # "none"
        BY <2>5, <2>12, KindsDiffer DEF PageOK
      <3>3. d.chain[i] \notin Authorizing /\ "Approved" \in Authorizing /\ "none" \notin {"Approved", "Rejected"}
        BY <3>2 DEF Authorizing
      <3>4. e.item[i] # "none"
        BY <2>8, <3>2
      <3>5. e.chain[i] \in Authorizing \/ (M = K /\ n.item[i] = "Rejected")
        BY <2>7, <3>1, <3>3
      <3>6. M = K /\ n.item[i] = "Rejected" => Len(e.tasks[i]) = L /\ (e.item[i] \in Fulfilled => i \in X)
        BY <1>4, <2>3, <2>6, <2>7, <3>3
      <3>7. L > 0 => i \in X
        BY <2>6, <3>3
      <3>8. e.chain[i] # "none"
        BY <2>7, <3>1, <3>2, <3>3
      <3> QED
        BY <3>2, <3>3, <3>4, <3>5, <3>6, <3>7, <3>8
    <2>13. CASE i \in p.items /\ p.kind = Order
      <3>1. /\ o.item[i] = "none" /\ n.item[i] \in {Awaits, "Open"}
            /\ n.chain[i] = o.chain[i] \/ M = K
        BY <2>1, <2>13 DEF Wrote, Order
      <3>2. p.items = {i} /\ d.item[i] = "none"
        BY <1>3, <2>13, KindsDiffer DEF PageOK, Order
      <3>3. e.item[i] \notin Fulfilled /\ e.item[i] # "none"
        BY <1>4, <2>7, <3>1, AwaitsIsOpen
      <3>4. d.chain[i] = "none" /\ L = 0 /\ "none" \in Authorizing
        BY <2>5, <3>2 DEF Authorizing
      <3>5. Len(e.tasks[i]) > 0 => e.chain[i] = d.chain[i]
        BY <2>3, <2>7, <3>1, <3>4
      <3> QED
        BY <2>13, <3>2, <3>3, <3>4, <3>5
    <2>14. p.kind \in {"withdraw", "update", "decide", Order, Assign}
      BY KindsDiffer DEF PageOK
    <2> QED
      BY <2>9, <2>10, <2>11, <2>12, <2>13, <2>14
  <1>6. Unborn(e) /\ Authorized(e, Y)
    BY <1>3, <1>5 DEF Unborn, Authorized
  <1> QED
    BY <1>2, <1>3, <1>5, <1>6

LEMMA PageKept ==
    ASSUME NEW d, NEW e, NEW q, NEW X, NEW Y, X \subseteq Y, PageOK(q, d, X),
           Catalog!Added(d) \subseteq Catalog!Added(e),
           \A i \in Catalog!Added(d) : d.chain[i] \in Authorizing => e.chain[i] = d.chain[i] \/ i \in Y,
           q.kind = "decide" => \A i \in q.items : e.chain[i] = d.chain[i],
           q.kind = Order => \A i \in q.items : i \in Catalog!Added(e) => i \in Catalog!Added(d)
    PROVE  PageOK(q, e, Y)
  <1>1. CASE q.kind = "withdraw"
    BY <1>1 DEF PageOK
  <1>2. CASE q.kind # "withdraw"
    <2>1. PICK i \in Items :
            /\ q.items = {i}
            /\ q.kind \in {"update", Assign} => i \in Catalog!Added(d) /\ (d.chain[i] \in Authorizing \/ i \in X)
            /\ q.kind = "decide" => d.chain[i] = "Running" /\ q.to \in {"Approved", "Rejected"}
            /\ q.kind = Order => i \notin Catalog!Added(d)
            /\ q.kind = "update" => q.task \in Nat /\ q.to \in Catalog!TaskStates
      BY <1>2 DEF PageOK
    <2>2. /\ q.kind \in {"update", Assign} => i \in Catalog!Added(e) /\ (e.chain[i] \in Authorizing \/ i \in Y)
          /\ q.kind = "decide" => e.chain[i] = "Running" /\ q.to \in {"Approved", "Rejected"}
          /\ q.kind = Order => i \notin Catalog!Added(e)
      BY <2>1
    <2>3. q.kind \in PageKinds /\ q.items \in SUBSET Items
      BY DEF PageOK
    <2> QED
      BY <1>2, <2>1, <2>2, <2>3 DEF PageOK
  <1> QED
    BY <1>1, <1>2

LEMMA ChainWritten ==
    ASSUME NEW o, NEW n, NEW i \in Items, o.chain[i] # n.chain[i]
    PROVE  <<"chain", i>> \in Catalog!Written(o, n)
  BY DEF Catalog!Written

LEMMA HeldIsLocked ==
    ASSUME NEW s \in Sessions, NEW t \in Sessions \ {s}, NEW i \in Items, HoldsChain(t, i)
    PROVE  <<"chain", i>> \in Catalog!LockedByOthers(s)
  <1>1. CASE phase[t] = "flushed" /\ old[t].chain[i] # new[t].chain[i]
    <2>1. <<"chain", i>> \in Catalog!Written(old[t], new[t])
      BY <1>1, ChainWritten
    <2>2. <<"chain", i>> \in Catalog!LockedBy(t)
      BY <1>1, <2>1 DEF Catalog!LockedBy
    <2> QED
      BY <2>2 DEF Catalog!LockedByOthers
  <1>2. CASE phase[t] # "idle" /\ page[t].kind = "decide" /\ i \in page[t].items
    <2>1. <<"chain", i>> \in Catalog!LockedBy(t)
      BY <1>2 DEF Catalog!LockedBy
    <2> QED
      BY <2>1 DEF Catalog!LockedByOthers
  <1> QED
    BY <1>1, <1>2 DEF HoldsChain

LEMMA LoadMoves ==
    ASSUME PagesTyped, NEW s \in Sessions, Catalog!Load(s)
    PROVE  /\ phase[s] = "idle" /\ phase'[s] = "loaded" /\ seen'[s] = db /\ page'[s] \in Catalog!Requests(db)
           /\ page'[s].kind = "decide" =>
                \A i \in page'[s].items : <<"chain", i>> \notin Catalog!LockedByOthers(s)
           /\ page'[s].kind = Order =>
                \A t \in Sessions : phase[t] # "idle" => page[t].kind # Order \/ page[t].items # page'[s].items
           /\ db' = db /\ old' = old /\ new' = new /\ overruled' = overruled /\ PagesTyped'
           /\ \A t \in Sessions \ {s} : phase'[t] = phase[t] /\ page'[t] = page[t] /\ seen'[t] = seen[t]
  <1>1. PICK o \in Catalog!Requests(db) :
          /\ o.kind = "decide" => \A i \in o.items : <<"chain", i>> \notin Catalog!LockedByOthers(s)
          /\ o.kind = Order =>
               \A t \in Sessions : phase[t] # "idle" => page[t].kind # Order \/ page[t].items # o.items
          /\ page' = [page EXCEPT ![s] = o]
    BY Zenon DEF Catalog!Load, Order
  <1>2. /\ phase[s] = "idle" /\ phase' = [phase EXCEPT ![s] = "loaded"] /\ seen' = [seen EXCEPT ![s] = db]
        /\ db' = db /\ old' = old /\ new' = new /\ overruled' = overruled
    BY Zenon DEF Catalog!Load
  <1>3. page'[s] = o
    BY <1>1 DEF PagesTyped
  <1> QED
    BY <1>1, <1>2, <1>3 DEF PagesTyped

LEMMA FlushMoves ==
    ASSUME PagesTyped, NEW s \in Sessions, Catalog!Flush(s)
    PROVE  /\ Reading(s) /\ (page[s].kind = "withdraw" => phase[s] = "checked") /\ phase'[s] = "flushed"
           /\ old'[s] = Catalog!View(s) /\ new'[s] = Catalog!Apply(Catalog!View(s), page[s])
           /\ Catalog!Written(old'[s], new'[s]) \intersect Catalog!LockedByOthers(s) = {}
           /\ db' = db /\ page' = page /\ overruled' = overruled /\ PagesTyped'
           /\ \A t \in Sessions \ {s} :
                phase'[t] = phase[t] /\ seen'[t] = seen[t] /\ old'[t] = old[t] /\ new'[t] = new[t]
  <1>1. PICK v, a, o : v = Catalog!View(s) /\ a = Catalog!Apply(Catalog!View(s), page[s]) /\ o = Catalog!Ordered
    OBVIOUS
  <1>2. /\ phase[s] = (IF page[s].kind = "withdraw" THEN "checked" ELSE "loaded") /\ phase' = [phase EXCEPT ![s] = "flushed"]
        /\ old' = [old EXCEPT ![s] = v] /\ new' = [new EXCEPT ![s] = a] /\ seen' = [seen EXCEPT ![s] = o]
        /\ db' = db /\ page' = page /\ overruled' = overruled
        /\ Catalog!Written(old'[s], new'[s]) \intersect Catalog!LockedByOthers(s) = {}
    BY <1>1, Zenon DEF Catalog!Flush
  <1> QED
    BY <1>1, <1>2 DEF PagesTyped, Reading

LEMMA ForgetMoves ==
    ASSUME PagesTyped, NEW s \in Sessions, Catalog!Forget(s)
    PROVE  /\ phase'[s] = "idle" /\ PagesTyped'
           /\ \A t \in Sessions \ {s} : /\ phase'[t] = phase[t] /\ page'[t] = page[t] /\ seen'[t] = seen[t]
                                        /\ old'[t] = old[t] /\ new'[t] = new[t]
  <1>1. PICK o, x : o = Catalog!Ordered /\ x = Catalog!Idle
    OBVIOUS
  <1>2. /\ phase' = [phase EXCEPT ![s] = "idle"] /\ page' = [page EXCEPT ![s] = x]
        /\ seen' = [seen EXCEPT ![s] = o] /\ old' = [old EXCEPT ![s] = o] /\ new' = [new EXCEPT ![s] = o]
    BY <1>1, Zenon DEF Catalog!Forget
  <1> QED
    BY <1>2 DEF PagesTyped

LEMMA ReadChainsMoves ==
    ASSUME PagesTyped, NEW s \in Sessions, Catalog!ReadChains(s)
    PROVE  /\ phase[s] = "loaded" /\ page[s].kind = "withdraw" /\ phase'[s] = "checked" /\ PagesTyped'
           /\ db' = db /\ page' = page /\ old' = old /\ new' = new /\ overruled' = overruled
           /\ seen'[s] = [seen[s] EXCEPT !.chain = db.chain]
           /\ \A t \in Sessions \ {s} : phase'[t] = phase[t] /\ seen'[t] = seen[t]
  <1>1. PICK r : r = [seen[s] EXCEPT !.chain = db.chain]
    OBVIOUS
  <1>2. /\ phase[s] = "loaded" /\ page[s].kind = "withdraw" /\ phase' = [phase EXCEPT ![s] = "checked"]
        /\ db' = db /\ page' = page /\ old' = old /\ new' = new /\ overruled' = overruled
    BY Zenon DEF Catalog!ReadChains
  <1>3. seen' = [seen EXCEPT ![s] = r]
    <2>1. seen' = [seen EXCEPT ![s].chain = db.chain]
      BY Zenon DEF Catalog!ReadChains
    <2> QED
      BY <1>1, <2>1
  <1> QED
    BY <1>1, <1>2, <1>3 DEF PagesTyped

LEMMA LoadKeepsFulfilment ==
    ASSUME FulfilmentInv, NEW s \in Sessions, Catalog!Load(s)
    PROVE  FulfilmentInv'
  <1>1. db \in Rows /\ Unborn(db) /\ Authorized(db, overruled) /\ PagesTyped /\ PagesOK /\ PagesApart
    BY DEF FulfilmentInv
  <1>2. /\ phase[s] = "idle" /\ phase'[s] = "loaded" /\ seen'[s] = db /\ page'[s] \in Catalog!Requests(db)
        /\ page'[s].kind = "decide" =>
             \A i \in page'[s].items : <<"chain", i>> \notin Catalog!LockedByOthers(s)
        /\ page'[s].kind = Order =>
             \A t \in Sessions : phase[t] # "idle" => page[t].kind # Order \/ page[t].items # page'[s].items
        /\ db' = db /\ old' = old /\ new' = new /\ overruled' = overruled /\ PagesTyped'
        /\ \A t \in Sessions \ {s} : phase'[t] = phase[t] /\ page'[t] = page[t] /\ seen'[t] = seen[t]
    BY <1>1, LoadMoves
  <1>3. /\ PageOK(page'[s], db, overruled)
        /\ page'[s].kind = "update" => \A i \in page'[s].items : page'[s].task \in 1 .. Len(db.tasks[i])
    <2>1. PICK d \in Rows : d = db
      BY <1>1
    <2>2. PICK o \in Catalog!Requests(d) : o = page'[s]
      BY <1>2, <2>1
    <2>3. PageOK(o, d, {}) /\ (o.kind = "update" => \A i \in o.items : o.task \in 1 .. Len(d.tasks[i]))
      BY RequestsAre
    <2>4. PageOK(o, d, overruled)
      BY <2>3, PageMore
    <2> QED
      BY <2>1, <2>2, <2>3, <2>4
  <1>4. page'[s].kind = "withdraw" => \A i \in page'[s].items : db.item[i] # "none"
    BY <1>3 DEF PageOK, Catalog!Added
  <1>5. LoadedOK(s)'
    BY <1>1, <1>2, <1>3, <1>4 DEF LoadedOK
  <1>6. ASSUME NEW t \in Sessions
        PROVE  /\ phase'[t] # "idle" => PageOK(page'[t], db', overruled')
               /\ Reading(t)' => LoadedOK(t)'
               /\ phase'[t] = "flushed" => FlushedOK(t)'
    <2>1. CASE t = s
      BY <1>2, <1>3, <1>5, <2>1
    <2>2. CASE t # s
      <3>1. phase'[t] = phase[t] /\ page'[t] = page[t] /\ seen'[t] = seen[t]
        BY <1>2, <2>2
      <3>2. /\ phase[t] # "idle" => PageOK(page[t], db, overruled)
            /\ Reading(t) => LoadedOK(t)
            /\ phase[t] = "flushed" => FlushedOK(t)
        BY <1>1 DEF PagesOK
      <3>3. (LoadedOK(t) => LoadedOK(t)') /\ (Reading(t)' => Reading(t))
        BY <1>2, <3>1 DEF LoadedOK, Reading
      <3>4. FlushedOK(t) => FlushedOK(t)'
        BY <1>2, <3>1 DEF FlushedOK
      <3> QED
        BY <1>2, <3>1, <3>2, <3>3, <3>4
    <2> QED
      BY <2>1, <2>2
  <1>7. PagesOK'
    BY <1>6 DEF PagesOK
  <1>8. ASSUME NEW t \in Sessions \ {s}, NEW i \in Items, HoldsChain(s, i)', HoldsChain(t, i)' PROVE FALSE
    <2>1. page'[s].kind = "decide" /\ i \in page'[s].items
      BY <1>2, <1>8 DEF HoldsChain
    <2>2. HoldsChain(t, i)
      BY <1>2, <1>8 DEF HoldsChain
    <2> QED
      BY <1>2, <2>1, <2>2, HeldIsLocked
  <1>9. \A t \in Sessions \ {s} : \A i \in Items : HoldsChain(t, i)' => HoldsChain(t, i)
    BY <1>2 DEF HoldsChain
  <1>10. PagesApart'
    <2> SUFFICES ASSUME NEW r \in Sessions, NEW t \in Sessions, r # t, phase'[r] # "idle", phase'[t] # "idle"
                 PROVE  /\ \A i \in Items : HoldsChain(r, i)' => ~HoldsChain(t, i)'
                        /\ page'[r].kind = Order /\ page'[t].kind = Order => page'[r].items # page'[t].items
      BY Zenon DEF PagesApart, Order
    <2>1. CASE r = s
      BY <1>2, <1>8, <2>1
    <2>2. CASE t = s
      BY <1>2, <1>8, <2>2
    <2>3. CASE r # s /\ t # s
      <3>1. /\ \A i \in Items : HoldsChain(r, i) => ~HoldsChain(t, i)
            /\ page[r].kind = Order /\ page[t].kind = Order => page[r].items # page[t].items
        BY <1>1, <1>2, <2>3 DEF PagesApart
      <3> QED
        BY <1>2, <1>9, <2>3, <3>1
    <2> QED
      BY <2>1, <2>2, <2>3
  <1>11. (db \in Rows)' /\ Unborn(db') /\ Authorized(db', overruled')
    BY <1>1, <1>2
  <1> QED
    BY <1>2, <1>7, <1>10, <1>11 DEF FulfilmentInv

LEMMA FlushKeepsFulfilment ==
    ASSUME FulfilmentInv, NEW s \in Sessions, Catalog!Flush(s)
    PROVE  FulfilmentInv'
  <1>1. db \in Rows /\ Unborn(db) /\ Authorized(db, overruled) /\ PagesTyped /\ PagesOK /\ PagesApart
    BY DEF FulfilmentInv
  <1>2. /\ Reading(s) /\ (page[s].kind = "withdraw" => phase[s] = "checked") /\ phase'[s] = "flushed"
        /\ old'[s] = Catalog!View(s) /\ new'[s] = Catalog!Apply(Catalog!View(s), page[s])
        /\ Catalog!Written(old'[s], new'[s]) \intersect Catalog!LockedByOthers(s) = {}
        /\ db' = db /\ page' = page /\ overruled' = overruled /\ PagesTyped'
        /\ \A t \in Sessions \ {s} :
             phase'[t] = phase[t] /\ seen'[t] = seen[t] /\ old'[t] = old[t] /\ new'[t] = new[t]
    BY <1>1, FlushMoves
  <1>3. PageOK(page[s], db, overruled) /\ LoadedOK(s) /\ phase[s] # "idle"
    BY <1>1, <1>2 DEF PagesOK, Reading
  <1>4. PICK v : v = Catalog!View(s)
    OBVIOUS
  <1>5. /\ v \in Rows /\ PageOK(page[s], v, overruled)
        /\ \A j \in Items : v.chain[j] = IF page[s].kind = "withdraw" /\ j \in page[s].items
                                         THEN seen[s].chain[j] ELSE db.chain[j]
    BY <1>1, <1>3, <1>4, Viewed
  <1>6. PICK p : p = page[s]
    OBVIOUS
  <1>7. PICK n : n = Catalog!Apply(v, p)
    OBVIOUS
  <1>8. Wrote(p, v, n)
    BY <1>5, <1>6, <1>7, Applied
  <1>9. old'[s] = v /\ new'[s] = n /\ page'[s] = p
    BY <1>2, <1>4, <1>6, <1>7
  <1>10. FlushedOK(s)'
    <2>1. ASSUME NEW i \in Items, v.chain[i] # n.chain[i]
          PROVE  db.chain[i] = v.chain[i] \/ (p.kind = "withdraw" /\ db.chain[i] # "none")
      <3>1. i \in p.items
        BY <1>8, <2>1 DEF Wrote, Changes
      <3>2. p.kind = "withdraw" => v.chain[i] = "Running"
        BY <1>8, <2>1, <3>1 DEF Wrote
      <3>3. p.kind = "withdraw" => db.chain[i] # "none"
        BY <1>2, <1>3, <1>5, <1>6, <3>1, <3>2 DEF LoadedOK
      <3> QED
        BY <1>5, <1>6, <3>3
    <2> QED
      BY <1>2, <1>5, <1>8, <1>9, <2>1 DEF FlushedOK
  <1>11. ASSUME NEW t \in Sessions
         PROVE  /\ phase'[t] # "idle" => PageOK(page'[t], db', overruled')
                /\ Reading(t)' => LoadedOK(t)'
                /\ phase'[t] = "flushed" => FlushedOK(t)'
    <2>1. CASE t = s
      BY <1>2, <1>3, <1>10, <2>1 DEF Reading
    <2>2. CASE t # s
      <3>1. phase'[t] = phase[t] /\ seen'[t] = seen[t] /\ old'[t] = old[t] /\ new'[t] = new[t]
        BY <1>2, <2>2
      <3>2. /\ phase[t] # "idle" => PageOK(page[t], db, overruled)
            /\ Reading(t) => LoadedOK(t)
            /\ phase[t] = "flushed" => FlushedOK(t)
        BY <1>1 DEF PagesOK
      <3>3. (LoadedOK(t) => LoadedOK(t)') /\ (Reading(t)' => Reading(t))
        BY <1>2, <3>1 DEF LoadedOK, Reading
      <3>4. FlushedOK(t) => FlushedOK(t)'
        BY <1>2, <3>1 DEF FlushedOK
      <3> QED
        BY <1>2, <3>1, <3>2, <3>3, <3>4
    <2> QED
      BY <2>1, <2>2
  <1>12. PagesOK'
    BY <1>11 DEF PagesOK
  <1>13. ASSUME NEW t \in Sessions \ {s}, NEW i \in Items, HoldsChain(s, i)', HoldsChain(t, i)' PROVE FALSE
    <2>1. HoldsChain(t, i)
      BY <1>2, <1>13 DEF HoldsChain
    <2>2. phase[t] # "idle"
      BY <2>1 DEF HoldsChain
    <2>3. CASE v.chain[i] # n.chain[i]
      <3>1. <<"chain", i>> \in Catalog!Written(v, n)
        BY <2>3, ChainWritten
      <3>2. <<"chain", i>> \in Catalog!LockedByOthers(s)
        BY <2>1, HeldIsLocked
      <3> QED
        BY <1>2, <1>9, <3>1, <3>2
    <2>4. CASE v.chain[i] = n.chain[i]
      <3>1. HoldsChain(s, i)
        BY <1>2, <1>3, <1>9, <1>13, <2>4 DEF HoldsChain
      <3> QED
        BY <1>1, <1>2, <1>3, <2>1, <2>2, <3>1 DEF PagesApart
    <2> QED
      BY <2>3, <2>4
  <1>14. \A t \in Sessions \ {s} : \A i \in Items : HoldsChain(t, i)' => HoldsChain(t, i)
    BY <1>2 DEF HoldsChain
  <1>15. PagesApart'
    <2> SUFFICES ASSUME NEW r \in Sessions, NEW t \in Sessions, r # t, phase'[r] # "idle", phase'[t] # "idle"
                 PROVE  /\ \A i \in Items : HoldsChain(r, i)' => ~HoldsChain(t, i)'
                        /\ page'[r].kind = Order /\ page'[t].kind = Order => page'[r].items # page'[t].items
      BY Zenon DEF PagesApart, Order
    <2>1. phase[r] # "idle" /\ phase[t] # "idle"
      BY <1>2, <1>3
    <2>2. /\ \A i \in Items : HoldsChain(r, i) => ~HoldsChain(t, i)
          /\ page[r].kind = Order /\ page[t].kind = Order => page[r].items # page[t].items
      BY <1>1, <2>1 DEF PagesApart
    <2>3. \A i \in Items : HoldsChain(r, i)' => ~HoldsChain(t, i)'
      BY <1>13, <1>14, <2>2
    <2> QED
      BY <1>2, <2>2, <2>3
  <1>16. (db \in Rows)' /\ Unborn(db') /\ Authorized(db', overruled')
    BY <1>1, <1>2
  <1> QED
    BY <1>2, <1>12, <1>15, <1>16 DEF FulfilmentInv

LEMMA ReadChainsKeepsFulfilment ==
    ASSUME FulfilmentInv, NEW s \in Sessions, Catalog!ReadChains(s)
    PROVE  FulfilmentInv'
  <1>1. db \in Rows /\ Unborn(db) /\ Authorized(db, overruled) /\ PagesTyped /\ PagesOK /\ PagesApart
    BY DEF FulfilmentInv
  <1>2. /\ phase[s] = "loaded" /\ page[s].kind = "withdraw" /\ phase'[s] = "checked" /\ PagesTyped'
        /\ db' = db /\ page' = page /\ old' = old /\ new' = new /\ overruled' = overruled
        /\ seen'[s] = [seen[s] EXCEPT !.chain = db.chain]
        /\ \A t \in Sessions \ {s} : phase'[t] = phase[t] /\ seen'[t] = seen[t]
    BY <1>1, ReadChainsMoves
  <1>3. LoadedOK(s)
    BY <1>1, <1>2 DEF PagesOK, Reading
  <1>4. PICK w \in Rows, c \in [Items -> Catalog!ChainStates] : w = seen[s] /\ c = db.chain
    BY <1>1, <1>3, RowsTyped DEF LoadedOK
  <1>5. PICK r : r = [w EXCEPT !.chain = c]
    OBVIOUS
  <1>6. r \in Rows /\ r.chain = c /\ r.item = w.item /\ r.tasks = w.tasks
    <2>1. w = [request |-> w.request, item |-> w.item, chain |-> w.chain, tasks |-> w.tasks]
      BY RowsTyped
    <2>2. r = [request |-> w.request, item |-> w.item, chain |-> c, tasks |-> w.tasks]
      BY <1>5, <2>1
    <2>3. [request |-> w.request, item |-> w.item, chain |-> c, tasks |-> w.tasks] \in Rows
      BY RowsTyped, RowsBuilt
    <2> QED
      BY <2>2, <2>3
  <1>7. seen'[s] = r
    BY <1>2, <1>4, <1>5
  <1>8. LoadedOK(s)'
    BY <1>2, <1>3, <1>4, <1>6, <1>7 DEF LoadedOK
  <1>9. ASSUME NEW t \in Sessions
        PROVE  /\ phase'[t] # "idle" => PageOK(page'[t], db', overruled')
               /\ Reading(t)' => LoadedOK(t)'
               /\ phase'[t] = "flushed" => FlushedOK(t)'
    <2>1. /\ phase[t] # "idle" => PageOK(page[t], db, overruled)
          /\ Reading(t) => LoadedOK(t)
          /\ phase[t] = "flushed" => FlushedOK(t)
      BY <1>1 DEF PagesOK
    <2>2. CASE t = s
      BY <1>2, <1>8, <2>1, <2>2
    <2>3. CASE t # s
      <3>1. phase'[t] = phase[t] /\ seen'[t] = seen[t]
        BY <1>2, <2>3
      <3>2. (LoadedOK(t) => LoadedOK(t)') /\ (Reading(t)' => Reading(t)) /\ (FlushedOK(t) => FlushedOK(t)')
        BY <1>2, <3>1 DEF LoadedOK, Reading, FlushedOK
      <3> QED
        BY <1>2, <2>1, <3>1, <3>2
    <2> QED
      BY <2>2, <2>3
  <1>10. PagesOK'
    BY <1>9 DEF PagesOK
  <1>11. \A t \in Sessions : phase'[t] = phase[t] \/ (phase[t] # "idle" /\ phase'[t] # "flushed")
    BY <1>2
  <1>12. \A t \in Sessions, i \in Items : HoldsChain(t, i)' => HoldsChain(t, i)
    BY <1>2, <1>11 DEF HoldsChain
  <1>13. PagesApart'
    BY <1>1, <1>2, <1>11, <1>12 DEF PagesApart, Order
  <1> QED
    BY <1>1, <1>2, <1>10, <1>13 DEF FulfilmentInv

\* Sessions other than s go on as they were: what they hold and write is unchanged.
LEMMA OthersApart ==
    ASSUME PagesApart, NEW s \in Sessions, phase'[s] = "idle",
           \A t \in Sessions \ {s} : /\ phase'[t] = phase[t] /\ page'[t] = page[t] /\ seen'[t] = seen[t]
                                     /\ old'[t] = old[t] /\ new'[t] = new[t]
    PROVE  PagesApart'
  <1> SUFFICES ASSUME NEW r \in Sessions, NEW t \in Sessions, r # t, phase'[r] # "idle", phase'[t] # "idle"
               PROVE  /\ \A i \in Items : HoldsChain(r, i)' => ~HoldsChain(t, i)'
                      /\ page'[r].kind = Order /\ page'[t].kind = Order => page'[r].items # page'[t].items
    BY Zenon DEF PagesApart, Order
  <1>1. r # s /\ t # s
    OBVIOUS
  <1>2. phase[r] # "idle" /\ phase[t] # "idle"
    BY <1>1
  <1>3. /\ \A i \in Items : HoldsChain(r, i) => ~HoldsChain(t, i)
        /\ page[r].kind = Order /\ page[t].kind = Order => page[r].items # page[t].items
    BY <1>2 DEF PagesApart
  <1>4. \A i \in Items : (HoldsChain(r, i)' => HoldsChain(r, i)) /\ (HoldsChain(t, i)' => HoldsChain(t, i))
    BY <1>1 DEF HoldsChain
  <1> QED
    BY <1>1, <1>3, <1>4

LEMMA CommitKeepsFulfilment ==
    ASSUME FulfilmentInv, NEW s \in Sessions, Catalog!Commit(s)
    PROVE  FulfilmentInv'
  <1>1. db \in Rows /\ Unborn(db) /\ Authorized(db, overruled) /\ PagesTyped /\ PagesOK /\ PagesApart
    BY DEF FulfilmentInv
  <1>2. /\ phase[s] = "flushed" /\ Catalog!Forget(s) /\ db' = Catalog!Merge(db, old[s], new[s])
        /\ overruled' = overruled \union {i \in Items : /\ db.chain[i] = "Approved"
                                                      /\ old[s].chain[i] = "Running"
                                                      /\ new[s].chain[i] = "Cancelled"}
    BY Zenon DEF Catalog!Commit
  <1>3. /\ phase'[s] = "idle" /\ PagesTyped'
        /\ \A t \in Sessions \ {s} : /\ phase'[t] = phase[t] /\ page'[t] = page[t] /\ seen'[t] = seen[t]
                                     /\ old'[t] = old[t] /\ new'[t] = new[t]
    BY <1>1, <1>2, ForgetMoves
  <1>4. PageOK(page[s], db, overruled) /\ FlushedOK(s)
    BY <1>1, <1>2 DEF PagesOK
  <1>5. PICK d \in Rows, o \in Rows : d = db /\ o = old[s]
    BY <1>1, <1>4 DEF FlushedOK
  <1>6. PICK p, n : p = page[s] /\ n = new[s]
    OBVIOUS
  <1>7. PICK e, X, Y : e = db' /\ X = overruled /\ Y = overruled'
    OBVIOUS
  <1>8. /\ Unborn(d) /\ Authorized(d, X) /\ PageOK(p, d, X) /\ Wrote(p, o, n)
        /\ \A i \in Items : o.chain[i] # n.chain[i] =>
             d.chain[i] = o.chain[i] \/ (p.kind = "withdraw" /\ d.chain[i] # "none")
        /\ e = Catalog!Merge(d, o, n)
        /\ Y = X \union {i \in Items : /\ d.chain[i] = "Approved" /\ o.chain[i] = "Running"
                                        /\ n.chain[i] = "Cancelled"}
    BY <1>1, <1>2, <1>4, <1>5, <1>6, <1>7 DEF FlushedOK
  <1>9. /\ e \in Rows /\ Unborn(e) /\ Authorized(e, Y)
        /\ Catalog!Added(d) \subseteq Catalog!Added(e)
        /\ \A i \in Catalog!Added(e) \ Catalog!Added(d) : p.kind = Order /\ p.items = {i}
        /\ \A i \in Items : o.chain[i] = n.chain[i] => e.chain[i] = d.chain[i]
        /\ \A i \in Catalog!Added(d) : d.chain[i] \in Authorizing => e.chain[i] = d.chain[i] \/ i \in Y
        /\ \A i \in Items : e.chain[i] = "none" => d.chain[i] = "none"
    BY <1>8, CommitKeeps
  <1>10. ASSUME NEW t \in Sessions \ {s}, phase[t] # "idle"
         PROVE  /\ PageOK(page[t], e, Y)
                /\ \A i \in Items : HoldsChain(t, i) => e.chain[i] = d.chain[i]
    <2>1. PICK q : q = page[t]
      OBVIOUS
    <2>2. PageOK(q, d, X) /\ X \subseteq Y
      BY <1>1, <1>5, <1>7, <1>8, <1>10, <2>1 DEF PagesOK
    <2>3. /\ \A i \in Items : HoldsChain(s, i) => ~HoldsChain(t, i)
          /\ p.kind = Order /\ q.kind = Order => p.items # q.items
      BY <1>1, <1>2, <1>6, <1>10, <2>1 DEF PagesApart
    <2>4. \A i \in Items : HoldsChain(t, i) => o.chain[i] = n.chain[i]
      BY <1>2, <1>5, <1>6, <2>3 DEF HoldsChain
    <2>5. \A i \in Items : HoldsChain(t, i) => e.chain[i] = d.chain[i]
      BY <1>9, <2>4
    <2>6. q.kind = "decide" => \A i \in q.items : e.chain[i] = d.chain[i]
      <3>1. q.items \subseteq Items
        BY <2>2 DEF PageOK
      <3> QED
        BY <1>10, <2>1, <2>5, <3>1 DEF HoldsChain
    <2>7. q.kind = Order => \A i \in q.items : i \in Catalog!Added(e) => i \in Catalog!Added(d)
      <3> SUFFICES ASSUME q.kind = Order, NEW i \in q.items, i \in Catalog!Added(e), i \notin Catalog!Added(d)
                   PROVE  FALSE
        OBVIOUS
      <3>1. p.kind = Order /\ p.items = {i}
        BY <1>9
      <3>2. q.items = {i}
        BY <2>2, KindsDiffer DEF PageOK
      <3> QED
        BY <2>3, <3>1, <3>2
    <2>8. PageOK(q, e, Y)
      BY <1>9, <2>2, <2>6, <2>7, PageKept
    <2> QED
      BY <2>1, <2>5, <2>8
  <1>11. ASSUME NEW t \in Sessions
         PROVE  /\ phase'[t] # "idle" => PageOK(page'[t], db', overruled')
                /\ Reading(t)' => LoadedOK(t)'
                /\ phase'[t] = "flushed" => FlushedOK(t)'
    <2>1. CASE t = s
      BY <1>3, <2>1 DEF Reading
    <2>2. CASE t # s
      <3>1. /\ phase'[t] = phase[t] /\ page'[t] = page[t] /\ seen'[t] = seen[t]
            /\ old'[t] = old[t] /\ new'[t] = new[t]
        BY <1>3, <2>2
      <3>2. /\ Reading(t) => LoadedOK(t)
            /\ phase[t] = "flushed" => FlushedOK(t)
        BY <1>1 DEF PagesOK
      <3>3. (LoadedOK(t) => LoadedOK(t)') /\ (Reading(t)' => Reading(t))
        <4>1. page[t].items \subseteq Items \/ phase[t] = "idle"
          BY <1>1 DEF PagesOK, PageOK
        <4> QED
          BY <1>5, <1>7, <1>9, <3>1, <4>1 DEF LoadedOK, Reading
      <3>4. ASSUME phase[t] = "flushed" PROVE FlushedOK(t)'
        <4>1. \A i \in Items : old[t].chain[i] # new[t].chain[i] =>
                e.chain[i] = old[t].chain[i] \/ (page[t].kind = "withdraw" /\ e.chain[i] # "none")
          BY <1>5, <1>10, <2>2, <3>2, <3>4 DEF FlushedOK, HoldsChain
        <4>2. old[t] \in Rows /\ Wrote(page[t], old[t], new[t])
          BY <3>2, <3>4 DEF FlushedOK
        <4> QED
          BY <1>7, <3>1, <4>1, <4>2 DEF FlushedOK
      <3>5. phase[t] # "idle" => PageOK(page'[t], db', overruled')
        BY <1>7, <1>10, <2>2, <3>1
      <3> QED
        BY <3>1, <3>2, <3>3, <3>4, <3>5
    <2> QED
      BY <2>1, <2>2
  <1>12. PagesOK'
    BY <1>11 DEF PagesOK
  <1>13. PagesApart'
    BY <1>1, <1>3, OthersApart
  <1>14. (db \in Rows)' /\ Unborn(db') /\ Authorized(db', overruled')
    BY <1>7, <1>9
  <1> QED
    BY <1>3, <1>12, <1>13, <1>14 DEF FulfilmentInv

LEMMA AbortKeepsFulfilment ==
    ASSUME FulfilmentInv, NEW s \in Sessions, Catalog!Abort(s)
    PROVE  FulfilmentInv'
  <1>1. db \in Rows /\ Unborn(db) /\ Authorized(db, overruled) /\ PagesTyped /\ PagesOK /\ PagesApart
    BY DEF FulfilmentInv
  <1>2. Catalog!Forget(s) /\ db' = db /\ overruled' = overruled
    BY Zenon DEF Catalog!Abort
  <1>3. /\ phase'[s] = "idle" /\ PagesTyped'
        /\ \A t \in Sessions \ {s} : /\ phase'[t] = phase[t] /\ page'[t] = page[t] /\ seen'[t] = seen[t]
                                     /\ old'[t] = old[t] /\ new'[t] = new[t]
    BY <1>1, <1>2, ForgetMoves
  <1>4. ASSUME NEW t \in Sessions
        PROVE  /\ phase'[t] # "idle" => PageOK(page'[t], db', overruled')
               /\ Reading(t)' => LoadedOK(t)'
               /\ phase'[t] = "flushed" => FlushedOK(t)'
    <2>1. CASE t = s
      BY <1>3, <2>1 DEF Reading
    <2>2. CASE t # s
      <3>1. /\ phase'[t] = phase[t] /\ page'[t] = page[t] /\ seen'[t] = seen[t]
            /\ old'[t] = old[t] /\ new'[t] = new[t]
        BY <1>3, <2>2
      <3>2. /\ phase[t] # "idle" => PageOK(page[t], db, overruled)
            /\ Reading(t) => LoadedOK(t)
            /\ phase[t] = "flushed" => FlushedOK(t)
        BY <1>1 DEF PagesOK
      <3>3. (LoadedOK(t) => LoadedOK(t)') /\ (Reading(t)' => Reading(t)) /\ (FlushedOK(t) => FlushedOK(t)')
        BY <1>2, <3>1 DEF LoadedOK, Reading, FlushedOK
      <3> QED
        BY <1>2, <3>1, <3>2, <3>3
    <2> QED
      BY <2>1, <2>2
  <1>5. PagesOK'
    BY <1>4 DEF PagesOK
  <1>6. PagesApart'
    BY <1>1, <1>3, OthersApart
  <1>7. (db \in Rows)' /\ Unborn(db') /\ Authorized(db', overruled')
    BY <1>1, <1>2
  <1> QED
    BY <1>3, <1>5, <1>6, <1>7 DEF FulfilmentInv

\* The request as it is ordered.
LEMMA OrderedOK ==
    Catalog!Ordered \in Rows /\ Unborn(Catalog!Ordered) /\ Authorized(Catalog!Ordered, {}) /\ Consistent(Catalog!Ordered)
  <1>1. FirstItem \in Items
    BY CatalogRequestAssumption DEF Catalog!ConstantsOK
  <1>2. PICK i \in Items : i = FirstItem
    BY <1>1
  <1>3. PICK it, ch, ts : /\ it = [j \in Items |-> "none"] /\ ch = [j \in Items |-> "none"]
                          /\ ts = [j \in Items |-> <<>>]
    OBVIOUS
  <1>4. PICK d : d = [request |-> "Open", item |-> it, chain |-> ch, tasks |-> ts]
    OBVIOUS
  <1>5. d \in Rows
    <2>1. it \in [Items -> Catalog!ItemStates] /\ ch \in [Items -> Catalog!ChainStates]
      <3>1. "none" \in Catalog!ItemStates /\ "none" \in Catalog!ChainStates
        BY StateNames DEF Catalog!ItemStates
      <3> QED
        BY <1>3, <3>1
    <2>2. ts \in [Items -> Seq(Task)]
      <3>1. <<>> \in Seq(Task)
        OBVIOUS
      <3> QED
        BY <1>3, <3>1
    <2> QED
      BY <1>4, <2>1, <2>2, RowsBuilt
  <1>6. d.request = "Open" /\ \A j \in Items : d.item[j] = "none" /\ d.chain[j] = "none" /\ Len(d.tasks[j]) = 0
    BY <1>3, <1>4
  <1>7. PICK n : n = Catalog!AddItem(d, i)
    OBVIOUS
  <1>8. n = Catalog!Ordered
    BY <1>2, <1>3, <1>4, <1>7, Zenon DEF Catalog!Ordered
  <1>9. PICK p : p.kind = Order /\ p.items = {i}
    <2>1. [kind |-> Order, items |-> {i}].kind = Order /\ [kind |-> Order, items |-> {i}].items = {i}
      OBVIOUS
    <2> QED
      BY <2>1, Zenon
  <1>10. Wrote(p, d, n) /\ Consistent(n)
    <2>1. RunningAwaits(d) /\ i \notin Catalog!Added(d) /\ p.kind = "add item"
      BY <1>6, <1>9 DEF RunningAwaits, Catalog!Added, Order
    <2> QED
      BY <1>5, <1>6, <1>7, <1>9, <2>1, Ordering, Zenon
  <1>11. /\ n \in Rows
         /\ \A j \in Items \ {i} : n.item[j] = "none" /\ n.chain[j] = "none" /\ Len(n.tasks[j]) = 0
         /\ n.item[i] \in {Awaits, "Open"}
         /\ n.chain[i] = "none" \/ Len(n.tasks[i]) = 0
    <2>1. /\ n \in Rows
          /\ \A j \in Items \ {i} : n.item[j] = d.item[j] /\ n.chain[j] = d.chain[j] /\ Len(n.tasks[j]) = Len(d.tasks[j])
      BY <1>9, <1>10 DEF Wrote, Changes
    <2>2. n.item[i] \in {Awaits, "Open"} /\ (n.chain[i] = d.chain[i] \/ Len(n.tasks[i]) = Len(d.tasks[i]))
      BY <1>9, <1>10 DEF Wrote, Order
    <2> QED
      BY <1>6, <2>1, <2>2
  <1>12. Unborn(n) /\ Authorized(n, {})
    <2>1. "none" \notin Fulfilled /\ "Open" \notin Fulfilled /\ Awaits \notin Fulfilled /\ "none" \in Authorizing
      BY DEF Fulfilled, Awaits, Authorizing
    <2>2. Unborn(n)
      BY <1>11, AwaitsIsOpen DEF Unborn, Catalog!Added
    <2>3. Authorized(n, {})
      BY <1>11, <2>1 DEF Authorized
    <2> QED
      BY <2>2, <2>3
  <1> QED
    BY <1>8, <1>10, <1>11, <1>12

LEMMA InitFulfilment == MCInit => FulfilmentInv /\ FollowsInv
  <1> SUFFICES ASSUME MCInit PROVE FulfilmentInv /\ FollowsInv
    OBVIOUS
  <1>1. PICK o, x : o = Catalog!Ordered /\ x = Catalog!Idle
    OBVIOUS
  <1>2. /\ db = o /\ page = [s \in Sessions |-> x] /\ phase = [s \in Sessions |-> "idle"]
        /\ seen = [s \in Sessions |-> o] /\ old = [s \in Sessions |-> o] /\ new = [s \in Sessions |-> o]
        /\ overruled = {}
    BY <1>1, Zenon DEF MCInit, Catalog!Init
  <1>3. \A s \in Sessions : phase[s] = "idle"
    BY <1>2
  <1>4. PagesTyped
    BY <1>2 DEF PagesTyped
  <1>5. PagesOK /\ PagesApart
    BY <1>3 DEF PagesOK, PagesApart, Reading
  <1>6. db \in Rows /\ Unborn(db) /\ Authorized(db, overruled) /\ Consistent(db)
    BY <1>1, <1>2, OrderedOK
  <1>7. FollowsInv
    BY <1>3, <1>6 DEF FollowsInv, Overlap, Reading
  <1> QED
    BY <1>4, <1>5, <1>6, <1>7 DEF FulfilmentInv

LEMMA RequestKeepsFulfilment == FulfilmentInv /\ [Change \/ Request]_allVars => FulfilmentInv'
  <1> SUFFICES ASSUME FulfilmentInv, [Change \/ Request]_allVars PROVE FulfilmentInv'
    OBVIOUS
  <1>1. CASE Request
    <2>1. PICK s \in Sessions : \/ Catalog!Load(s) \/ Catalog!ReadChains(s) \/ Catalog!Flush(s)
                               \/ Catalog!Commit(s) \/ Catalog!Abort(s)
      BY <1>1, Zenon DEF Request, Catalog!Next
    <2> QED
      BY <2>1, LoadKeepsFulfilment, ReadChainsKeepsFulfilment, FlushKeepsFulfilment,
          CommitKeepsFulfilment, AbortKeepsFulfilment
  <1>2. CASE Change \/ UNCHANGED allVars
    <2>1. /\ db' = db /\ page' = page /\ phase' = phase /\ seen' = seen /\ old' = old /\ new' = new
          /\ overruled' = overruled
      BY <1>2 DEF Change, allVars, requestVars
    <2>2. \A s \in Sessions : /\ LoadedOK(s)' <=> LoadedOK(s)
                              /\ FlushedOK(s)' <=> FlushedOK(s)
                              /\ Reading(s)' <=> Reading(s)
                              /\ \A i \in Items : HoldsChain(s, i)' <=> HoldsChain(s, i)
      BY <2>1 DEF LoadedOK, FlushedOK, Reading, HoldsChain
    <2>3. PagesOK' /\ PagesApart' /\ PagesTyped'
      BY <2>1, <2>2 DEF FulfilmentInv, PagesOK, PagesApart, PagesTyped
    <2> QED
      BY <2>1, <2>3 DEF FulfilmentInv
  <1> QED
    BY <1>1, <1>2

(* Nothing is fulfilled without its approval, whatever pages of a request  *)
(* run beside each other and however many its items, tasks and sessions    *)
(* are, but for an approval that a withdrawal overrules, having read the   *)
(* chain before it (overruled): decide_vote locks the chain it ends, and   *)
(* no other page takes an approval away (FulfilmentInv).                   *)
THEOREM CatalogFulfilmentIsAuthorized == MCSpec => []FulfilmentIsAuthorized
  <1>1. MCInit => FulfilmentInv
    BY InitFulfilment
  <1>2. FulfilmentInv /\ [Change \/ Request]_allVars => FulfilmentInv'
    BY RequestKeepsFulfilment
  <1>3. FulfilmentInv => FulfilmentIsAuthorized
    <2>1. ASSUME FulfilmentInv, NEW i \in Items, db.tasks[i] # <<>> \/ db.item[i] \in Fulfilled
          PROVE  db.chain[i] \in Authorizing \/ i \in overruled
      <3>1. PICK d \in Rows : d = db /\ Authorized(d, overruled)
        BY <2>1 DEF FulfilmentInv
      <3>2. PICK ts \in Seq(Task) : ts = d.tasks[i]
        BY RowsTyped
      <3>3. ts # <<>> => Len(ts) > 0
        OBVIOUS
      <3> QED
        BY <2>1, <3>1, <3>2, <3>3 DEF Authorized
    <2> QED
      BY <2>1, Zenon DEF FulfilmentIsAuthorized, Catalog!FulfilmentIsAuthorized, Fulfilled, Authorizing
  <1> QED
    BY <1>1, <1>2, <1>3, PTL DEF MCSpec

-----------------------------------------------------------------------------
(* Catalog requests: the REQ follows its items                             *)

LEMMA SameStates ==
    ASSUME NEW d, NEW e, d.request = e.request, \A i \in Items : d.item[i] = e.item[i] /\ d.chain[i] = e.chain[i],
           Consistent(d)
    PROVE  Consistent(e)
  <1>1. Catalog!Added(e) = Catalog!Added(d) /\ Catalog!Added(d) \subseteq Items
    BY DEF Catalog!Added
  <1>2. Outcomes(e) = Outcomes(d)
    BY <1>1 DEF Outcomes
  <1> QED
    BY <1>2 DEF Consistent, Follows, AllEnded, RunningAwaits

\* A page that is let in finds the REQ open if it may close it or adds to it.
LEMMA LoadedConsistent ==
    ASSUME NEW d \in Rows, Consistent(d), Unborn(d), NEW o \in Catalog!Requests(d), NEW n, n = Catalog!Apply(d, o)
    PROVE  Consistent(n)
  <1>1. /\ PageOK(o, d, {})
        /\ o.kind = "withdraw" => \E j \in Items : d.item[j] # "none" /\ d.item[j] \notin Catalog!ItemTerminal
        /\ o.kind = Order => d.request = "Open"
    BY RequestsAre
  <1>2. o.kind = "withdraw" => ~AllEnded(d)
    BY <1>1, EndedAre
  <1>3. o.kind = "withdraw" => d.request = "Open"
    BY <1>2 DEF Consistent, Follows
  <1> QED
    BY <1>1, <1>3, Applied

LEMMA AloneAt ==
    ASSUME NEW f, NEW s \in Sessions, ~Overlap(f), f[s] # "idle"
    PROVE  \A t \in Sessions \ {s} : f[t] = "idle"
  BY DEF Overlap

LEMMA RequestKeepsFollows ==
    ASSUME FulfilmentInv, FollowsInv, Request
    PROVE  FollowsInv'
  <1> SUFFICES ASSUME ~overlapped'
               PROVE  /\ ~Overlap(phase') /\ Consistent(db')
                      /\ \A t \in Sessions : Reading(t)' =>
                           page'[t] \in Catalog!Requests(db') /\ seen'[t] = db'
                      /\ \A t \in Sessions : phase'[t] = "flushed" =>
                           /\ old'[t].request = db'.request /\ old'[t].item = db'.item /\ old'[t].chain = db'.chain
                           /\ Consistent(new'[t])
    BY Zenon DEF FollowsInv
  <1>1. overlapped' = (overlapped \/ Overlap(phase')) /\ Catalog!Next
    BY Zenon DEF Request
  <1>2. ~overlapped /\ ~Overlap(phase')
    BY <1>1
  <1>3. /\ ~Overlap(phase) /\ Consistent(db)
        /\ \A s \in Sessions : Reading(s) => page[s] \in Catalog!Requests(db) /\ seen[s] = db
        /\ \A s \in Sessions : phase[s] = "flushed" =>
             /\ old[s].request = db.request /\ old[s].item = db.item /\ old[s].chain = db.chain
             /\ Consistent(new[s])
    BY <1>2 DEF FollowsInv
  <1>4. db \in Rows /\ Unborn(db) /\ PagesTyped /\ PagesOK
    BY DEF FulfilmentInv
  <1>5. PICK s \in Sessions : \/ Catalog!Load(s) \/ Catalog!ReadChains(s) \/ Catalog!Flush(s)
                             \/ Catalog!Commit(s) \/ Catalog!Abort(s)
    BY <1>1, Zenon DEF Catalog!Next
  <1>6. CASE Catalog!Load(s)
    <2>1. /\ phase'[s] = "loaded" /\ seen'[s] = db /\ page'[s] \in Catalog!Requests(db) /\ db' = db
      BY <1>4, <1>6, LoadMoves
    <2>2. \A t \in Sessions \ {s} : phase'[t] = "idle"
      BY <1>2, <2>1, AloneAt
    <2> QED
      BY <1>2, <1>3, <2>1, <2>2 DEF Reading
  <1>7. CASE Catalog!Flush(s)
    <2>1. /\ Reading(s) /\ phase'[s] = "flushed" /\ db' = db
          /\ old'[s] = Catalog!View(s) /\ new'[s] = Catalog!Apply(Catalog!View(s), page[s])
      BY <1>4, <1>7, FlushMoves
    <2>2. \A t \in Sessions \ {s} : phase'[t] = "idle"
      BY <1>2, <2>1, AloneAt
    <2>3. PICK d \in Rows : d = db
      BY <1>4
    <2>4. PICK o \in Catalog!Requests(d) : o = page[s]
      BY <1>3, <2>1, <2>3
    <2>5. PICK v : v = Catalog!View(s)
      OBVIOUS
    <2>6. v = d
      <3>1. PageOK(page[s], db, overruled) /\ LoadedOK(s) /\ seen[s] = db
        BY <1>3, <1>4, <2>1 DEF PagesOK, Reading
      <3> QED
        BY <1>4, <2>3, <2>5, <3>1, Viewed
    <2>7. PICK n : n = Catalog!Apply(d, o)
      OBVIOUS
    <2>8. Consistent(n)
      BY <1>3, <1>4, <2>3, <2>7, LoadedConsistent
    <2>9. old'[s] = d /\ new'[s] = n
      BY <2>1, <2>4, <2>5, <2>6, <2>7
    <2> QED
      BY <1>2, <1>3, <2>1, <2>2, <2>3, <2>8, <2>9 DEF Reading
  <1>8. CASE Catalog!Commit(s)
    <2>1. phase[s] = "flushed" /\ Catalog!Forget(s) /\ db' = Catalog!Merge(db, old[s], new[s])
      BY <1>8, Zenon DEF Catalog!Commit
    <2>2. phase'[s] = "idle" /\ \A t \in Sessions \ {s} : phase'[t] = phase[t]
      BY <1>4, <2>1, ForgetMoves
    <2>3. \A t \in Sessions : phase'[t] = "idle"
      BY <1>3, <2>1, <2>2, AloneAt
    <2>4. PICK d \in Rows, o \in Rows, n \in Rows :
            d = db /\ o = old[s] /\ n = new[s] /\ \A i \in Items : Len(n.tasks[i]) >= Len(o.tasks[i])
      BY <1>4, <2>1 DEF PagesOK, FlushedOK, Wrote, Changes
    <2>5. PICK e : e = db'
      OBVIOUS
    <2>6. e = Catalog!Merge(d, o, n)
      BY <2>1, <2>4, <2>5
    <2>7. MergedIn(d, o, n, e)
      BY <2>4, <2>6, Merged
    <2>8. o.request = d.request /\ o.item = d.item /\ o.chain = d.chain /\ Consistent(n)
      BY <1>3, <2>1, <2>4
    <2>9. n.request = e.request /\ \A i \in Items : n.item[i] = e.item[i] /\ n.chain[i] = e.chain[i]
      BY <2>7, <2>8 DEF MergedIn
    <2>10. Consistent(e)
      BY <2>8, <2>9, SameStates
    <2> QED
      BY <1>2, <2>3, <2>5, <2>10 DEF Reading
  <1>9. CASE Catalog!Abort(s)
    <2>1. phase[s] # "idle" /\ Catalog!Forget(s) /\ db' = db
      BY <1>9, Zenon DEF Catalog!Abort
    <2>2. phase'[s] = "idle" /\ \A t \in Sessions \ {s} : phase'[t] = phase[t]
      BY <1>4, <2>1, ForgetMoves
    <2>3. \A t \in Sessions : phase'[t] = "idle"
      BY <1>3, <2>1, <2>2, AloneAt
    <2> QED
      BY <1>2, <1>3, <2>1, <2>3 DEF Reading
  <1>10. CASE Catalog!ReadChains(s)
    <2>1. /\ phase[s] = "loaded" /\ phase'[s] = "checked" /\ db' = db /\ page' = page
          /\ seen'[s] = [seen[s] EXCEPT !.chain = db.chain]
      BY <1>4, <1>10, ReadChainsMoves
    <2>2. \A t \in Sessions \ {s} : phase'[t] = "idle"
      BY <1>2, <2>1, AloneAt
    <2>3. page[s] \in Catalog!Requests(db) /\ seen[s] = db
      BY <1>3, <2>1 DEF Reading
    <2>4. PICK d \in Rows : d = db
      BY <1>4
    <2>5. [d EXCEPT !.chain = d.chain] = d
      BY RowsTyped
    <2>6. seen'[s] = db
      BY <2>1, <2>3, <2>4, <2>5
    <2> QED
      BY <1>2, <1>3, <2>1, <2>2, <2>3, <2>6 DEF Reading
  <1> QED
    BY <1>5, <1>6, <1>7, <1>8, <1>9, <1>10

LEMMA StepKeepsFollows == FulfilmentInv /\ FollowsInv /\ [Change \/ Request]_allVars => FollowsInv'
  <1> SUFFICES ASSUME FulfilmentInv, FollowsInv, [Change \/ Request]_allVars PROVE FollowsInv'
    OBVIOUS
  <1>1. CASE Request
    BY <1>1, RequestKeepsFollows
  <1>2. CASE Change \/ UNCHANGED allVars
    <2>1. db' = db /\ page' = page /\ phase' = phase /\ seen' = seen /\ old' = old /\ new' = new
      BY <1>2 DEF Change, allVars, requestVars
    <2>2. overlapped' = (overlapped \/ Overlap(op')) \/ overlapped' = overlapped
      BY <1>2, Zenon DEF Change, allVars
    <2>3. ~overlapped' => ~overlapped
      BY <2>2
    <2> QED
      BY <2>1, <2>3 DEF FollowsInv, Reading
  <1> QED
    BY <1>1, <1>2

(* As long as no two pages of a request run at once, the REQ is Open while *)
(* one of its items is, and ends with the outcome of its items: every page *)
(* that closes an item settles the REQ (settle_request).                   *)
THEOREM CatalogRequestFollowsItsItems == MCSpec => []RequestFollowsItsItems
  <1>1. MCInit => FulfilmentInv /\ FollowsInv
    BY InitFulfilment
  <1>2. FulfilmentInv /\ [Change \/ Request]_allVars => FulfilmentInv'
    BY RequestKeepsFulfilment
  <1>3. FulfilmentInv /\ FollowsInv /\ [Change \/ Request]_allVars => FollowsInv'
    BY StepKeepsFollows
  <1>4. FollowsInv => RequestFollowsItsItems
    <2>1. Follows(db) => Catalog!RequestFollowsItems
      BY Zenon DEF Follows, AllEnded, Outcomes, Catalog!RequestFollowsItems
    <2> QED
      BY <2>1 DEF FollowsInv, RequestFollowsItsItems, Consistent
  <1> QED
    BY <1>1, <1>2, <1>3, <1>4, PTL DEF MCSpec
=============================================================================
