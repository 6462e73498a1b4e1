--------------------------- MODULE ApprovalChains ---------------------------
(***************************************************************************)
(* Approval chains as values: the rows of approval_chain, approval_gate    *)
(* and approval_vote of one record, and what the application computes from *)
(* them.  A chain asks its gates one after the other; a gate is satisfied  *)
(* by one, all or a majority of its approvers; one rejection ends it all.  *)
(*                                                                         *)
(* The operators compute on the rows as a session has loaded them.  What   *)
(* reaches the database is given by Merge: the session writes back the     *)
(* columns it changed, over whatever other sessions committed meanwhile.   *)
(***************************************************************************)
EXTENDS Naturals, FiniteSets

CONSTANTS
    Stages,   \* number of gates of a chain
    Voters,   \* Voters[g]: the approvers of gate g
    Mode      \* Mode[g]: "any", "all" or "majority"

ASSUME ApprovalChainsAssumption ==
    /\ Stages \in Nat \ {0}
    /\ DOMAIN Voters = 1 .. Stages
    /\ Mode \in [1 .. Stages -> {"any", "all", "majority"}]
    /\ \A g \in 1 .. Stages : IsFiniteSet(Voters[g]) /\ Voters[g] # {}

Gates == 1 .. Stages
Ballots == {b \in Gates \X UNION {Voters[g] : g \in Gates} : b[2] \in Voters[b[1]]}
BallotsOf(g) == {b \in Ballots : b[1] = g}

OpenVotes == {"Not Requested", "Requested"}
OpenGates == {"Pending", "Requested"}
Decisions == {"Approved", "Rejected"}
VoteStates == OpenVotes \union Decisions \union {"No Longer Required"}
GateStates == OpenGates \union Decisions \union {"Cancelled", "Superseded"}
ChainStates == {"Running", "Approved", "Rejected", "Cancelled", "Superseded"}
Chain == [state: ChainStates, gate: [Gates -> GateStates], vote: [Ballots -> VoteStates]]

\* create_approval_chain: the first gate is activated at once.
NewChain ==
    [state |-> "Running",
     gate |-> [g \in Gates |-> IF g = 1 THEN "Requested" ELSE "Pending"],
     vote |-> [b \in Ballots |-> IF b[1] = 1 THEN "Requested" ELSE "Not Requested"]]

\* decide_vote refuses a vote that is not active.
Active(c, b) == c.state = "Running" /\ c.gate[b[1]] = "Requested" /\ c.vote[b] = "Requested"

GateCompleteByAny(g, vote) == \E b \in BallotsOf(g) : vote[b] = "Approved"

\* Whether decide_vote takes the gate for complete.
GateComplete(g, vote) ==
    LET approved == {b \in BallotsOf(g) : vote[b] = "Approved"}
        requested == {b \in BallotsOf(g) : vote[b] = "Requested"}
    IN \/ Mode[g] = "any" /\ approved # {}
       \/ Mode[g] = "all" /\ requested = {}
       \/ Mode[g] = "majority" /\ Cardinality(approved) >= Cardinality(BallotsOf(g)) \div 2 + 1

\* One rejection ends the chain: nobody else is still asked to decide.
RejectVote(c, b) ==
    [state |-> "Rejected",
     gate |-> [g \in Gates |-> IF g = b[1] THEN "Rejected"
                               ELSE IF c.gate[g] \in OpenGates THEN "Cancelled" ELSE c.gate[g]],
     vote |-> [v \in Ballots |-> IF v = b THEN "Rejected"
                                 ELSE IF c.vote[v] \in OpenVotes THEN "No Longer Required"
                                 ELSE c.vote[v]]]

\* The plausible mistake: the next gate is not activated.
PassGateIdle(c, g, vote) ==
    [state |-> IF g = Stages THEN "Approved" ELSE c.state,
     gate |-> [c.gate EXCEPT ![g] = "Approved"],
     vote |-> [v \in Ballots |->
                 IF v[1] = g /\ vote[v] = "Requested" THEN "No Longer Required" ELSE vote[v]]]

\* The gate is Approved; the next one is activated, or the chain is Approved.
PassGate(c, g, vote) ==
    [state |-> IF g = Stages THEN "Approved" ELSE c.state,
     gate |-> [h \in Gates |-> IF h = g THEN "Approved"
                               ELSE IF h = g + 1 THEN "Requested" ELSE c.gate[h]],
     vote |-> [v \in Ballots |->
                 IF v[1] = g /\ vote[v] = "Requested" THEN "No Longer Required"
                 ELSE IF v[1] = g + 1 THEN "Requested" ELSE vote[v]]]

ApproveVote(c, b) ==
    LET vote == [c.vote EXCEPT ![b] = "Approved"]
    IN IF GateComplete(b[1], vote) THEN PassGate(c, b[1], vote) ELSE [c EXCEPT !.vote = vote]

DecideVote(c, b, decision) ==
    IF decision = "Rejected" THEN RejectVote(c, b) ELSE ApproveVote(c, b)

\* What cancelling and superseding have in common.
EndChain(c, outcome) ==
    [state |-> outcome,
     gate |-> [g \in Gates |-> IF c.gate[g] \in OpenGates THEN outcome ELSE c.gate[g]],
     vote |-> [v \in Ballots |-> IF c.vote[v] \in OpenVotes THEN "No Longer Required" ELSE c.vote[v]]]

CancelChain(c) == IF c.state = "Running" THEN EndChain(c, "Cancelled") ELSE c

\* A final outcome (Rejected, Cancelled) stays on record.
SupersedeChain(c) == IF c.state \in {"Running", "Approved"} THEN EndChain(c, "Superseded") ELSE c

\* What the database holds after a session that loaded the rows as old and
\* changed them to new has flushed: the columns it did not change stay.
Merge(db, old, new) ==
    [state |-> IF new.state # old.state THEN new.state ELSE db.state,
     gate |-> [g \in Gates |-> IF new.gate[g] # old.gate[g] THEN new.gate[g] ELSE db.gate[g]],
     vote |-> [v \in Ballots |-> IF new.vote[v] # old.vote[v] THEN new.vote[v] ELSE db.vote[v]]]

=============================================================================
