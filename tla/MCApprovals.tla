---------------------------- MODULE MCApprovals ----------------------------
(* What needs approval: in some behaviours a change, in the others a       *)
(* catalog request.                                                        *)
EXTENDS ChangeApproval, TLC

CONSTANTS Items, FirstItem, NeedsApproval, Kinds, MaxTasks
VARIABLES db, page, phase, seen, old, new, overruled

CONSTANTS s1, s2, u1, u2, u3, i1, i2
CONSTANTS
    Subjects,       \* a subset of {"change", "request"}
    Beside,         \* the entries to a change that may run beside another
    OverlapItems,   \* bound: items of a request on which two pages work at once
    Spared          \* bound: states of a task that are left out when they do

VARIABLES
    subject,      \* what this behaviour is about
    overlapped    \* whether two web requests have ever been open at once

Catalog == INSTANCE CatalogRequest WITH op <- page

ASSUME CatalogRequestAssumption == Catalog!ConstantsOK

requestVars == <<db, page, phase, seen, old, new, overruled>>
allVars == <<vars, requestVars, subject, overlapped>>

SessionSymmetry == Permutations(Sessions)

\* A team gate that needs a majority, then a unanimous pair.
TwoStageVoters == <<{u1, u2, u3}, {u1, u2}>>
TwoStageModes == <<"majority", "all">>
\* The smallest chain.
OneVoter == <<{u1}>>
OneMode == <<"all">>

MCInit == Init /\ Catalog!Init /\ subject \in Subjects /\ overlapped = FALSE

\* Two web requests are open at once.
Overlap(doing) == \E s, t \in Sessions : s # t /\ doing[s] # "idle" /\ doing[t] # "idle"

\* Somebody has decided in the chain.
Voted(c) == \E b \in Ballots : c.vote[b] \in Decisions

\* bound: once there is a third chain, votes are cast in two of them, and in one
\* when requests have overlapped.
VotedChains ==
    \/ Len(chains') < 3
    \/ Cardinality({i \in 1 .. Len(chains') : Voted(chains'[i])}) <= IF overlapped' THEN 1 ELSE 2

Change ==
    /\ subject = "change" /\ Next
    /\ Overlap(op') => \A s \in Sessions : op'[s] \in Beside \union {"idle"}
    /\ overlapped' = (overlapped \/ Overlap(op'))
    /\ VotedChains
    /\ UNCHANGED <<requestVars, subject>>

Request ==
    /\ subject = "request" /\ Catalog!Next
    /\ overlapped' = (overlapped \/ Overlap(phase'))
    /\ overlapped' => Catalog!Added(db') \subseteq OverlapItems
    /\ overlapped' => \A s \in Sessions : page'[s].to \notin Spared
    /\ UNCHANGED <<vars, subject>>

MCSpec == MCInit /\ [][Change \/ Request]_allVars

(* At most one chain of a change runs, also when two requests revise it at *)
(* the same time; and as long as requests do not overlap, a change that    *)
(* awaits approval has a chain that can still give it.                     *)
WaitsForOneChain == OneRunningChain /\ (~overlapped => AwaitingIsAsked)

(* As long as requests do not overlap, a change starts only with its       *)
(* latest chain Approved (transition_ticket).                              *)
StartsApproved ==
    [][ticket # "In Progress" /\ ticket' = "In Progress" /\ ~overlapped'
       => chains'[Len(chains')].state = "Approved"]_<<vars, overlapped>>

(* Nothing is fulfilled without its approval: CatalogRequest's             *)
(* FulfilmentIsAuthorized.                                                 *)
FulfilmentIsAuthorized == Catalog!FulfilmentIsAuthorized

(* As long as pages do not overlap, the REQ is Open while one of its items *)
(* is and ends with the outcome of its items (settle_request).             *)
RequestFollowsItsItems == ~overlapped => Catalog!RequestFollowsItems
=============================================================================
