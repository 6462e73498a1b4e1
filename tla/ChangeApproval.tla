--------------------------- MODULE ChangeApproval ---------------------------
(***************************************************************************)
(* The authorization of one change: its ticket row, the chains submitted   *)
(* for it (a material revision supersedes the latest and starts another),  *)
(* and the web requests that decide, revise, cancel, delete and progress   *)
(* it.  Requests run in different gunicorn workers: each loads the rows it *)
(* needs, computes, and flushes in its commit, under READ COMMITTED.       *)
(*                                                                         *)
(* Only two row locks are ever taken before the flush: decide_vote locks   *)
(* the chain and refreshes its rows, and the revising pages lock the       *)
(* ticket.  A decision is therefore one step here: nobody else can write   *)
(* the rows it read.  A decision that has to write the ticket while a      *)
(* revision holds it waits, each waits for the other, and PostgreSQL       *)
(* aborts one of them: Abort, or the decision that does not happen.        *)
(***************************************************************************)
EXTENDS ApprovalChains, Sequences

CONSTANTS
    Sessions,   \* concurrent web requests
    Entries,    \* the entry points in use: subset of Revisions \union {"transition", "delete"}
    MaxChains   \* bound: chains submitted for the change

\* The pages that revise a change: change_plan_update, the pages adding a task
\* or a configuration item, the reassignment form, and Google Chat /escalate.
Revisions == {"plan", "link", "reassign", "chat"}

ASSUME ChangeApprovalAssumption ==
    /\ Entries \subseteq Revisions \union {"transition", "delete"}
    /\ MaxChains \in Nat \ {0}
    /\ "none" \notin Sessions

VARIABLES
    ticket,   \* ticket.state
    deleted,  \* whether ticket.deleted_at is set
    chains,   \* the chains of the change in id order
    owner,    \* the session holding the ticket's row lock, or NoSession
    op,       \* what a session is doing, or "idle"
    tseen,    \* ticket.state as the session loaded it
    at,       \* the chain the session loaded (its position), 0 before
    cseen,    \* the rows of that chain as the session loaded them
    target    \* the state a transition moves the ticket to

vars == <<ticket, deleted, chains, owner, op, tseen, at, cseen, target>>
local == <<op, tseen, at, cseen, target>>

NoSession == "none"
Locked == {"Resolved", "Closed", "Cancelled"}
TicketStates ==
    {"Awaiting Approval", "Approved", "In Progress", "Pending", "Rejected"} \union Locked

TypeOK ==
    /\ ticket \in TicketStates
    /\ deleted \in BOOLEAN
    /\ chains \in Seq(Chain)
    /\ owner \in Sessions \union {NoSession}
    /\ op \in [Sessions -> Entries \union {"idle"}]
    /\ tseen \in [Sessions -> TicketStates]
    /\ at \in [Sessions -> Nat]
    /\ cseen \in [Sessions -> Chain]
    /\ target \in [Sessions -> TicketStates]

\* The change form commits the ticket together with its first chain.
Init ==
    /\ ticket = "Awaiting Approval"
    /\ deleted = FALSE
    /\ chains = <<NewChain>>
    /\ owner = NoSession
    /\ op = [s \in Sessions |-> "idle"]
    /\ tseen = [s \in Sessions |-> "Awaiting Approval"]
    /\ at = [s \in Sessions |-> 0]
    /\ cseen = [s \in Sessions |-> NewChain]
    /\ target = [s \in Sessions |-> "Awaiting Approval"]

Latest == Len(chains)

\* TICKET_TRANSITIONS, for the states of a change past its submission.
TicketTransitions(state) ==
    {state} \union
    CASE state = "In Progress" -> {"Pending", "Resolved", "Cancelled"}
      [] state = "Pending" -> {"In Progress", "Resolved", "Cancelled"}
      [] state = "Resolved" -> {"In Progress", "Closed"}
      [] state = "Approved" -> {"In Progress", "Cancelled"}
      [] state = "Awaiting Approval" -> {"Cancelled"}
      [] OTHER -> {}

AllowedAnyChain(state, chain) == TicketTransitions(state)

\* allowed_ticket_states, for a change with a chain.
AllowedTicketStates(state, chain) ==
    CASE chain.state = "Running" -> {state, "Cancelled"}
      [] chain.state = "Rejected" -> {"Rejected"}
      [] chain.state = "Cancelled" -> {"Cancelled"}
      [] OTHER -> TicketTransitions(state)

\* The session ends and its locals are forgotten.
Finish(s) ==
    /\ op' = [op EXCEPT ![s] = "idle"]
    /\ tseen' = [tseen EXCEPT ![s] = "Awaiting Approval"]
    /\ at' = [at EXCEPT ![s] = 0]
    /\ cseen' = [cseen EXCEPT ![s] = NewChain]
    /\ target' = [target EXCEPT ![s] = "Awaiting Approval"]
    /\ owner' = IF owner = s THEN NoSession ELSE owner

MayWriteTicket(s) == owner \in {NoSession, s}

-----------------------------------------------------------------------------
(* decide_vote                                                             *)

\* set_target_state, when the decision ends the chain.
TicketAfter(state, c) == IF c.state \in Decisions THEN c.state ELSE state

\* refresh_locked_approval locks the chain and reads its rows afresh, so the
\* decision is computed from the rows as they are when it commits.
Decide(i, b, decision) ==
    LET c == DecideVote(chains[i], b, decision)
    IN /\ Active(chains[i], b)
       /\ c.state \in Decisions => owner = NoSession
       /\ chains' = [chains EXCEPT ![i] = c]
       /\ ticket' = TicketAfter(ticket, c)
       /\ UNCHANGED <<deleted, owner, local>>

-----------------------------------------------------------------------------
(* Revisions: supersede_change_approval                                    *)

\* The states in which a page refuses to revise the change; the chat command
\* looks at none.
PlanRefused == {"In Progress", "Pending"} \union Locked
LinkRefused == Locked
ReassignRefused == Locked
ChatRefused == {}

Refused(entry) ==
    CASE entry = "plan" -> PlanRefused
      [] entry = "link" -> LinkRefused
      [] entry = "reassign" -> ReassignRefused
      [] entry = "chat" -> ChatRefused

\* The page is loaded.  The plan, task and configuration item pages lock the
\* ticket with the first query, the reassignment form only later.
BeginRevision(s, entry) ==
    /\ op[s] = "idle" /\ ~deleted
    /\ entry \in {"plan", "link"} => owner = NoSession
    /\ ticket \notin Refused(entry)
    /\ op' = [op EXCEPT ![s] = entry]
    /\ tseen' = [tseen EXCEPT ![s] = ticket]
    /\ owner' = IF entry \in {"plan", "link"} THEN s ELSE owner
    /\ UNCHANGED <<ticket, deleted, chains, at, cseen, target>>

\* The reassignment form locks and reloads the ticket; the check of its state
\* was made before.
LockForReassignment(s) ==
    /\ op[s] = "reassign" /\ owner = NoSession
    /\ owner' = s
    /\ tseen' = [tseen EXCEPT ![s] = ticket]
    /\ UNCHANGED <<ticket, deleted, chains, op, at, cseen, target>>

LoadChainUnlocked(s) ==
    /\ op[s] \in Revisions /\ at[s] = 0
    /\ op[s] = "link" => chains[Latest].state \in {"Running", "Approved"}
    /\ at' = [at EXCEPT ![s] = Latest]
    /\ cseen' = [cseen EXCEPT ![s] = chains[Latest]]
    /\ UNCHANGED <<ticket, deleted, chains, owner, op, tseen, target>>

\* approval_chain_for.  Adding a task or an item revises only a change whose
\* chain is Running or Approved.
LoadChain(s) ==
    /\ op[s] \in Revisions /\ at[s] = 0
    /\ op[s] # "chat" => owner = s
    /\ op[s] = "link" => chains[Latest].state \in {"Running", "Approved"}
    /\ at' = [at EXCEPT ![s] = Latest]
    /\ cseen' = [cseen EXCEPT ![s] = chains[Latest]]
    /\ UNCHANGED <<ticket, deleted, chains, owner, op, tseen, target>>

\* set_target_state writes the ticket only if the session saw another state.
CommitRevision(s) ==
    /\ op[s] \in Revisions /\ at[s] # 0 /\ MayWriteTicket(s)
    /\ Latest < MaxChains
    /\ chains' = Append([chains EXCEPT ![at[s]] = Merge(@, cseen[s], SupersedeChain(cseen[s]))],
                        NewChain)
    /\ ticket' = IF tseen[s] # "Awaiting Approval" THEN "Awaiting Approval" ELSE ticket
    /\ Finish(s)
    /\ UNCHANGED deleted

-----------------------------------------------------------------------------
(* transition_ticket and change_delete: no lock before the flush           *)

BeginTransition(s, state) ==
    /\ op[s] = "idle" /\ ~deleted
    /\ state \in AllowedTicketStates(ticket, chains[Latest])
    /\ op' = [op EXCEPT ![s] = "transition"]
    /\ tseen' = [tseen EXCEPT ![s] = ticket]
    /\ at' = [at EXCEPT ![s] = Latest]
    /\ cseen' = [cseen EXCEPT ![s] = chains[Latest]]
    /\ target' = [target EXCEPT ![s] = state]
    /\ UNCHANGED <<ticket, deleted, chains, owner>>

BeginDelete(s) ==
    /\ op[s] = "idle" /\ ~deleted
    /\ ticket = "Awaiting Approval"
    /\ op' = [op EXCEPT ![s] = "delete"]
    /\ tseen' = [tseen EXCEPT ![s] = ticket]
    /\ at' = [at EXCEPT ![s] = Latest]
    /\ cseen' = [cseen EXCEPT ![s] = chains[Latest]]
    /\ target' = [target EXCEPT ![s] = "Cancelled"]
    /\ UNCHANGED <<ticket, deleted, chains, owner>>

\* A state that is only saved again is not written.
Commit(s) ==
    /\ op[s] \in {"transition", "delete"} /\ MayWriteTicket(s)
    /\ ticket' = IF target[s] # tseen[s] THEN target[s] ELSE ticket
    /\ chains' = IF target[s] = "Cancelled"
                 THEN [chains EXCEPT ![at[s]] = Merge(@, cseen[s], CancelChain(cseen[s]))]
                 ELSE chains
    /\ deleted' = (deleted \/ op[s] = "delete")
    /\ Finish(s)

\* A failed check, an error, or the victim of a deadlock: rolled back.
Abort(s) ==
    /\ op[s] # "idle"
    /\ Finish(s)
    /\ UNCHANGED <<ticket, deleted, chains>>

-----------------------------------------------------------------------------
Next ==
    \/ \E i \in 1 .. Latest, b \in Ballots, decision \in Decisions : Decide(i, b, decision)
    \/ \E s \in Sessions :
         \/ \E entry \in Entries \intersect Revisions : BeginRevision(s, entry)
         \/ LockForReassignment(s) \/ LoadChain(s) \/ CommitRevision(s)
         \/ /\ "transition" \in Entries
            /\ \E state \in TicketStates : BeginTransition(s, state)
         \/ "delete" \in Entries /\ BeginDelete(s)
         \/ Commit(s) \/ Abort(s)

Spec == Init /\ [][Next]_vars

-----------------------------------------------------------------------------
(* Properties                                                              *)

\* The gates of a running chain are asked strictly in order, whichever votes
\* and requests were concurrent: Approved up to the one that is Requested, and
\* nobody is asked beyond it.
GatesInOrder(c) ==
    \E g \in Gates :
        /\ \A h \in Gates : c.gate[h] = IF h < g THEN "Approved"
                                        ELSE IF h = g THEN "Requested" ELSE "Pending"
        /\ \A b \in Ballots : b[1] > g => c.vote[b] = "Not Requested"

RunningInOrder == \A i \in 1 .. Latest : chains[i].state = "Running" => GatesInOrder(chains[i])

\* An Approved chain carries, in every gate, the approvals its mode asks for,
\* and no rejection: no race or late request leaves it with fewer.
ApprovedBallots(g, vote) == {b \in BallotsOf(g) : vote[b] = "Approved"}

Enough(g, vote) ==
    /\ \A b \in BallotsOf(g) : vote[b] # "Rejected"
    /\ Mode[g] = "any" => ApprovedBallots(g, vote) # {}
    /\ Mode[g] = "all" => ApprovedBallots(g, vote) = BallotsOf(g)
    /\ Mode[g] = "majority" =>
          2 * Cardinality(ApprovedBallots(g, vote)) > Cardinality(BallotsOf(g))

FullyApproved(c) == \A g \in Gates : c.gate[g] = "Approved" /\ Enough(g, c.vote)

ApprovedIsFullyApproved == \A i \in 1 .. Latest : chains[i].state = "Approved" => FullyApproved(chains[i])

\* At most one chain of a change is running: revising locks the ticket so that
\* two requests never each start a chain.
OneRunningChain ==
    \A i, j \in 1 .. Latest : chains[i].state = "Running" /\ chains[j].state = "Running" => i = j

\* A change that awaits approval has a chain that can still give it.
AwaitingIsAsked == ticket = "Awaiting Approval" => chains[Latest].state = "Running"

\* A change starts only with its latest chain Approved: transition_ticket asks
\* to "Complete the required approval chain" first.
StartedIsApproved ==
    [][ticket # "In Progress" /\ ticket' = "In Progress" => chains'[Len(chains')].state = "Approved"]_vars

=============================================================================
