--------------------------- MODULE CatalogRequest ---------------------------
(***************************************************************************)
(* One service request (REQ), its requested items (RITM), the approval of  *)
(* each, and the fulfilment tasks (SCTASK) of each: ordering, deciding,    *)
(* adding items and tasks, working on tasks, withdrawing, and settling the *)
(* REQ when its last item closes.                                          *)
(*                                                                         *)
(* What a page does is a function of the rows it sees (Withdraw, Update,   *)
(* ...).  A page runs in three steps: Load reads the rows it checks first, *)
(* Flush reads the rest and sends its UPDATEs, which lock the rows they    *)
(* write, and Commit publishes them.  decide_vote locks the chain in Load; *)
(* a withdrawal reads the chains in a step of its own and without a lock.  *)
(* An approval chain is reduced to its outcome; see ApprovalChains.        *)
(***************************************************************************)
EXTENDS Naturals, Sequences

CONSTANTS
    Items,          \* the items that are ordered, at once or later
    FirstItem,      \* the item the request was ordered with
    NeedsApproval,  \* those whose catalog entry asks for approval
    Sessions,       \* concurrent web requests
    Kinds,          \* the pages in use
    MaxTasks        \* bound: tasks of an item

AllKinds == {"withdraw", "update", "decide", "add item", "add task"}

ConstantsOK ==
    /\ FirstItem \in Items /\ NeedsApproval \subseteq Items
    /\ Kinds \subseteq AllKinds
    /\ MaxTasks \in Nat \ {0}

VARIABLES
    db,     \* the committed rows
    op,     \* what a session is doing, or Idle
    phase,  \* "idle", "loaded", "checked" or "flushed"
    seen,   \* the rows as they were when the session loaded the ones it checks
    old,    \* the rows the session computed its changes from
    new,    \* what it changed them to
    overruled   \* history: items whose approval a withdrawal wrote over, having
                \* read the chain before the approval was committed

vars == <<db, op, phase, seen, old, new, overruled>>

TaskClosed == {"Closed Complete", "Closed Incomplete", "Closed Skipped"}
TaskStates == {"Open", "Work in Progress", "Pending"} \union TaskClosed
\* ITEM_TERMINAL_STATES
ItemTerminal == {"Closed Complete", "Closed Incomplete", "Closed Skipped", "Rejected", "Cancelled"}
ItemStates == {"none", "Awaiting Approval", "Open", "Approved"} \union ItemTerminal
RequestFinal == {"Closed Complete", "Closed Incomplete", "Cancelled"}
ChainStates == {"none", "Running", "Approved", "Rejected", "Cancelled"}
\* after: the task that has to be completed first (CatalogTaskControl), or 0.
Task == [state: TaskStates, after: Nat]
Rows == [request: {"Open"} \union RequestFinal, item: [Items -> ItemStates],
         chain: [Items -> ChainStates], tasks: [Items -> Seq(Task)]]
Op == [kind: AllKinds, items: SUBSET Items, task: Nat, to: STRING]
Idle == [kind |-> "idle", items |-> {}, task |-> 0, to |-> ""]

TypeOK ==
    /\ db \in Rows
    /\ phase \in [Sessions -> {"idle", "loaded", "checked", "flushed"}]
    /\ overruled \in SUBSET Items
    /\ \A s \in Sessions : phase[s] # "idle" => op[s] \in Op /\ seen[s] \in Rows
    /\ \A s \in Sessions : phase[s] = "flushed" => old[s] \in Rows /\ new[s] \in Rows

-----------------------------------------------------------------------------
(* What the pages compute                                                  *)

NewTask(after) == [state |-> "Open", after |-> after]

\* create_catalog_task: an item that has tasks gets none.
FirstTask(tasks) == IF tasks = <<>> THEN <<NewTask(0)>> ELSE tasks

FinalState(states) ==
    IF states = {"Cancelled"} THEN "Cancelled"
    ELSE IF states \subseteq {"Closed Complete", "Cancelled"} THEN "Closed Complete"
    ELSE "Closed Incomplete"

SettleAtOnce(d) ==
    LET states == {d.item[i] : i \in Items} \ {"none"}
    IN [d EXCEPT !.request = FinalState(states)]

\* settle_request: the REQ closes once none of its items is still open.
Settle(d) ==
    LET states == {d.item[i] : i \in Items} \ {"none"}
    IN IF states \subseteq ItemTerminal THEN [d EXCEPT !.request = FinalState(states)] ELSE d

\* catalog_order, and request_item_add for the items ordered later.
AddItem(d, i) ==
    IF i \in NeedsApproval
    THEN [d EXCEPT !.item[i] = "Awaiting Approval", !.chain[i] = "Running"]
    ELSE [d EXCEPT !.item[i] = "Open", !.tasks[i] = FirstTask(@)]

\* decide_vote, for the vote that ends the chain.
Decide(d, i, outcome) ==
    IF outcome = "Rejected"
    THEN Settle([d EXCEPT !.chain[i] = "Rejected", !.item[i] = "Rejected"])
    ELSE [d EXCEPT !.chain[i] = "Approved", !.item[i] = "Approved", !.tasks[i] = FirstTask(@)]

\* catalog_task_add: a Sequential task follows the last one there is.
AddTask(d, i, mode) ==
    [d EXCEPT !.tasks[i] = Append(@, NewTask(IF mode = "Sequential" THEN Len(@) ELSE 0))]

\* catalog_task_update, past transition_catalog_task.
Update(d, i, k, state) ==
    LET d1 == [d EXCEPT !.tasks[i][k].state = state]
        states == {d1.tasks[i][j].state : j \in 1 .. Len(d1.tasks[i])}
    IN IF states = {"Closed Complete"} THEN Settle([d1 EXCEPT !.item[i] = "Closed Complete"])
       ELSE IF states \subseteq TaskClosed /\ "Closed Incomplete" \in states
       THEN Settle([d1 EXCEPT !.item[i] = "Closed Incomplete"])
       ELSE d1

\* Withdrawing skips the tasks that are still open.
SkipTasks(tasks) ==
    [k \in 1 .. Len(tasks) |->
        IF tasks[k].state \in TaskClosed THEN tasks[k] ELSE [tasks[k] EXCEPT !.state = "Closed Skipped"]]

WithdrawAnyChain(d, is) ==
    LET open == {i \in is : d.item[i] \notin ItemTerminal}
    IN Settle([d EXCEPT
           !.chain = [i \in Items |-> IF i \in open THEN "Cancelled" ELSE @[i]],
           !.tasks = [i \in Items |-> IF i \in open THEN SkipTasks(@[i]) ELSE @[i]],
           !.item = [i \in Items |-> IF i \in open THEN "Cancelled" ELSE @[i]]])

\* withdraw_item and withdraw_request.
Withdraw(d, is) ==
    LET open == {i \in is : d.item[i] \notin ItemTerminal}
    IN Settle([d EXCEPT
           !.chain = [i \in Items |-> IF i \in open /\ @[i] = "Running" THEN "Cancelled" ELSE @[i]],
           !.tasks = [i \in Items |-> IF i \in open THEN SkipTasks(@[i]) ELSE @[i]],
           !.item = [i \in Items |-> IF i \in open THEN "Cancelled" ELSE @[i]]])

Apply(d, o) ==
    LET i == CHOOSE j \in o.items : TRUE
    IN CASE o.kind = "withdraw" -> Withdraw(d, o.items)
         [] o.kind = "update" -> Update(d, i, o.task, o.to)
         [] o.kind = "decide" -> Decide(d, i, o.to)
         [] o.kind = "add item" -> AddItem(d, i)
         [] o.kind = "add task" -> AddTask(d, i, o.to)

-----------------------------------------------------------------------------
(* What the pages check                                                    *)

\* CATALOG_TASK_TRANSITIONS
TaskTransitions(state) ==
    {state} \union
    CASE state = "Open" -> {"Work in Progress", "Pending"} \union TaskClosed
      [] state = "Work in Progress" -> {"Pending"} \union TaskClosed
      [] state = "Pending" -> {"Work in Progress"} \union TaskClosed
      [] OTHER -> {}

\* Fulfilment waits for the approval, if the item asks for one.
Authorized(d, i) == d.chain[i] \in {"none", "Approved"}

\* transition_catalog_task.  A linked change that is not authorized yet may
\* refuse Work in Progress as well: the page is aborted.
MayTransition(d, i, k, state) ==
    LET task == d.tasks[i][k]
    IN /\ Authorized(d, i)
       /\ \/ task.after = 0 \/ state \in {"Open", "Closed Skipped"}
          \/ d.tasks[i][task.after].state = "Closed Complete"
       /\ state \in TaskTransitions(task.state)

Added(d) == {i \in Items : d.item[i] # "none"}

\* The requests that pass the checks of their page.
Requests(d) ==
    LET Some(kind, is, k, to) == [kind |-> kind, items |-> is, task |-> k, to |-> to]
        open == {i \in Added(d) : d.item[i] \notin ItemTerminal}
    IN {Some("withdraw", is, 0, "") :
          is \in {js \in {{i} : i \in Added(d)} \union {Added(d)} : js \intersect open # {}}}
       \union (UNION {{Some("update", {p[1]}, p[2], state) :
                        state \in {st \in TaskStates : MayTransition(d, p[1], p[2], st)}} :
                       p \in {q \in Added(d) \X (1 .. MaxTasks) : q[2] <= Len(d.tasks[q[1]])}})
       \union {Some("decide", {p[1]}, 0, p[2]) :
                 p \in {j \in Items : d.chain[j] = "Running"} \X {"Approved", "Rejected"}}
       \union {Some("add item", {i}, 0, "") : i \in {j \in Items \ Added(d) : d.request = "Open"}}
       \union {Some("add task", {p[1]}, 0, p[2]) :
                 p \in {j \in Added(d) : Authorized(d, j) /\ Len(d.tasks[j]) < MaxTasks}
                       \X {"Parallel", "Sequential"}}

-----------------------------------------------------------------------------
(* Sessions                                                                *)

Ordered ==
    AddItem([request |-> "Open", item |-> [i \in Items |-> "none"],
             chain |-> [i \in Items |-> "none"], tasks |-> [i \in Items |-> <<>>]], FirstItem)

Init ==
    /\ db = Ordered
    /\ op = [s \in Sessions |-> Idle]
    /\ phase = [s \in Sessions |-> "idle"]
    /\ seen = [s \in Sessions |-> Ordered]
    /\ old = [s \in Sessions |-> Ordered]
    /\ new = [s \in Sessions |-> Ordered]
    /\ overruled = {}

\* The rows an UPDATE of the session writes, or its SELECT FOR UPDATE locked.
Written(o, n) ==
    (IF o.request # n.request THEN {<<"request", 0>>} ELSE {})
    \union {<<"item", i>> : i \in {j \in Items : o.item[j] # n.item[j]}}
    \union {<<"chain", i>> : i \in {j \in Items : o.chain[j] # n.chain[j]}}
    \union {<<"task", p>> : p \in {q \in Items \X (1 .. MaxTasks) :
              /\ q[2] <= Len(o.tasks[q[1]]) /\ q[2] <= Len(n.tasks[q[1]])
              /\ o.tasks[q[1]][q[2]] # n.tasks[q[1]][q[2]]}}

LockedBy(s) ==
    (IF phase[s] = "flushed" THEN Written(old[s], new[s]) ELSE {})
    \union (IF phase[s] # "idle" /\ op[s].kind = "decide"
            THEN {<<"chain", i>> : i \in op[s].items} ELSE {})

LockedByOthers(s) == UNION {LockedBy(t) : t \in Sessions \ {s}}

\* The page checks the rows it loads first.  No two requests insert the same item.
Load(s) ==
    /\ phase[s] = "idle"
    /\ \E o \in Requests(db) :
         /\ o.kind \in Kinds
         /\ o.kind = "decide" => \A i \in o.items : <<"chain", i>> \notin LockedByOthers(s)
         /\ o.kind = "add item" =>
              \A t \in Sessions : phase[t] # "idle" => op[t].kind # "add item" \/ op[t].items # o.items
         /\ op' = [op EXCEPT ![s] = o]
    /\ phase' = [phase EXCEPT ![s] = "loaded"]
    /\ seen' = [seen EXCEPT ![s] = db]
    /\ UNCHANGED <<db, old, new, overruled>>

\* _withdraw reads the approval chains (approval_chain_for, a plain SELECT), and
\* cancels those it has read Running.
ReadChains(s) ==
    /\ phase[s] = "loaded" /\ op[s].kind = "withdraw"
    /\ phase' = [phase EXCEPT ![s] = "checked"]
    /\ seen' = [seen EXCEPT ![s].chain = db.chain]
    /\ UNCHANGED <<db, op, old, new, overruled>>

\* The rows the session works on: those of its checks as it loaded them, the
\* others as they are by now.
View(s) ==
    LET o == op[s]
        i == CHOOSE j \in o.items : TRUE
    IN CASE o.kind = "withdraw" ->
              [db EXCEPT !.request = seen[s].request,
                         !.item = [j \in Items |-> IF j \in o.items THEN seen[s].item[j] ELSE @[j]],
                         !.chain = [j \in Items |-> IF j \in o.items THEN seen[s].chain[j] ELSE @[j]]]
         [] o.kind = "update" -> [db EXCEPT !.tasks[i][o.task] = seen[s].tasks[i][o.task]]
         [] OTHER -> db

Flush(s) ==
    /\ phase[s] = IF op[s].kind = "withdraw" THEN "checked" ELSE "loaded"
    /\ old' = [old EXCEPT ![s] = View(s)]
    /\ new' = [new EXCEPT ![s] = Apply(View(s), op[s])]
    /\ Written(old'[s], new'[s]) \intersect LockedByOthers(s) = {}
    /\ phase' = [phase EXCEPT ![s] = "flushed"]
    /\ seen' = [seen EXCEPT ![s] = Ordered]
    /\ UNCHANGED <<db, op, overruled>>

\* The columns the session changed and the rows it added, over the others.
Merge(d, o, n) ==
    [request |-> IF n.request # o.request THEN n.request ELSE d.request,
     item |-> [i \in Items |-> IF n.item[i] # o.item[i] THEN n.item[i] ELSE d.item[i]],
     chain |-> [i \in Items |-> IF n.chain[i] # o.chain[i] THEN n.chain[i] ELSE d.chain[i]],
     tasks |-> [i \in Items |->
        [k \in 1 .. Len(d.tasks[i]) |->
            IF k <= Len(o.tasks[i]) /\ n.tasks[i][k] # o.tasks[i][k] THEN n.tasks[i][k] ELSE d.tasks[i][k]]
        \o SubSeq(n.tasks[i], Len(o.tasks[i]) + 1, Len(n.tasks[i]))]]

Forget(s) ==
    /\ phase' = [phase EXCEPT ![s] = "idle"]
    /\ op' = [op EXCEPT ![s] = Idle]
    /\ seen' = [seen EXCEPT ![s] = Ordered]
    /\ old' = [old EXCEPT ![s] = Ordered]
    /\ new' = [new EXCEPT ![s] = Ordered]

Commit(s) ==
    /\ phase[s] = "flushed"
    /\ db' = Merge(db, old[s], new[s])
    /\ \A i \in Items : Len(db'.tasks[i]) <= MaxTasks
    /\ overruled' = overruled \union {i \in Items : /\ db.chain[i] = "Approved"
                                                  /\ old[s].chain[i] = "Running"
                                                  /\ new[s].chain[i] = "Cancelled"}
    /\ Forget(s)

\* An error, a refused transition, or the victim of a deadlock: rolled back.
Abort(s) ==
    /\ phase[s] # "idle"
    /\ Forget(s)
    /\ UNCHANGED <<db, overruled>>

Next == \E s \in Sessions : Load(s) \/ ReadChains(s) \/ Flush(s) \/ Commit(s) \/ Abort(s)

Spec == Init /\ [][Next]_vars

-----------------------------------------------------------------------------
(* Properties                                                              *)

\* Nothing is fulfilled without its approval: the tasks of an item exist, and
\* the item is completed, only with no chain or an Approved one, or one whose
\* approval was overruled by a withdrawal that had read the chain too early.
\* decide_vote, withdrawal and the task pages keep it in any interleaving.
FulfilmentIsAuthorized ==
    \A i \in Items : db.tasks[i] # <<>> \/ db.item[i] \in {"Closed Complete", "Closed Incomplete"}
                     => db.chain[i] \in {"none", "Approved"} \/ i \in overruled

\* The REQ is Open while one of its items is, and has the outcome of its items
\* once none is.
RequestFollowsItems ==
    LET states == {db.item[i] : i \in Added(db)}
    IN db.request = IF states \subseteq ItemTerminal THEN FinalState(states) ELSE "Open"

=============================================================================
