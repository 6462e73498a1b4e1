---------------------------- MODULE RecordProofs ----------------------------
(***************************************************************************)
(* Proofs about the records that are written through many entries, for any *)
(* number of them and every bound: the precedence of the sources of a      *)
(* configuration item (Inventory), what a finished incident leaves behind  *)
(* and that parents make no loop (Incidents), and what a sprint reports    *)
(* and credits (Sprints).                                                  *)
(***************************************************************************)
EXTENDS MCRecords, FiniteSetTheorems, WellFoundedInduction, TLAPS

-----------------------------------------------------------------------------
(* Which source may write a column                                         *)

Entry == [val: Item!Contents, src: Item!Sources \cup {Item!None}, ext: Item!Importers \cup {Item!None}]

SourceTypeOK == order \in Orders /\ item \in Entry

\* The source that is remembered has written the present value, unless the
\* discovery has, which remembers nobody.
SourceInv ==
    /\ SourceTypeOK
    /\ item.val = Blank <=> writers = {}
    /\ writers # {} => "discovery" \in writers \/ (item.src # Item!None /\ item.src \in writers)

\* Ranks are numbers, and who is not listed ranks last.
LEMMA Ranks ==
    ASSUME order \in Orders
    PROVE  /\ Len(order) \in Nat
           /\ \A s : Item!Rank(s) \in 1 .. Len(order) + 1
           /\ Item!Rank("discovery") = Len(order) + 1
  <1>1. order \in Seq(Item!Sources) /\ Len(order) \in Nat /\ DOMAIN order = 1 .. Len(order)
    BY OrdersAssumption
  <1>2. \A i \in DOMAIN order : order[i] # "discovery"
    BY <1>1 DEF Item!Sources, Item!Importers
  <1>3. ASSUME NEW s PROVE Item!Rank(s) \in 1 .. Len(order) + 1
    <2>1. CASE \E i \in DOMAIN order : order[i] = s
      <3>1. Item!Rank(s) \in DOMAIN order
        BY <2>1 DEF Item!Rank
      <3> QED
        BY <1>1, <3>1
    <2>2. CASE ~ \E i \in DOMAIN order : order[i] = s
      BY <1>1, <2>2 DEF Item!Rank
    <2> QED
      BY <2>1, <2>2
  <1>4. Item!Rank("discovery") = Len(order) + 1
    BY <1>2 DEF Item!Rank
  <1> QED
    BY <1>1, <1>3, <1>4

LEMMA NobodyOutranksItself ==
    ASSUME order \in Orders
    PROVE  /\ \A s : ~Item!Outranks(s, s)
           /\ \A s : ~Item!Outranks("discovery", s)
  <1>1. \A n \in Nat : \A k \in 1 .. n + 1 : ~(k < k) /\ ~(n + 1 < k)
    OBVIOUS
  <1> QED
    BY <1>1, Ranks DEF Item!Outranks

\* What source s may make of an item: it leaves its name, or that of the source
\* before when the value is the same, and changes no value of a higher source.
Takes(it, x, s) ==
    /\ x \in Entry
    /\ x.val = it.val => x.src \in {it.src, IF x.val = Blank THEN Item!None ELSE s}
    /\ x.val # it.val =>
         /\ x.src = IF x.val = Blank THEN Item!None ELSE s
         /\ s \in Item!Importers => it.val = Blank \/ it.src \in {Item!None, s} \/ ~Item!Outranks(it.src, s)

\* mark and arbitrate.
LEMMA ArbitrateFacts ==
    ASSUME NEW it \in Entry, NEW m \in Entry, NEW s \in Item!Importers,
           m.val = it.val => m.src \in {it.src, IF m.val = Blank THEN Item!None ELSE s},
           m.val # it.val => m.src = IF m.val = Blank THEN Item!None ELSE s
    PROVE  Takes(it, Item!Arbitrate(m, it, s), s)
  <1>1. PICK a : a = [m EXCEPT !.val = it.val, !.src = it.src]
    OBVIOUS
  <1>2. a \in Entry /\ a.val = it.val /\ a.src = it.src
    BY <1>1 DEF Entry
  <1>3. Item!Arbitrate(m, it, s) = IF Item!Kept(m, it, s) THEN a ELSE m
    BY <1>1 DEF Item!Arbitrate
  <1>4. ~Item!Kept(m, it, s) /\ m.val # it.val =>
            it.val = Blank \/ it.src \in {Item!None, s} \/ ~Item!Outranks(it.src, s)
    BY DEF Item!Kept
  <1> QED
    BY <1>2, <1>3, <1>4 DEF Takes

LEMMA MarkFacts ==
    ASSUME NEW it \in Entry, NEW v \in Item!Contents, NEW s \in Item!Sources
    PROVE  /\ [it EXCEPT !.val = v] \in Entry
           /\ LET m == Item!Mark([it EXCEPT !.val = v], s) IN
              m \in Entry /\ m.val = v /\ m.src = (IF v = Blank THEN Item!None ELSE s)
           /\ LET m == Item!MarkChanged([it EXCEPT !.val = v], it, s) IN
              m \in Entry /\ m.val = v /\ m.src = (IF v = it.val THEN it.src ELSE IF v = Blank THEN Item!None ELSE s)
  <1>1. PICK x : x = [it EXCEPT !.val = v]
    OBVIOUS
  <1>2. x \in Entry /\ x.val = v /\ x.src = it.src
    BY <1>1 DEF Entry
  <1>3. PICK m : m = Item!Mark(x, s)
    OBVIOUS
  <1>4. m \in Entry /\ m.val = v /\ m.src = (IF v = Blank THEN Item!None ELSE s)
    BY <1>2, <1>3 DEF Item!Mark, Entry
  <1>5. Item!MarkChanged(x, it, s) = IF v = it.val THEN x ELSE m
    BY <1>2, <1>3 DEF Item!MarkChanged
  <1> QED
    BY <1>1, <1>2, <1>3, <1>4, <1>5

LEMMA WrittenFacts ==
    ASSUME NEW it \in Entry, NEW w \in BOOLEAN, NEW v \in Item!Contents, NEW s \in Item!Importers
    PROVE  Takes(it, Item!Written(it, w, v, s), s)
  <1>1. PICK m : m = Item!Mark([it EXCEPT !.val = v], s)
    OBVIOUS
  <1>2. m \in Entry /\ m.val = v /\ m.src = (IF v = Blank THEN Item!None ELSE s)
    BY <1>1, MarkFacts DEF Item!Sources
  <1>3. Takes(it, Item!Arbitrate(m, it, s), s)
    BY <1>2, ArbitrateFacts
  <1>4. Takes(it, it, s)
    BY DEF Takes
  <1> QED
    BY <1>1, <1>3, <1>4 DEF Item!Written

LEMMA TakesOwner ==
    ASSUME NEW it \in Entry, NEW x, NEW s, Takes(it, x, s), NEW e \in Item!Importers \cup {Item!None}
    PROVE  Takes(it, [x EXCEPT !.ext = e], s)
  <1>1. PICK y : y = [x EXCEPT !.ext = e]
    OBVIOUS
  <1>2. y \in Entry /\ y.val = x.val /\ y.src = x.src
    BY <1>1 DEF Takes, Entry
  <1> QED
    BY <1>1, <1>2 DEF Takes

\* The imports keep the precedence, whatever they find.
LEMMA ImportTakes ==
    ASSUME SourceTypeOK, NEW s \in Item!Importers, NEW v \in Item!Contents
    PROVE  Takes(item, Item!From(s, item, v), s)
  <1>0. PICK it \in Entry : it = item
    BY DEF SourceTypeOK
  <1>1. Takes(it, Item!FromNetbox(it, v), "netbox")
    <2>1. PICK w \in BOOLEAN : w = (column \in Hardware \/ (column \in Reported /\ v # Blank))
      OBVIOUS
    <2>2. PICK x : x = Item!Written(it, w, v, "netbox")
      OBVIOUS
    <2>3. Takes(it, x, "netbox")
      BY <2>2, WrittenFacts DEF Item!Importers
    <2>4. Takes(it, [x EXCEPT !.ext = "netbox"], "netbox")
      BY <2>3, TakesOwner DEF Item!Importers
    <2> QED
      BY <2>1, <2>2, <2>4 DEF Item!FromNetbox
  <1>2. Takes(it, Item!FromSnipeit(it, v), "snipeit")
    <2>1. PICK w \in BOOLEAN : w = (column \in Purchase /\ v # Blank)
      OBVIOUS
    <2>2. PICK u \in BOOLEAN : u = (\/ column \in Asset \cup Reported /\ v # Blank
                                    \/ column \in Asset /\ v = Blank /\ Item!MayClear(it))
      OBVIOUS
    <2>3. PICK x : x = Item!Written(it, u, v, "snipeit")
      OBVIOUS
    <2>4. Takes(it, x, "snipeit") /\ Takes(it, Item!Written(it, w, v, "snipeit"), "snipeit")
      BY <2>3, WrittenFacts DEF Item!Importers
    <2>5. Takes(it, [x EXCEPT !.ext = "snipeit"], "snipeit")
      BY <2>4, TakesOwner DEF Item!Importers
    <2>6. Item!FromSnipeit(it, v) \in {Item!Written(it, w, v, "snipeit"), [x EXCEPT !.ext = "snipeit"]}
      BY <2>1, <2>2, <2>3 DEF Item!FromSnipeit
    <2> QED
      BY <2>4, <2>5, <2>6
  <1>3. Takes(it, Item!FromCsv(it, v), "csv")
    <2>1. PICK put : put = IF v = Blank \/ (column \in Item!OwnedBy(it.ext) /\ Item!Outranks(it.ext, "csv"))
                           THEN it ELSE [it EXCEPT !.val = v]
      OBVIOUS
    <2>2. PICK m : m = Item!MarkChanged(put, it, "csv")
      OBVIOUS
    <2>3. /\ m \in Entry
          /\ m.val = it.val => m.src = it.src
          /\ m.val # it.val => m.src = IF m.val = Blank THEN Item!None ELSE "csv"
      <3>1. CASE put = it
        BY <2>2, <3>1 DEF Item!MarkChanged
      <3>2. CASE put = [it EXCEPT !.val = v]
        BY <2>2, <3>2, MarkFacts DEF Item!Sources, Item!Importers
      <3> QED
        BY <2>1, <3>1, <3>2
    <2>4. PICK x : x = Item!Arbitrate(m, it, "csv")
      OBVIOUS
    <2>5. Takes(it, x, "csv")
      BY <2>3, <2>4, ArbitrateFacts DEF Item!Importers
    <2>6. PICK e : e = IF x.ext = Item!None THEN "csv" ELSE x.ext
      OBVIOUS
    <2>7. e \in Item!Importers \cup {Item!None}
      BY <2>5, <2>6 DEF Takes, Entry, Item!Importers
    <2>8. Takes(it, [x EXCEPT !.ext = e], "csv")
      BY <2>5, <2>7, TakesOwner
    <2>9. Item!FromCsv(it, v) = [x EXCEPT !.ext = e]
      BY <2>1, <2>2, <2>4, <2>6 DEF Item!FromCsv
    <2> QED
      BY <2>8, <2>9
  <1> QED
    BY <1>0, <1>1, <1>2, <1>3 DEF Item!From, Item!Importers

LEMMA BecomeKeeps ==
    ASSUME SourceInv, NEW s \in Item!Sources, NEW x, Takes(item, x, s), Item!Become(x, s)
    PROVE  SourceInv'
  <1>1. item' = x /\ order' = order /\ x \in Entry
    BY DEF Item!Become, Takes
  <1>2. writers' = IF x.val = Blank THEN {} ELSE IF x.val # item.val THEN {s}
                   ELSE IF x.src = s THEN writers \cup {s} ELSE writers
    BY DEF Item!Become
  <1>3. s # Item!None
    BY DEF Item!Sources, Item!Importers, Item!None
  <1>4. x.val = Blank <=> writers' = {}
    BY <1>2 DEF SourceInv
  <1>5. writers' # {} => "discovery" \in writers' \/ (x.src # Item!None /\ x.src \in writers')
    BY <1>2, <1>3 DEF Takes, SourceInv
  <1> QED
    BY <1>1, <1>4, <1>5 DEF SourceInv, SourceTypeOK

\* For any columns, values and orders of precedence, through every sequence of
\* imports, edits, discoveries and changes of the order: an import changes a
\* value only if one of those who wrote it does not rank higher (arbitrate).
THEOREM ImportsKeepPrecedence == Item!Spec => []PrecedenceKept
  <1>1. Item!Init => SourceInv
    <2>1. ASSUME Item!Init PROVE SourceInv
      <3>1. item = [val |-> Blank, src |-> Item!None, ext |-> Item!None] /\ order \in Orders /\ writers = {}
        BY <2>1 DEF Item!Init
      <3>2. item \in Entry /\ item.val = Blank
        BY <3>1 DEF Entry, Item!Contents
      <3> QED
        BY <3>1, <3>2 DEF SourceInv, SourceTypeOK
    <2> QED
      BY <2>1
  <1>2. SourceInv /\ [Item!Next]_(Item!vars) => SourceInv'
    <2> SUFFICES ASSUME SourceInv, [Item!Next]_(Item!vars) PROVE SourceInv'
      OBVIOUS
    <2>1. CASE UNCHANGED Item!vars
      BY <2>1 DEF SourceInv, SourceTypeOK, Item!vars
    <2>2. ASSUME NEW s \in Item!Importers, Item!Import(s) PROVE SourceInv'
      BY <2>2, ImportTakes, BecomeKeeps DEF Item!Import, SourceInv, Item!Sources
    <2>3. CASE Item!Edit
      <3>1. PICK v \in Item!Contents :
                Item!Become(Item!MarkChanged([item EXCEPT !.val = v], item, "manual"), "manual")
        BY <2>3 DEF Item!Edit
      <3>2. PICK x : x = Item!MarkChanged([item EXCEPT !.val = v], item, "manual")
        OBVIOUS
      <3>3. /\ x \in Entry /\ x.val = v
            /\ x.src = (IF v = item.val THEN item.src ELSE IF v = Blank THEN Item!None ELSE "manual")
        BY <3>2, MarkFacts DEF SourceInv, SourceTypeOK, Item!Sources
      <3>4. Takes(item, x, "manual")
        BY <3>3 DEF Takes, Item!Importers
      <3> QED
        BY <3>1, <3>2, <3>4, BecomeKeeps DEF Item!Sources
    <2>4. CASE Item!Discover
      <3>1. PICK v \in Values : Item!Become([item EXCEPT !.val = v], "discovery")
        BY <2>4 DEF Item!Discover
      <3>2. PICK x : x = [item EXCEPT !.val = v]
        OBVIOUS
      <3>3. x \in Entry /\ x.val = v /\ x.src = item.src
        BY <3>2 DEF SourceInv, SourceTypeOK, Entry, Item!Contents
      <3>4. item' = x /\ order' = order
        BY <3>1, <3>2 DEF Item!Become
      <3>5. writers' = IF v = Blank THEN {} ELSE IF v # item.val THEN {"discovery"}
                       ELSE IF x.src = "discovery" THEN writers \cup {"discovery"} ELSE writers
        BY <3>1, <3>2, <3>3 DEF Item!Become
      <3> QED
        BY <3>3, <3>4, <3>5 DEF SourceInv, SourceTypeOK
    <2>5. CASE Item!SetOrder
      BY <2>5 DEF Item!SetOrder, SourceInv, SourceTypeOK
    <2> QED
      BY <2>1, <2>2, <2>3, <2>4, <2>5 DEF Item!Next
  <1>3. SourceInv => PrecedenceKept
    <2> SUFFICES ASSUME SourceInv, NEW s \in Item!Importers, NEW v \in Item!Contents,
                        Item!From(s, item, v).val # item.val, writers # {}
                 PROVE  \E t \in writers : ~Item!Outranks(t, s)
      BY DEF PrecedenceKept, Item!PrecedenceKept
    <2>1. item.val # Blank /\ order \in Orders /\ Takes(item, Item!From(s, item, v), s)
      BY ImportTakes DEF SourceInv, SourceTypeOK
    <2>2. item.src \in {Item!None, s} \/ ~Item!Outranks(item.src, s)
      BY <2>1 DEF Takes
    <2> QED
      BY <2>1, <2>2, NobodyOutranksItself DEF SourceInv
  <1> QED
    BY <1>1, <1>2, <1>3, PTL DEF Item!Spec

-----------------------------------------------------------------------------
(* What belongs to an incident                                             *)

MovePage == [page: {"move"}, i: Incidents, to: States, reason: HoldReasons \cup {"none"},
             read: {row \in Row : row.state \in States}, stale: BOOLEAN]
ParentPage == [page: {"parent"}, i: Incidents, to: Incidents, stale: BOOLEAN]
TaskPage == [page: {"task"}, i: Incidents, k: Nat, to: TaskStates, stale: BOOLEAN]

RowTypeOK ==
    /\ inc \in [Incidents -> Row]
    /\ tasks \in [Incidents -> Seq(Task)]
    /\ outage \in [Incidents -> BOOLEAN]
    /\ followed \subseteq Incidents

\* Until another page commits, the open one has read what the tables hold, and
\* its checks hold.
OpenInv ==
    /\ open \in {Idle} \cup MovePage \cup ParentPage \cup TaskPage
    /\ open.page = "task" => open.k \in DOMAIN tasks[open.i]
    /\ open.page = "move" /\ ~open.stale => open.read = inc[open.i] /\ MayMove(open.i, open.to)
    /\ open.page = "task" /\ ~open.stale => tasks[open.i][open.k].state = "Open"

FinishInv == RowTypeOK /\ OpenInv /\ FinishedIsComplete

FieldsOK(row) ==
    /\ row.hold # "none" <=> row.state = "Pending"
    /\ row.resolved <=> row.state \in {"Resolved", "Closed"}
NoneUnfinished(ts) == \A k \in DOMAIN ts : ~Unfinished(ts[k])

\* Only what is not resolved is cancelled, and what is closed or cancelled stays.
LEMMA Transitions ==
    ASSUME NEW s \in States
    PROVE  /\ TicketTransitions[s] \subseteq States
           /\ "Cancelled" \in TicketTransitions[s] => s \notin {"Resolved", "Closed"}
  BY DEF TicketTransitions, States, Finished

LEMMA ResolutionRecorded ==
    ASSUME NEW b \in BOOLEAN, NEW s \in States, NEW to \in States
    PROVE  /\ RecordResolution(b, s, to) \in BOOLEAN
           /\ (b <=> s \in {"Resolved", "Closed"}) /\ to \in TicketTransitions[s]
                => (RecordResolution(b, s, to) <=> to \in {"Resolved", "Closed"})
  <1>1. CASE to = s
    BY <1>1 DEF RecordResolution
  <1>2. CASE to # s /\ to \in {"Resolved", "Closed"}
    BY <1>2 DEF RecordResolution
  <1>3. CASE to # s /\ to = "Cancelled"
    <2>1. RecordResolution(b, s, to) = b
      BY <1>3 DEF RecordResolution
    <2> QED
      BY <1>3, <2>1, Transitions
  <1>4. CASE to # s /\ to \notin {"Resolved", "Closed", "Cancelled"}
    BY <1>4 DEF RecordResolution
  <1> QED
    BY <1>1, <1>2, <1>3, <1>4

\* The row after transition_ticket.
LEMMA MovedFacts ==
    ASSUME NEW row \in Row, row.state \in States, NEW to \in States, NEW reason \in HoldReasons \cup {"none"}
    PROVE  LET m == Moved(row, to, reason) IN
           /\ m \in Row /\ m.state = to /\ m.affects = row.affects
           /\ FieldsOK(row) /\ to \in TicketTransitions[row.state] => FieldsOK(m)
  <1>1. PICK h : h = IF to # "Pending" THEN "none"
                     ELSE IF reason # "none" THEN reason
                     ELSE IF row.state = "Pending" THEN row.hold
                     ELSE "caller"
    OBVIOUS
  <1>2. PICK b : b = RecordResolution(row.resolved, row.state, to)
    OBVIOUS
  <1>3. row.resolved \in BOOLEAN /\ row.hold \in HoldReasons \cup {"none"}
    BY DEF Row
  <1>4. b \in BOOLEAN
    BY <1>2, <1>3, ResolutionRecorded
  <1>5. h \in HoldReasons \cup {"none"}
    BY <1>1, <1>3, IncidentsAssumption
  <1>6. PICK m : m = [row EXCEPT !.state = to, !.hold = h, !.resolved = b]
    OBVIOUS
  <1>7. m \in Row /\ m.state = to /\ m.hold = h /\ m.resolved = b /\ m.affects = row.affects
    BY <1>4, <1>5, <1>6 DEF Row
  <1>8. Moved(row, to, reason) = m
    BY <1>1, <1>2, <1>6 DEF Moved
  <1>9. ASSUME FieldsOK(row), to \in TicketTransitions[row.state] PROVE FieldsOK(m)
    <2>1. h # "none" <=> to = "Pending"
      BY <1>1, <1>9, IncidentsAssumption DEF FieldsOK
    <2>2. b <=> to \in {"Resolved", "Closed"}
      BY <1>2, <1>3, <1>9, ResolutionRecorded DEF FieldsOK
    <2> QED
      BY <1>7, <2>1, <2>2 DEF FieldsOK
  <1> QED
    BY <1>7, <1>8, <1>9

\* The row of a child that follows p.
LEMMA SyncedFacts ==
    ASSUME NEW row \in Row, row.state \in States, NEW p \in Row, p.state \in States
    PROVE  LET m == Synced(row, p) IN
           /\ m \in Row /\ m.state = p.state /\ m.affects = row.affects
           /\ FieldsOK(row) /\ FieldsOK(p) /\ p.state \in TicketTransitions[row.state] => FieldsOK(m)
  <1>1. PICK h : h = IF p.state = "Pending" THEN p.hold ELSE "none"
    OBVIOUS
  <1>2. PICK b : b = RecordResolution(row.resolved, row.state, p.state)
    OBVIOUS
  <1>3. row.resolved \in BOOLEAN /\ h \in HoldReasons \cup {"none"}
    BY <1>1 DEF Row
  <1>4. b \in BOOLEAN
    BY <1>2, <1>3, ResolutionRecorded
  <1>5. PICK m : m = [row EXCEPT !.state = p.state, !.hold = h, !.resolved = b]
    OBVIOUS
  <1>6. m \in Row /\ m.state = p.state /\ m.hold = h /\ m.resolved = b /\ m.affects = row.affects
    BY <1>3, <1>4, <1>5 DEF Row
  <1>7. Synced(row, p) = m
    BY <1>1, <1>2, <1>5 DEF Synced
  <1>8. ASSUME FieldsOK(row), FieldsOK(p), p.state \in TicketTransitions[row.state] PROVE FieldsOK(m)
    <2>1. h # "none" <=> p.state = "Pending"
      BY <1>1, <1>8 DEF FieldsOK
    <2>2. b <=> p.state \in {"Resolved", "Closed"}
      BY <1>2, <1>3, <1>8, ResolutionRecorded DEF FieldsOK
    <2> QED
      BY <1>6, <2>1, <2>2 DEF FieldsOK
  <1> QED
    BY <1>6, <1>7, <1>8

\* Columns that were not changed keep what the table holds.
LEMMA ColumnsWritten ==
    ASSUME NEW read \in Row, NEW new \in Row, NEW held \in Row
    PROVE  LET w == Written(read, new, held) IN
           /\ w \in Row /\ w.state = IF new.state # read.state THEN new.state ELSE held.state
           /\ read = held => w.state = new.state /\ w.hold = new.hold /\ w.resolved = new.resolved
  <1> DEFINE Pick(f) == IF new[f] # read[f] THEN new[f] ELSE held[f]
  <1>1. DOMAIN held = {"state", "hold", "resolved", "affects"}
    BY DEF Row
  <1>2. PICK w : w = [f \in {"state", "hold", "resolved", "affects"} |-> Pick(f)]
    OBVIOUS
  <1>3. Written(read, new, held) = w
    BY <1>1, <1>2 DEF Written
  <1>4. /\ w.state = IF new.state # read.state THEN new.state ELSE held.state
        /\ w.hold = IF new.hold # read.hold THEN new.hold ELSE held.hold
        /\ w.resolved = IF new.resolved # read.resolved THEN new.resolved ELSE held.resolved
        /\ w.affects = IF new.affects # read.affects THEN new.affects ELSE held.affects
    BY <1>2
  <1>5. w = [state |-> w.state, hold |-> w.hold, resolved |-> w.resolved, affects |-> w.affects]
    BY <1>2
  <1>6. w \in Row
    BY <1>4, <1>5 DEF Row
  <1> QED
    BY <1>3, <1>4, <1>6

\* cancel_open_child_tasks.
LEMMA TasksCancelled ==
    ASSUME NEW ts \in Seq(Task)
    PROVE  /\ CancelOpen(ts) \in Seq(Task) /\ DOMAIN CancelOpen(ts) = DOMAIN ts
           /\ NoneUnfinished(CancelOpen(ts)) /\ ~RequiredOpen(CancelOpen(ts))
  <1>1. Len(ts) \in Nat /\ DOMAIN ts = 1 .. Len(ts) /\ \A k \in DOMAIN ts : ts[k] \in Task
    OBVIOUS
  <1>2. \A x \in Task : /\ [x EXCEPT !.state = "Cancelled"] \in Task
                        /\ [x EXCEPT !.state = "Cancelled"].state = "Cancelled"
    BY DEF Task, TaskStates
  <1>3. PICK c : c = CancelOpen(ts)
    OBVIOUS
  <1>4. DOMAIN c = DOMAIN ts /\ \A k \in DOMAIN c : c[k] \in Task /\ ~Unfinished(c[k])
    BY <1>1, <1>2, <1>3 DEF CancelOpen, Unfinished
  <1>5. c = [k \in 1 .. Len(ts) |-> c[k]]
    BY <1>1, <1>3 DEF CancelOpen
  <1>6. c \in [1 .. Len(ts) -> Task]
    BY <1>1, <1>4, <1>5
  <1>7. c \in Seq(Task)
    BY <1>1, <1>6
  <1> QED
    BY <1>3, <1>4, <1>7 DEF NoneUnfinished, RequiredOpen

\* A transition written from rows that are still so, or by a page that was
\* overtaken.
LEMMA WriteKeeps ==
    ASSUME RowTypeOK, FinishedIsComplete, NEW i \in Incidents, NEW read \in Row, read.state \in States,
           NEW to \in States, NEW reason \in HoldReasons \cup {"none"},
           NEW affects \in BOOLEAN, NEW resync \in BOOLEAN,
           Write(i, read, to, reason, affects, resync), raced \subseteq raced',
           (read = inc[i] /\ MayMove(i, to)) \/ "move" \in raced'
    PROVE  RowTypeOK' /\ FinishedIsComplete' /\ \A x \in Incidents : DOMAIN tasks'[x] = DOMAIN tasks[x]
  <1>0. \A x \in Incidents : inc[x] \in Row /\ tasks[x] \in Seq(Task)
    BY DEF RowTypeOK
  <1>1. PICK m : m = Moved(read, to, reason)
    OBVIOUS
  <1>2. /\ m \in Row /\ m.state = to
        /\ FieldsOK(read) /\ to \in TicketTransitions[read.state] => FieldsOK(m)
    BY <1>1, MovedFacts
  <1>3. PICK final : final = [m EXCEPT !.affects = affects]
    OBVIOUS
  <1>4. final \in Row /\ final.state = to /\ final.hold = m.hold /\ final.resolved = m.resolved
    BY <1>2, <1>3 DEF Row
  <1>5. PICK fol : fol = Followers(i, to, links)
    OBVIOUS
  <1>6. /\ fol \subseteq Incidents /\ i \notin fol
        /\ \A c \in fol : inc[c].state \in States /\ to \in TicketTransitions[inc[c].state]
    BY <1>0, <1>5 DEF Followers, Exists, Row
  <1>7. PICK wr : wr = Written(read, final, inc[i])
    OBVIOUS
  <1>8. /\ wr \in Row /\ wr.state = IF to # read.state THEN to ELSE inc[i].state
        /\ read = inc[i] => wr.state = to /\ wr.hold = m.hold /\ wr.resolved = m.resolved
    BY <1>0, <1>4, <1>7, ColumnsWritten
  <1>9. /\ inc' = [x \in Incidents |-> IF x = i THEN wr ELSE IF x \in fol THEN Synced(inc[x], m) ELSE inc[x]]
        /\ tasks' = TasksAfter(i, read.state, to, fol)
        /\ outage' = [outage EXCEPT ![i] = ShouldBeOpen(IF resync THEN final ELSE m)]
        /\ followed' = (followed \ {i}) \cup fol
    BY <1>1, <1>3, <1>5, <1>7 DEF Write
  <1>10. /\ \A c \in fol : inc'[c] = Synced(inc[c], m) /\ inc'[c] \in Row /\ inc'[c].state = to
         /\ inc'[i] = wr /\ \A x \in Incidents : x # i /\ x \notin fol => inc'[x] = inc[x]
    <2>1. \A c \in fol : Synced(inc[c], m) \in Row /\ Synced(inc[c], m).state = to
      BY <1>0, <1>2, <1>6, SyncedFacts
    <2> QED
      BY <1>6, <1>9, <2>1
  <1>11. inc' \in [Incidents -> Row]
    <2>1. \A x \in Incidents : inc'[x] \in Row
      BY <1>0, <1>8, <1>10
    <2> QED
      BY <1>9, <2>1
  <1>12. \A x \in Incidents :
            IF to \in {"Cancelled", "Closed"} /\ (x \in fol \/ (x = i /\ to # read.state))
            THEN tasks'[x] = CancelOpen(tasks[x]) ELSE tasks'[x] = tasks[x]
    BY <1>9 DEF TasksAfter
  <1>13. \A x \in Incidents : tasks'[x] \in Seq(Task) /\ DOMAIN tasks'[x] = DOMAIN tasks[x]
    BY <1>0, <1>12, TasksCancelled
  <1>14. tasks' \in [Incidents -> Seq(Task)]
    <2>1. tasks' = [x \in Incidents |-> tasks'[x]]
      BY <1>9 DEF TasksAfter
    <2> QED
      BY <1>13, <2>1
  <1>15. ShouldBeOpen(m) \in BOOLEAN /\ ShouldBeOpen(final) \in BOOLEAN
         /\ (to \in Finished => ~ShouldBeOpen(m) /\ ~ShouldBeOpen(final))
    BY <1>2, <1>4 DEF ShouldBeOpen, Row
  <1>16. /\ outage' \in [Incidents -> BOOLEAN] /\ (to \in Finished => ~outage'[i])
         /\ \A x \in Incidents : x # i => outage'[x] = outage[x]
    <2>1. PICK b \in BOOLEAN : b = ShouldBeOpen(IF resync THEN final ELSE m) /\ (to \in Finished => ~b)
      BY <1>15
    <2> QED
      BY <1>9, <2>1 DEF RowTypeOK
  <1>17. RowTypeOK'
    BY <1>6, <1>9, <1>11, <1>14, <1>16 DEF RowTypeOK
  <1>18. ASSUME "move" \notin raced', NEW x \in Incidents PROVE FieldsOK(inc'[x])
    <2>1. /\ read = inc[i] /\ to \in TicketTransitions[inc[i].state]
          /\ \A y \in Incidents : FieldsOK(inc[y])
      BY <1>18 DEF MayMove, FinishedIsComplete, FieldsFollowState, FieldsOK
    <2>2. FieldsOK(m)
      BY <1>2, <2>1
    <2>3. FieldsOK(wr)
      BY <1>2, <1>8, <2>1, <2>2 DEF FieldsOK
    <2>4. \A c \in fol : FieldsOK(Synced(inc[c], m))
      BY <1>0, <1>2, <1>6, <2>1, <2>2, SyncedFacts
    <2> QED
      BY <1>10, <2>1, <2>3, <2>4
  <1>19. ASSUME "task" \notin raced', NEW x \in Incidents, inc'[x].state \in {"Closed", "Cancelled"}
         PROVE  NoneUnfinished(tasks'[x])
    <2>1. \A y \in Incidents : inc[y].state \in {"Closed", "Cancelled"} => NoneUnfinished(tasks[y])
      BY <1>19 DEF FinishedIsComplete, NoTaskOutlives, NoneUnfinished
    <2>2. CASE tasks'[x] = CancelOpen(tasks[x])
      BY <1>0, <2>2, TasksCancelled
    <2>3. CASE tasks'[x] = tasks[x] /\ inc'[x].state = inc[x].state
      BY <1>19, <2>1, <2>3
    <2>4. CASE x \in fol
      BY <1>10, <1>12, <1>19, <2>2, <2>4
    <2>5. CASE x = i
      BY <1>6, <1>8, <1>10, <1>12, <1>19, <2>2, <2>3, <2>5
    <2>6. CASE x # i /\ x \notin fol
      BY <1>10, <1>12, <2>3, <2>6
    <2> QED
      BY <2>4, <2>5, <2>6
  <1>20. ASSUME {"move", "task"} \cap raced' = {}, NEW x \in Incidents \ followed', inc'[x].state \in Finished
         PROVE  ~outage'[x] /\ (inc'[x].state # "Cancelled" => ~RequiredOpen(tasks'[x]))
    <2>1. CASE x = i
      <3>1. read = inc[i] /\ MayMove(i, to)
        BY <1>20
      <3>2. inc'[i].state = to
        BY <1>8, <1>10, <3>1
      <3>3. to # "Cancelled" => ~RequiredOpen(tasks[i])
        BY <1>20, <2>1, <3>1, <3>2 DEF MayMove, Finished
      <3> QED
        BY <1>0, <1>12, <1>16, <1>20, <2>1, <3>2, <3>3, TasksCancelled
    <2>2. CASE x # i
      <3>1. x \notin fol /\ x \notin followed
        BY <1>9, <1>20, <2>2
      <3>2. inc'[x] = inc[x] /\ tasks'[x] = tasks[x] /\ outage'[x] = outage[x]
        BY <1>10, <1>12, <1>16, <2>2, <3>1
      <3> QED
        BY <1>20, <3>1, <3>2 DEF FinishedIsComplete, NothingOpen
    <2> QED
      BY <2>1, <2>2
  <1>21. FinishedIsComplete'
    BY <1>18, <1>19, <1>20 DEF FinishedIsComplete, FieldsFollowState, FieldsOK, NoTaskOutlives, NoneUnfinished, NothingOpen
  <1> QED
    BY <1>13, <1>17, <1>21

\* A commit makes the open page stale; its task is still there.
LEMMA StaleKeeps ==
    ASSUME OpenInv, Stale, \A x \in Incidents : DOMAIN tasks[x] \subseteq DOMAIN tasks'[x]
    PROVE  OpenInv'
  <1>1. CASE open = Idle
    <2>1. open' = Idle /\ Idle.page = "none"
      BY <1>1 DEF Stale, Idle
    <2> QED
      BY <2>1 DEF OpenInv
  <1>2. CASE open \in MovePage
    <2>1. open' = [open EXCEPT !.stale = TRUE]
      BY <1>2 DEF Stale, MovePage
    <2>2. open' \in MovePage /\ open'.page = "move" /\ open'.stale
      BY <1>2, <2>1 DEF MovePage
    <2> QED
      BY <2>2 DEF OpenInv
  <1>3. CASE open \in ParentPage
    <2>1. open' = [open EXCEPT !.stale = TRUE]
      BY <1>3 DEF Stale, ParentPage
    <2>2. open' \in ParentPage /\ open'.page = "parent"
      BY <1>3, <2>1 DEF ParentPage
    <2> QED
      BY <2>2 DEF OpenInv
  <1>4. CASE open \in TaskPage
    <2>1. open' = [open EXCEPT !.stale = TRUE] /\ open.page = "task" /\ open.i \in Incidents
      BY <1>4 DEF Stale, TaskPage
    <2>2. open' \in TaskPage /\ open'.page = "task" /\ open'.stale /\ open'.i = open.i /\ open'.k = open.k
      BY <1>4, <2>1 DEF TaskPage
    <2>3. open'.k \in DOMAIN tasks'[open'.i]
      BY <2>1, <2>2 DEF OpenInv
    <2> QED
      BY <2>2, <2>3 DEF OpenInv
  <1> QED
    BY <1>1, <1>2, <1>3, <1>4 DEF OpenInv

\* Pages that move the incident they have just read.
LEMMA MovesKeep ==
    ASSUME FinishInv, NEW i \in Incidents, Exists(i), NEW to \in TicketTransitions[inc[i].state],
           NEW reason \in HoldReasons \cup {"none"}, NEW affects \in BOOLEAN, NEW resync \in BOOLEAN,
           MayMove(i, to), Write(i, inc[i], to, reason, affects, resync), Stale, raced' = raced
    PROVE  FinishInv'
  <1>1. inc[i] \in Row /\ inc[i].state \in States
    BY DEF FinishInv, RowTypeOK, Row, Exists
  <1>2. to \in States
    BY <1>1, Transitions
  <1>3. RowTypeOK' /\ FinishedIsComplete' /\ \A x \in Incidents : DOMAIN tasks'[x] = DOMAIN tasks[x]
    BY <1>1, <1>2, WriteKeeps DEF FinishInv
  <1> QED
    BY <1>3, StaleKeeps DEF FinishInv

\* Pages that change no row.
LEMMA OpeningKeeps ==
    ASSUME FinishInv, inc' = inc, tasks' = tasks, outage' = outage, followed' = followed, raced' = raced, OpenInv'
    PROVE  FinishInv'
  BY DEF FinishInv, RowTypeOK, FinishedIsComplete, FieldsFollowState, NoTaskOutlives, NothingOpen

LEMMA FinishNext ==
    ASSUME FinishInv, [Next]_vars
    PROVE  FinishInv'
  <1>0. /\ RowTypeOK /\ OpenInv /\ FinishedIsComplete
        /\ \A x \in Incidents : inc[x] \in Row /\ tasks[x] \in Seq(Task)
    BY DEF FinishInv, RowTypeOK
  <1>1. CASE UNCHANGED vars
    <2>1. OpenInv'
      BY <1>0, <1>1 DEF OpenInv, vars, MayMove, Exists
    <2> QED
      BY <1>1, <2>1, OpeningKeeps DEF vars
  <1>2. ASSUME NEW i \in Incidents, TicketNew(i) PROVE FinishInv'
    <2>1. PICK affects \in BOOLEAN :
            LET row == [state |-> "New", hold |-> "none", resolved |-> FALSE, affects |-> affects] IN
            inc' = [inc EXCEPT ![i] = row] /\ outage' = [outage EXCEPT ![i] = ShouldBeOpen(row)]
      BY <1>2 DEF TicketNew, Affecting
    <2>2. PICK row \in Row : /\ row.state = "New" /\ FieldsOK(row)
                             /\ inc' = [inc EXCEPT ![i] = row] /\ outage' = [outage EXCEPT ![i] = ShouldBeOpen(row)]
      <3>1. PICK row : row = [state |-> "New", hold |-> "none", resolved |-> FALSE, affects |-> affects]
        OBVIOUS
      <3>2. row \in Row /\ row.state = "New" /\ FieldsOK(row)
        BY <3>1 DEF Row, States, FieldsOK
      <3> QED
        BY <2>1, <3>1, <3>2
    <2>3. tasks' = tasks /\ followed' = followed /\ raced' = raced /\ Stale
      BY <1>2 DEF TicketNew
    <2>4. /\ inc' \in [Incidents -> Row] /\ inc'[i].state = "New" /\ FieldsOK(inc'[i])
          /\ \A x \in Incidents : x # i => inc'[x] = inc[x] /\ outage'[x] = outage[x]
      BY <1>0, <2>2 DEF RowTypeOK
    <2>5. outage' \in [Incidents -> BOOLEAN]
      <3>1. ShouldBeOpen(row) \in BOOLEAN
        BY DEF ShouldBeOpen, Row
      <3> QED
        BY <1>0, <2>2, <3>1 DEF RowTypeOK
    <2>6. RowTypeOK'
      BY <1>0, <2>3, <2>4, <2>5 DEF RowTypeOK
    <2>7. FinishedIsComplete'
      BY <1>0, <2>3, <2>4 DEF FinishedIsComplete, FieldsFollowState, FieldsOK, NoTaskOutlives, NothingOpen, Finished
    <2> QED
      BY <1>0, <2>3, <2>6, <2>7, StaleKeeps DEF FinishInv
  <1>3. ASSUME NEW i \in Incidents, UpdatePage(i) PROVE FinishInv'
    <2>1. PICK to \in TicketTransitions[inc[i].state], affects \in BOOLEAN, reason \in HoldReasons \cup {"none"} :
              MayMove(i, to) /\ Write(i, inc[i], to, reason, affects, TRUE)
      BY <1>3 DEF UpdatePage, Affecting
    <2>2. Exists(i) /\ Stale /\ raced' = raced
      BY <1>3 DEF UpdatePage
    <2> QED
      BY <2>1, <2>2, MovesKeep
  <1>4. ASSUME NEW i \in Incidents, ApiTicketUpdate(i) PROVE FinishInv'
    <2>1. PICK to \in TicketTransitions[inc[i].state], affects \in BOOLEAN, reason \in HoldReasons \cup {"none"} :
              MayMove(i, to) /\ Write(i, inc[i], to, reason, affects, FALSE)
      BY <1>4 DEF ApiTicketUpdate, Affecting, Reasons
    <2>2. Exists(i) /\ Stale /\ raced' = raced
      BY <1>4 DEF ApiTicketUpdate
    <2> QED
      BY <2>1, <2>2, MovesKeep
  <1>5. ASSUME NEW i \in Incidents, CallerReplied(i) PROVE FinishInv'
    <2>1. /\ inc[i].state = "Pending" /\ Stale /\ raced' = raced
          /\ Write(i, inc[i], "In Progress", "none", inc[i].affects, FALSE)
      BY <1>5 DEF CallerReplied
    <2>2. "In Progress" \in TicketTransitions[inc[i].state] /\ Exists(i) /\ inc[i].affects \in BOOLEAN
      BY <1>0, <2>1 DEF TicketTransitions, States, Exists, Row
    <2>3. MayMove(i, "In Progress")
      BY <2>2 DEF MayMove
    <2> QED
      BY <2>1, <2>2, <2>3, MovesKeep
  <1>6. ASSUME NEW i \in Incidents, TaskCiAdd(i) PROVE FinishInv'
    <2>1. /\ inc' = [inc EXCEPT ![i].affects = TRUE] /\ Stale
          /\ tasks' = tasks /\ outage' = outage /\ followed' = followed /\ raced' = raced
      BY <1>6 DEF TaskCiAdd
    <2>2. PICK row : row = [inc[i] EXCEPT !.affects = TRUE]
      OBVIOUS
    <2>3. row \in Row /\ row.state = inc[i].state /\ row.hold = inc[i].hold /\ row.resolved = inc[i].resolved
      BY <1>0, <2>2 DEF Row
    <2>4. inc' \in [Incidents -> Row] /\ inc'[i] = row /\ \A x \in Incidents : x # i => inc'[x] = inc[x]
      BY <1>0, <2>1, <2>2, <2>3 DEF RowTypeOK
    <2>5. \A x \in Incidents : /\ inc'[x].state = inc[x].state /\ inc'[x].hold = inc[x].hold
                               /\ inc'[x].resolved = inc[x].resolved
      BY <2>3, <2>4
    <2>6. RowTypeOK'
      BY <1>0, <2>1, <2>4 DEF RowTypeOK
    <2>7. FinishedIsComplete'
      BY <1>0, <2>1, <2>5 DEF FinishedIsComplete, FieldsFollowState, NoTaskOutlives, NothingOpen
    <2> QED
      BY <1>0, <2>1, <2>6, <2>7, StaleKeeps DEF FinishInv
  <1>7. ASSUME NEW i \in Incidents, IncidentTaskAdd(i) PROVE FinishInv'
    <2>1. PICK required \in BOOLEAN :
              tasks' = [tasks EXCEPT ![i] = Append(@, [state |-> "Open", required |-> required])]
      BY <1>7 DEF IncidentTaskAdd
    <2>2. /\ inc' = inc /\ outage' = outage /\ followed' = followed /\ raced' = raced /\ Stale
          /\ inc[i].state \notin Finished
      BY <1>7 DEF IncidentTaskAdd
    <2>3. PICK new \in Task : new = [state |-> "Open", required |-> required]
      BY DEF Task, TaskStates
    <2>4. PICK ts : ts = Append(tasks[i], new)
      OBVIOUS
    <2>5. ts \in Seq(Task) /\ DOMAIN tasks[i] \subseteq DOMAIN ts
      BY <1>0, <2>4
    <2>6. tasks' \in [Incidents -> Seq(Task)] /\ tasks'[i] = ts /\ \A x \in Incidents : x # i => tasks'[x] = tasks[x]
      BY <1>0, <2>1, <2>3, <2>4, <2>5 DEF RowTypeOK
    <2>7. RowTypeOK'
      BY <1>0, <2>2, <2>6 DEF RowTypeOK
    <2>8. FinishedIsComplete'
      BY <1>0, <2>2, <2>6 DEF FinishedIsComplete, FieldsFollowState, NoTaskOutlives, NothingOpen, Finished
    <2>9. \A x \in Incidents : DOMAIN tasks[x] \subseteq DOMAIN tasks'[x]
      BY <2>5, <2>6
    <2> QED
      BY <1>0, <2>2, <2>7, <2>8, <2>9, StaleKeeps DEF FinishInv
  <1>8. ASSUME NEW i \in Incidents, OpenMove(i) PROVE FinishInv'
    <2>1. PICK to \in States, reason \in HoldReasons \cup {"none"} :
            /\ MayMove(i, to)
            /\ open' = [page |-> "move", i |-> i, to |-> to, reason |-> reason, read |-> inc[i], stale |-> FALSE]
      BY <1>8 DEF OpenMove, Reasons
    <2>2. inc' = inc /\ tasks' = tasks /\ outage' = outage /\ followed' = followed /\ raced' = raced
      BY <1>8 DEF OpenMove
    <2>3. inc[i] \in {row \in Row : row.state \in States}
      BY <1>0, <2>1 DEF MayMove, Exists, Row
    <2>4. open' \in MovePage /\ open'.page = "move" /\ open'.i = i /\ open'.to = to /\ open'.read = inc[i]
      BY <2>1, <2>3 DEF MovePage
    <2>5. MayMove(open.i, open.to)'
      BY <2>1, <2>2, <2>4 DEF MayMove, Exists
    <2>6. OpenInv'
      BY <2>2, <2>4, <2>5 DEF OpenInv
    <2> QED
      BY <2>2, <2>6, OpeningKeeps
  <1>9. ASSUME NEW i \in Incidents, OpenParent(i) PROVE FinishInv'
    <2>1. PICK to \in Incidents : open' = [page |-> "parent", i |-> i, to |-> to, stale |-> FALSE]
      BY <1>9 DEF OpenParent
    <2>2. inc' = inc /\ tasks' = tasks /\ outage' = outage /\ followed' = followed /\ raced' = raced
      BY <1>9 DEF OpenParent
    <2>3. open' \in ParentPage /\ open'.page = "parent"
      BY <2>1 DEF ParentPage
    <2>4. OpenInv'
      BY <2>3 DEF OpenInv
    <2> QED
      BY <2>2, <2>4, OpeningKeeps
  <1>10. ASSUME NEW i \in Incidents, OpenTask(i) PROVE FinishInv'
    <2>1. PICK k \in DOMAIN tasks[i] : \E to \in TaskTransitions[tasks[i][k].state] :
            /\ tasks[i][k].state = "Open" \/ to # tasks[i][k].state
            /\ open' = [page |-> "task", i |-> i, k |-> k, to |-> to, stale |-> FALSE]
      BY <1>10 DEF OpenTask
    <2>0. PICK to \in TaskTransitions[tasks[i][k].state] :
            /\ tasks[i][k].state = "Open" \/ to # tasks[i][k].state
            /\ open' = [page |-> "task", i |-> i, k |-> k, to |-> to, stale |-> FALSE]
      BY <2>1
    <2>2. inc' = inc /\ tasks' = tasks /\ outage' = outage /\ followed' = followed /\ raced' = raced
      BY <1>10 DEF OpenTask
    <2>3. tasks[i][k].state \in TaskStates /\ k \in Nat
      <3>1. tasks[i][k] \in Task /\ k \in Nat
        BY <1>0, <2>1
      <3> QED
        BY <3>1 DEF Task
    <2>4. tasks[i][k].state = "Open" /\ to \in TaskStates
      BY <2>0, <2>3 DEF TaskTransitions
    <2>5. open' \in TaskPage /\ open'.page = "task" /\ open'.i = i /\ open'.k = k
      BY <2>0, <2>3, <2>4 DEF TaskPage
    <2>6. OpenInv'
      BY <2>1, <2>2, <2>4, <2>5 DEF OpenInv
    <2> QED
      BY <2>2, <2>6, OpeningKeeps
  <1>11. CASE Close
    <2>1. /\ open' = Idle /\ raced \subseteq raced'
          /\ raced' = IF open.stale THEN raced \cup {open.page} ELSE raced
      BY <1>11 DEF Close
    <2>2. OpenInv'
      <3>1. Idle.page = "none"
        BY DEF Idle
      <3> QED
        BY <2>1, <3>1 DEF OpenInv
    <2>3. CASE CloseMove
      <3>1. open.page = "move" /\ Write(open.i, open.read, open.to, open.reason, open.read.affects, FALSE)
        BY <2>3 DEF CloseMove
      <3>2. open \in MovePage
        BY <1>0, <3>1 DEF OpenInv, Idle, ParentPage, TaskPage
      <3>3. /\ open.i \in Incidents /\ open.read \in Row /\ open.read.state \in States /\ open.to \in States
            /\ open.reason \in HoldReasons \cup {"none"} /\ open.stale \in BOOLEAN /\ open.read.affects \in BOOLEAN
        BY <3>2 DEF MovePage, Row
      <3>4. (open.read = inc[open.i] /\ MayMove(open.i, open.to)) \/ "move" \in raced'
        BY <1>0, <2>1, <3>1, <3>3 DEF OpenInv
      <3>5. RowTypeOK' /\ FinishedIsComplete'
        BY <1>0, <2>1, <3>1, <3>3, <3>4, WriteKeeps
      <3> QED
        BY <2>2, <3>5 DEF FinishInv
    <2>4. CASE CloseParent
      <3>1. inc' = inc /\ tasks' = tasks /\ outage' = outage /\ followed' = followed
        BY <2>4 DEF CloseParent
      <3>2. RowTypeOK' /\ FinishedIsComplete'
        BY <1>0, <2>1, <3>1 DEF RowTypeOK, FinishedIsComplete, FieldsFollowState, NoTaskOutlives, NothingOpen
      <3> QED
        BY <2>2, <3>2 DEF FinishInv
    <2>5. CASE CloseTask
      <3>1. /\ open.page = "task" /\ tasks' = [tasks EXCEPT ![open.i][open.k].state = open.to]
            /\ inc' = inc /\ outage' = outage /\ followed' = followed
        BY <2>5 DEF CloseTask
      <3>2. open \in TaskPage
        BY <1>0, <3>1 DEF OpenInv, Idle, ParentPage, MovePage
      <3>3. PICK i \in Incidents, k \in Nat, to \in TaskStates :
                open.i = i /\ open.k = k /\ open.to = to /\ open.stale \in BOOLEAN /\ k \in DOMAIN tasks[i]
        BY <1>0, <3>1, <3>2 DEF OpenInv, TaskPage
      <3>4. PICK ts \in Seq(Task) : ts = tasks[i]
        BY <1>0
      <3>5. ts[k] \in Task
        BY <3>3, <3>4
      <3>6. PICK new : new = [ts[k] EXCEPT !.state = to]
        OBVIOUS
      <3>7. new \in Task /\ new.state = to
        BY <3>5, <3>6 DEF Task
      <3>8. PICK us : us = [ts EXCEPT ![k] = new]
        OBVIOUS
      <3>9. us \in Seq(Task) /\ DOMAIN us = DOMAIN ts /\ us[k] = new /\ \A j \in DOMAIN us : j # k => us[j] = ts[j]
        BY <3>3, <3>4, <3>7, <3>8
      <3>10. tasks' \in [Incidents -> Seq(Task)] /\ tasks'[i] = us /\ \A x \in Incidents : x # i => tasks'[x] = tasks[x]
        BY <1>0, <3>1, <3>3, <3>4, <3>6, <3>8, <3>9 DEF RowTypeOK
      <3>11. RowTypeOK'
        BY <1>0, <3>1, <3>10 DEF RowTypeOK
      <3>12. "task" \notin raced' => Unfinished(ts[k])
        BY <1>0, <2>1, <3>1, <3>3, <3>4 DEF OpenInv, Unfinished
      <3>13. \A x \in Incidents : "task" \notin raced' /\ NoneUnfinished(tasks[x]) => x # i
        BY <3>3, <3>4, <3>12 DEF NoneUnfinished
      <3>14. "task" \notin raced' /\ ~RequiredOpen(ts) => ~RequiredOpen(us)
        <4>1. new.required = ts[k].required
          BY <3>5, <3>6 DEF Task
        <4> QED
          BY <3>3, <3>4, <3>9, <3>12, <4>1 DEF RequiredOpen
      <3>15. \A x \in Incidents : "task" \notin raced' /\ ~RequiredOpen(tasks[x]) => ~RequiredOpen(tasks'[x])
        BY <3>4, <3>10, <3>14
      <3>16. FinishedIsComplete'
        <4>1. "move" \notin raced' => \A x \in Incidents : FieldsFollowState(x)'
          BY <1>0, <2>1, <3>1 DEF FinishedIsComplete, FieldsFollowState
        <4>2. "task" \notin raced' => \A x \in Incidents : NoTaskOutlives(x)'
          BY <1>0, <2>1, <3>1, <3>10, <3>13 DEF FinishedIsComplete, NoTaskOutlives, NoneUnfinished
        <4>3. {"move", "task"} \cap raced' = {} => \A x \in Incidents \ followed' : NothingOpen(x)'
          <5>1. {"move", "task"} \cap raced' = {} => {"move", "task"} \cap raced = {} /\ "task" \notin raced'
            BY <2>1
          <5> QED
            BY <1>0, <3>1, <3>15, <5>1 DEF FinishedIsComplete, NothingOpen
        <4> QED
          BY <4>1, <4>2, <4>3 DEF FinishedIsComplete
      <3> QED
        BY <2>2, <3>11, <3>16 DEF FinishInv
    <2> QED
      BY <1>11, <2>3, <2>4, <2>5 DEF Close
  <1> QED
    BY <1>1, <1>2, <1>3, <1>4, <1>5, <1>6, <1>7, <1>8, <1>9, <1>10, <1>11 DEF Next, Page

LEMMA FinishInit == Init => FinishInv
  <1> SUFFICES ASSUME Init PROVE FinishInv
    OBVIOUS
  <1>1. PICK row : row = [state |-> "absent", hold |-> "none", resolved |-> FALSE, affects |-> FALSE]
    OBVIOUS
  <1>2. row \in Row /\ FieldsOK(row) /\ row.state = "absent"
    BY <1>1 DEF Row, FieldsOK
  <1>3. inc = [i \in Incidents |-> row] /\ open = Idle /\ followed = {}
    BY <1>1 DEF Init
  <1>4. <<>> \in Seq(Task)
    OBVIOUS
  <1>5. tasks \in [Incidents -> Seq(Task)] /\ outage \in [Incidents -> BOOLEAN]
    BY <1>4 DEF Init
  <1>6. OpenInv
    BY <1>3 DEF OpenInv, Idle
  <1>7. FinishedIsComplete
    BY <1>2, <1>3 DEF FinishedIsComplete, FieldsFollowState, FieldsOK, NoTaskOutlives, NothingOpen, Finished
  <1> QED
    BY <1>2, <1>3, <1>5, <1>6, <1>7 DEF FinishInv, RowTypeOK

\* For any number of incidents, tasks and overlapping pages: hold reason and time
\* of resolution follow the state, no task outlives its incident, and an incident
\* that finished by its own transition leaves no required task and no outage,
\* as long as no page of the kinds named there was overtaken (transition_ticket,
\* cancel_open_child_tasks, sync_service_outages).
THEOREM FinishedStaysComplete == Spec => []FinishedIsComplete
  <1>1. Init => FinishInv
    BY FinishInit
  <1>2. FinishInv => FinishedIsComplete
    BY DEF FinishInv
  <1> QED
    BY <1>1, <1>2, FinishNext, PTL DEF Spec

-----------------------------------------------------------------------------
(* No loop of parents                                                      *)
(*                                                                         *)
(* That the ancestors a page has read are all there are rests on counting: *)
(* a climb that has not come to an end has met another incident with every *)
(* step.                                                                   *)

\* A set of natural numbers that is not empty has a least element.
LEMMA LeastExists ==
    ASSUME NEW S, S \subseteq Nat, S # {}
    PROVE  \E i \in S : \A k \in S : i <= k
  <1>1. PICK i \in S : \A k \in S : ~(<<k, i>> \in OpToRel(<, Nat))
    BY NatLessThanWellFounded, WFMin
  <1>2. \A k \in S : ~(k < i)
    BY <1>1 DEF OpToRel
  <1> QED
    BY <1>2

\* The step from the ancestors u read so far to the next.
Above(f, p, k, u) == IF k = 1 THEN {p} ELSE {f[j] : j \in {x \in u : x \in DOMAIN f}}
Climbs(f, p, n, u) == u = [k \in 0 .. n |-> IF k = 0 THEN {} ELSE u[k - 1] \cup Above(f, p, k, u[k - 1])]

LEMMA ClimbExists ==
    ASSUME NEW n \in Nat, NEW f, NEW p
    PROVE  \E u : Climbs(f, p, n, u)
  <1> DEFINE S == {m \in Nat : ~ \E u : Climbs(f, p, m, u)}
  <1> SUFFICES ASSUME n \in S PROVE FALSE
    OBVIOUS
  <1>1. PICK m \in S : \A k \in S : m <= k
    BY LeastExists
  <1>2. m # 0
    <2>1. Climbs(f, p, 0, [k \in 0 .. 0 |-> {}])
      <3>1. PICK u : u = [k \in 0 .. 0 |-> {}]
        OBVIOUS
      <3>2. u = [k \in 0 .. 0 |-> IF k = 0 THEN {} ELSE u[k - 1] \cup Above(f, p, k, u[k - 1])]
        BY <3>1
      <3> QED
        BY <3>1, <3>2 DEF Climbs
    <2> QED
      BY <1>1, <2>1
  <1>3. m - 1 \in Nat /\ m - 1 \notin S
    BY <1>1, <1>2
  <1>4. PICK u : Climbs(f, p, m - 1, u)
    BY <1>3
  <1>5. PICK a : a = u[m - 1] \cup Above(f, p, m, u[m - 1])
    OBVIOUS
  <1>6. PICK v : v = [k \in 0 .. m |-> IF k < m THEN u[k] ELSE a]
    OBVIOUS
  <1>7. ASSUME NEW k \in 0 .. m
        PROVE  v[k] = IF k = 0 THEN {} ELSE v[k - 1] \cup Above(f, p, k, v[k - 1])
    <2>1. CASE k = 0
      <3>1. v[k] = u[k] /\ k \in 0 .. m - 1
        BY <1>2, <1>3, <1>6, <2>1
      <3>2. u[k] = {}
        BY <1>4, <2>1, <3>1 DEF Climbs
      <3> QED
        BY <2>1, <3>1, <3>2
    <2>2. CASE k # 0 /\ k < m
      <3>1. k \in 0 .. m - 1 /\ v[k] = u[k] /\ v[k - 1] = u[k - 1]
        BY <1>6, <1>7, <2>2
      <3>2. u[k] = u[k - 1] \cup Above(f, p, k, u[k - 1])
        BY <1>4, <2>2, <3>1 DEF Climbs
      <3> QED
        BY <2>2, <3>1, <3>2
    <2>3. CASE k = m
      <3>1. v[k] = a /\ v[k - 1] = u[m - 1]
        BY <1>2, <1>6, <2>3
      <3> QED
        BY <1>2, <1>5, <2>3, <3>1
    <2> QED
      BY <2>1, <2>2, <2>3
  <1>8. Climbs(f, p, m, v)
    <2>1. v = [k \in 0 .. m |-> v[k]]
      BY <1>6
    <2> QED
      BY <1>7, <2>1 DEF Climbs
  <1> QED
    BY <1>1, <1>8

LEMMA ClimbEnds ==
    ASSUME NEW f, NEW p
    PROVE  \E u : Climbs(f, p, AncestorLimit, u) /\ Climb(f, p) = u[AncestorLimit]
  <1>1. PICK u : u = CHOOSE v : Climbs(f, p, AncestorLimit, v)
    OBVIOUS
  <1>2. Climbs(f, p, AncestorLimit, u)
    BY <1>1, ClimbExists, IncidentsAssumption, Zenon
  <1>3. Climb(f, p) = u[AncestorLimit]
    BY <1>1, Zenon DEF Climb, Climbs, Above
  <1> QED
    BY <1>2, <1>3

\* What is closed under f has no way out.
Closed(f, u) == \A j \in u : j \in DOMAIN f => f[j] \in u

\* One step of a climb that has not met everybody: it is over, or one longer.
LEMMA ClimbStep ==
    ASSUME IsFiniteSet(Incidents), NEW p \in Incidents, NEW k \in Nat, k > 1, NEW u \in SUBSET Incidents,
           NEW f, \A j \in Incidents : j \in DOMAIN f => f[j] \in Incidents,
           p \in u, Closed(f, u) \/ Cardinality(u) >= k - 1,
           NEW v, v = u \cup Above(f, p, k, u)
    PROVE  p \in v /\ v \in SUBSET Incidents /\ (Closed(f, v) \/ Cardinality(v) >= k)
  <1>1. v = u \cup {f[j] : j \in {x \in u : x \in DOMAIN f}}
    BY DEF Above
  <1>2. p \in v /\ v \in SUBSET Incidents /\ u \subseteq v
    BY <1>1
  <1>3. CASE Closed(f, u)
    <2>1. v = u
      BY <1>1, <1>3 DEF Closed
    <2> QED
      BY <1>2, <1>3, <2>1
  <1>4. CASE ~Closed(f, u)
    <2>1. PICK j \in u : j \in DOMAIN f /\ f[j] \notin u
      BY <1>4 DEF Closed
    <2>2. f[j] \in v
      BY <1>1, <2>1
    <2>3. IsFiniteSet(u) /\ IsFiniteSet(v) /\ Cardinality(u) \in Nat /\ Cardinality(v) \in Nat
      BY <1>2, FS_Subset, FS_CardinalityType
    <2>4. Cardinality(u) < Cardinality(v)
      <3>1. u # v
        BY <2>1, <2>2
      <3> QED
        BY <1>2, <2>3, <3>1, FS_Subset
    <2> QED
      BY <1>2, <1>4, <2>3, <2>4
  <1> QED
    BY <1>3, <1>4

\* If there are no more incidents than a climb reads, and it does not meet i, it
\* has come to an end.
LEMMA ClimbIsClosed ==
    ASSUME Cardinality(Incidents) <= AncestorLimit, NEW p \in Incidents, NEW i \in Incidents,
           NEW f, \A j \in Incidents : j \in DOMAIN f => f[j] \in Incidents,
           i \notin Climb(f, p)
    PROVE  p \in Climb(f, p) /\ Climb(f, p) \subseteq Incidents /\ Closed(f, Climb(f, p))
  <1> DEFINE N == AncestorLimit
  <1>1. PICK u : Climbs(f, p, N, u) /\ Climb(f, p) = u[N]
    BY ClimbEnds
  <1>2. IsFiniteSet(Incidents) /\ N \in Nat /\ Cardinality(Incidents) \in Nat
    BY IncidentsAssumption, FS_CardinalityType
  <1>3. N > 0
    <2>1. Cardinality(Incidents) # 0
      BY <1>2, FS_EmptySet
    <2> QED
      BY <1>2, <2>1
  <1> DEFINE Good(k) == p \in u[k] /\ u[k] \in SUBSET Incidents /\ (Closed(f, u[k]) \/ Cardinality(u[k]) >= k)
  <1>4. Good(1)
    <2>1. u[0] = {} /\ u[1] = u[0] \cup Above(f, p, 1, u[0])
      <3>1. 0 \in 0 .. N /\ 1 \in 0 .. N /\ 1 - 1 = 0
        BY <1>2, <1>3
      <3>2. \A k \in 0 .. N : u[k] = IF k = 0 THEN {} ELSE u[k - 1] \cup Above(f, p, k, u[k - 1])
        BY <1>1 DEF Climbs
      <3>3. u[0] = {}
        BY <3>1, <3>2
      <3>4. PICK k \in 0 .. N : k = 1 /\ k # 0 /\ k - 1 = 0
        BY <3>1
      <3>5. u[k] = u[k - 1] \cup Above(f, p, k, u[k - 1])
        BY <3>2, <3>4
      <3> QED
        BY <3>3, <3>4, <3>5
    <2>2. u[1] = {p}
      BY <2>1 DEF Above
    <2>3. Cardinality({p}) = 1
      BY FS_Singleton
    <2> QED
      BY <2>2, <2>3
  <1>5. ASSUME NEW k \in 2 .. N, Good(k - 1) PROVE Good(k)
    <2>1. k \in Nat /\ k > 1 /\ k \in 0 .. N /\ k # 0
      BY <1>2
    <2>2. u[k] = u[k - 1] \cup Above(f, p, k, u[k - 1])
      BY <1>1, <2>1 DEF Climbs
    <2>3. PICK a \in SUBSET Incidents : a = u[k - 1]
      BY <1>5
    <2>4. p \in a /\ (Closed(f, a) \/ Cardinality(a) >= k - 1)
      BY <1>5, <2>3
    <2>5. PICK v : v = a \cup Above(f, p, k, a)
      OBVIOUS
    <2>6. p \in v /\ v \in SUBSET Incidents /\ (Closed(f, v) \/ Cardinality(v) >= k)
      BY <1>2, <2>1, <2>4, <2>5, ClimbStep
    <2> QED
      BY <2>2, <2>3, <2>5, <2>6
  <1>6. Good(N)
    <2> DEFINE S == {k \in 1 .. N : ~Good(k)}
    <2>1. S = {}
      <3> SUFFICES ASSUME S # {} PROVE FALSE
        OBVIOUS
      <3>1. S \subseteq Nat
        BY <1>2
      <3> HIDE DEF Good
      <3>2. PICK k \in S : \A l \in S : k <= l
        BY <3>1, LeastExists
      <3>3. k \in 1 .. N /\ ~Good(k) /\ k # 1
        BY <1>4, <3>2
      <3>4. k - 1 \in 1 .. N /\ k \in 2 .. N
        BY <1>2, <3>3
      <3>5. k - 1 \notin S
        BY <3>2, <3>4
      <3> QED
        BY <1>5, <3>3, <3>4, <3>5
    <2> HIDE DEF Good
    <2>2. N \in 1 .. N
      BY <1>2, <1>3
    <2> QED
      BY <2>1, <2>2
  <1>7. Closed(f, u[N])
    <2>1. CASE Cardinality(u[N]) >= N
      <3>1. IsFiniteSet(u[N]) /\ Cardinality(u[N]) \in Nat
        BY <1>2, <1>6, FS_Subset, FS_CardinalityType
      <3>2. u[N] = Incidents
        <4>1. Cardinality(u[N]) >= Cardinality(Incidents)
          BY <1>2, <2>1, <3>1
        <4> QED
          BY <1>2, <1>6, <3>1, <4>1, FS_Subset
      <3> QED
        BY <1>1, <3>2
    <2> QED
      BY <1>6, <2>1
  <1> QED
    BY <1>1, <1>6, <1>7

\* A set with at most one member.
LEMMA OneMember ==
    ASSUME NEW T, IsFiniteSet(T), Cardinality(T) <= 1, NEW x \in T, NEW y \in T
    PROVE  x = y
  <1> SUFFICES ASSUME x # y PROVE FALSE
    OBVIOUS
  <1>1. {x, y} \subseteq T
    OBVIOUS
  <1>2. IsFiniteSet({x}) /\ Cardinality({x}) = 1
    BY FS_Singleton
  <1>3. {x} \subseteq T /\ {x} # T
    OBVIOUS
  <1>4. Cardinality(T) \in Nat /\ Cardinality({x}) < Cardinality(T)
    BY <1>3, FS_Subset, FS_CardinalityType
  <1> QED
    BY <1>2, <1>4

\* The hierarchy as it should be.
OneParent == \A i \in Incidents : Cardinality(ParentsOf(i)) <= 1
NoLoop == \A S \in (SUBSET Incidents) \ {{}} : \E i \in S : ParentsOf(i) \cap S = {}

\* What set_parent has made sure of when it read the ancestors.
MayLink(i, p) == p = i \/ \E firsts \in FirstLinks : p # i /\ i \notin Climb(firsts, p)

\* A loop in the new links contains the new one; the part of it that the climb
\* has met is a loop in the old links.
LEMMA LinkingKeeps ==
    ASSUME Cardinality(Incidents) <= AncestorLimit, OneParent, NoLoop,
           NEW i \in Incidents, NEW p \in Incidents, MayLink(i, p), links' = WithParent(links, i, p)
    PROVE  OneParent' /\ NoLoop'
  <1>1. ParentsOf(i)' = IF p = i THEN {} ELSE {p}
    BY DEF ParentsOf, WithParent
  <1>2. ASSUME NEW j \in Incidents, j # i PROVE ParentsOf(j)' = ParentsOf(j)
    BY <1>2 DEF ParentsOf, WithParent
  <1>3. OneParent'
    <2>1. Cardinality({}) = 0 /\ Cardinality({p}) = 1
      BY FS_EmptySet, FS_Singleton
    <2>2. ASSUME NEW j \in Incidents PROVE Cardinality(ParentsOf(j)') <= 1
      <3>1. CASE j = i
        BY <1>1, <2>1, <3>1
      <3>2. CASE j # i
        BY <1>2, <3>2 DEF OneParent
      <3> QED
        BY <3>1, <3>2
    <2> QED
      BY <2>2 DEF OneParent
  <1>4. NoLoop'
    <2> SUFFICES ASSUME NEW S \in SUBSET Incidents, S # {}, \A j \in S : ParentsOf(j)' \cap S # {}
                 PROVE  FALSE
      BY DEF NoLoop
    <2>1. i \in S
      <3> SUFFICES ASSUME i \notin S PROVE FALSE
        OBVIOUS
      <3>1. \A j \in S : ParentsOf(j) \cap S # {}
        BY <1>2
      <3> QED
        BY <3>1 DEF NoLoop
    <2>2. p # i /\ p \in S
      BY <1>1, <2>1
    <2>3. PICK f \in FirstLinks : i \notin Climb(f, p)
      BY <2>2 DEF MayLink
    <2>4. DOMAIN f = HasParent /\ \A j \in HasParent : f[j] \in ParentsOf(j) /\ f[j] \in Incidents
      BY DEF FirstLinks
    <2>5. PICK C : C = Climb(f, p)
      OBVIOUS
    <2>6. p \in C /\ C \subseteq Incidents /\ Closed(f, C) /\ i \notin C
      BY <2>3, <2>4, <2>5, ClimbIsClosed
    <2>7. ASSUME NEW j \in S \cap C PROVE ParentsOf(j) \cap (S \cap C) # {}
      <3>1. j # i /\ j \in Incidents
        BY <2>6
      <3>2. PICK q \in ParentsOf(j) : q \in S
        BY <1>2, <3>1
      <3>3. j \in HasParent
        BY <3>1, <3>2 DEF HasParent
      <3>4. f[j] \in ParentsOf(j) /\ f[j] \in C
        BY <2>4, <2>6, <3>3 DEF Closed
      <3>5. f[j] = q
        <4>1. IsFiniteSet(ParentsOf(j)) /\ Cardinality(ParentsOf(j)) <= 1
          <5>1. ParentsOf(j) \subseteq Incidents
            BY DEF ParentsOf
          <5> QED
            BY <3>1, <5>1, FS_Subset, IncidentsAssumption DEF OneParent
        <4> QED
          BY <3>2, <3>4, <4>1, OneMember
      <3> QED
        BY <3>2, <3>4, <3>5
    <2>8. S \cap C \in (SUBSET Incidents) \ {{}}
      BY <2>2, <2>6
    <2> QED
      BY <2>7, <2>8 DEF NoLoop
  <1> QED
    BY <1>3, <1>4

\* Until another page commits, the links are those the open page has read.
LoopInv ==
    /\ FinishInv
    /\ "parent" \notin raced => OneParent /\ NoLoop
    /\ open.page = "parent" /\ ~open.stale => MayLink(open.i, open.to)

LEMMA StaleIsOpen ==
    ASSUME OpenInv, Stale
    PROVE  open'.page = "parent" => open'.stale
  <1>1. CASE open = Idle
    BY <1>1 DEF Stale, Idle
  <1>2. CASE open \in MovePage \cup ParentPage \cup TaskPage
    BY <1>2 DEF Stale, MovePage, ParentPage, TaskPage
  <1> QED
    BY <1>1, <1>2 DEF OpenInv

LEMMA LinksStay ==
    ASSUME links' = links
    PROVE  /\ OneParent' <=> OneParent
           /\ NoLoop' <=> NoLoop
           /\ \A i, p : MayLink(i, p)' <=> MayLink(i, p)
  BY DEF OneParent, NoLoop, MayLink, FirstLinks, HasParent, ParentsOf, Climb

LEMMA LoopNext ==
    ASSUME Cardinality(Incidents) <= AncestorLimit, LoopInv, [Next]_vars
    PROVE  LoopInv'
  <1>1. FinishInv' /\ OpenInv
    BY FinishNext DEF LoopInv, FinishInv
  <1>2. ASSUME links' = links, Stale, raced' = raced PROVE LoopInv'
    BY <1>1, <1>2, StaleIsOpen, LinksStay DEF LoopInv
  <1>3. ASSUME NEW i \in Incidents, NEW p \in Incidents, MayLink(i, p), links' = WithParent(links, i, p),
               Stale, raced' = raced
        PROVE  LoopInv'
    BY <1>1, <1>3, StaleIsOpen, LinkingKeeps DEF LoopInv
  <1>4. ASSUME links' = links, raced' = raced, open'.page = "move" \/ open'.page = "task" PROVE LoopInv'
    BY <1>1, <1>4, LinksStay DEF LoopInv
  <1>5. CASE UNCHANGED vars
    BY <1>1, <1>5, LinksStay DEF LoopInv, vars
  <1>6. ASSUME NEW i \in Incidents, TicketNew(i) PROVE LoopInv'
    BY <1>3, <1>6 DEF TicketNew, MayBeParent, MayLink
  <1>7. ASSUME NEW i \in Incidents, UpdatePage(i) PROVE LoopInv'
    BY <1>3, <1>7 DEF UpdatePage, MayBeParent, MayLink
  <1>8. ASSUME NEW i \in Incidents,
               ApiTicketUpdate(i) \/ CallerReplied(i) \/ TaskCiAdd(i) \/ IncidentTaskAdd(i)
        PROVE  LoopInv'
    BY <1>2, <1>8 DEF ApiTicketUpdate, CallerReplied, TaskCiAdd, IncidentTaskAdd
  <1>9. ASSUME NEW i \in Incidents, OpenMove(i) \/ OpenTask(i) PROVE LoopInv'
    <2>1. links' = links /\ raced' = raced
      BY <1>9 DEF OpenMove, OpenTask
    <2>2. open'.page = "move" \/ open'.page = "task"
      BY <1>9 DEF OpenMove, OpenTask
    <2> QED
      BY <1>4, <2>1, <2>2
  <1>10. ASSUME NEW i \in Incidents, OpenParent(i) PROVE LoopInv'
    <2>1. PICK p \in Incidents : /\ MayLink(i, p)
                                 /\ open' = [page |-> "parent", i |-> i, to |-> p, stale |-> FALSE]
      BY <1>10 DEF OpenParent, MayBeParent, MayLink
    <2>2. open'.i = i /\ open'.to = p
      BY <2>1
    <2>3. links' = links /\ raced' = raced
      BY <1>10 DEF OpenParent
    <2>4. MayLink(i, p)'
      BY <2>1, <2>3, LinksStay
    <2> QED
      BY <1>1, <2>2, <2>3, <2>4, LinksStay DEF LoopInv
  <1>11. CASE Close
    <2>1. open' = Idle /\ raced \subseteq raced' /\ (open.stale => raced' = raced \cup {open.page})
          /\ (CloseMove \/ CloseParent \/ CloseTask)
      BY <1>11 DEF Close
    <2>2. open'.page # "parent"
      BY <2>1 DEF Idle
    <2>3. CASE CloseMove \/ CloseTask
      <3>1. links' = links
        BY <2>3 DEF CloseMove, CloseTask
      <3> QED
        BY <1>1, <2>1, <2>2, <3>1, LinksStay DEF LoopInv
    <2>4. CASE CloseParent
      <3>1. open.page = "parent" /\ links' = WithParent(links, open.i, open.to)
        BY <2>4 DEF CloseParent
      <3>2. open.i \in Incidents /\ open.to \in Incidents
        BY <1>1, <3>1 DEF OpenInv, Idle, MovePage, ParentPage, TaskPage
      <3>3. "parent" \notin raced' => "parent" \notin raced /\ ~open.stale
        BY <2>1, <3>1
      <3>4. "parent" \notin raced' => OneParent' /\ NoLoop'
        BY <3>1, <3>2, <3>3, LinkingKeeps DEF LoopInv
      <3> QED
        BY <1>1, <2>2, <3>4 DEF LoopInv
    <2> QED
      BY <2>1, <2>3, <2>4
  <1> QED
    BY <1>5, <1>6, <1>7, <1>8, <1>9, <1>10, <1>11 DEF Next, Page

\* For any number of incidents that _ancestors can climb through (it reads 50
\* generations), no sequence of new incidents, moves and new parents makes a loop
\* or a second parent, unless a page set a parent over links that were changed
\* after it had read them (set_parent takes no lock).
THEOREM ParentsMakeNoLoop == Cardinality(Incidents) <= AncestorLimit => (Spec => []NoParentLoop)
  <1> SUFFICES ASSUME Cardinality(Incidents) <= AncestorLimit PROVE Spec => []NoParentLoop
    OBVIOUS
  <1>1. Init => LoopInv
    <2> SUFFICES ASSUME Init PROVE LoopInv
      OBVIOUS
    <2>1. FinishInv
      BY FinishInit
    <2>2. \A i \in Incidents : ParentsOf(i) = {}
      BY DEF Init, ParentsOf
    <2>3. OneParent
      BY <2>2, FS_EmptySet DEF OneParent
    <2>4. NoLoop
      BY <2>2 DEF NoLoop
    <2> QED
      BY <2>1, <2>3, <2>4 DEF LoopInv, Init, Idle
  <1>2. LoopInv /\ [Next]_vars => LoopInv'
    BY LoopNext
  <1>3. LoopInv => NoParentLoop
    BY DEF LoopInv, OneParent, NoLoop, NoParentLoop
  <1> QED
    BY <1>1, <1>2, <1>3, PTL DEF Spec

-----------------------------------------------------------------------------
(* What a sprint reports                                                   *)

Told == {"baseline", "added", "state"}
Event == [kind: Told \cup {"removed"}, done: BOOLEAN, started: BOOLEAN]
Membership == [sprint: Sprints \cup {0}, item: Items \cup {0}, active: BOOLEAN, completed: BOOLEAN]

SprintTypeOK ==
    /\ kind \in [Items -> {"task", "subtask", "gone"}]
    /\ status \in [Items -> Statuses]
    /\ sprint \in [Sprints -> {"none", "planned", "active", "closed"}]
    /\ member \in [Memberships -> Membership]
    /\ log \in [Memberships -> Seq(Event)]
    /\ outcome \in [Sprints -> SUBSET Memberships]

Opens(e) == e.kind \in Told /\ e.started /\ ~e.done
EverOpenIn(l) == \E k \in DOMAIN l : Opens(l[k])
Unstarted(l) == \A k \in DOMAIN l : ~l[k].started

\* What the log l of a live member says when its item is done or not (dn), it
\* was ever unfinished (op), and a change of a status passed it by (si).
LiveLog(l, dn, op, si) ==
    /\ l # <<>> /\ l[Len(l)].started /\ l[Len(l)].kind \in Told
    /\ EverOpenIn(l) => op
    /\ op /\ ~si => EverOpenIn(l)
    /\ ~si => l[Len(l)].done = dn

MemberInv(m) ==
    LET row == member[m] IN
    /\ row.sprint = 0 => row = Project!NoMember /\ m \notin opened
    /\ row.sprint # 0 => sprint[row.sprint] # "none"
    /\ row.active => /\ row.item # 0 /\ row.sprint # 0 /\ ~row.completed
                     /\ kind[row.item] = "task" /\ sprint[row.sprint] \in {"planned", "active"}
    /\ row.completed => row.sprint # 0 /\ sprint[row.sprint] = "closed"
    /\ row.sprint # 0 /\ sprint[row.sprint] = "planned" => m \notin opened /\ Unstarted(log[m])
    /\ row.active /\ sprint[row.sprint] = "active" =>
         LiveLog(log[m], status[row.item] \in done, m \in opened, m \in silent)

\* Credit, report and what happened, of a closed sprint.
ClosedReport(s) ==
    /\ outcome[s] = {m \in Memberships : /\ member[m].sprint = s /\ (member[m].active \/ member[m].completed)
                                         /\ log[m][Len(log[m])].done /\ EverOpenIn(log[m])}
    /\ outcome[s] \subseteq opened
    /\ \A m \in opened \ silent :
          member[m].sprint = s /\ log[m][Len(log[m])].done /\ member[m].completed => m \in outcome[s]

SprintInv ==
    /\ SprintTypeOK
    /\ opened \subseteq Memberships
    /\ \A m \in Memberships : MemberInv(m)
    /\ \A s \in Sprints : sprint[s] = "closed" => ClosedReport(s)

LEMMA LogAppended ==
    ASSUME NEW l \in Seq(Event), NEW e \in Event, NEW x, x = Append(l, e)
    PROVE  /\ x \in Seq(Event) /\ x # <<>> /\ x[Len(x)] = e
           /\ EverOpenIn(x) <=> EverOpenIn(l) \/ Opens(e)
           /\ Unstarted(l) /\ ~e.started => Unstarted(x)
  <1>1. Len(l) \in Nat /\ DOMAIN l = 1 .. Len(l)
    OBVIOUS
  <1>2. x \in Seq(Event) /\ Len(x) = Len(l) + 1
    OBVIOUS
  <1>3. DOMAIN x = 1 .. Len(l) + 1
    BY <1>2
  <1>4. x[Len(l) + 1] = e /\ \A k \in 1 .. Len(l) : x[k] = l[k]
    OBVIOUS
  <1>5. \A n \in Nat : n + 1 # 0 /\ n + 1 \in 1 .. n + 1 /\ \A k \in 1 .. n + 1 : k \in 1 .. n \/ k = n + 1
    OBVIOUS
  <1>6. \A n \in Nat : \A k \in 1 .. n : k \in 1 .. n + 1
    OBVIOUS
  <1>7. x # <<>>
    BY <1>1, <1>2, <1>5
  <1>8. EverOpenIn(x) <=> EverOpenIn(l) \/ Opens(e)
    BY <1>1, <1>3, <1>4, <1>5, <1>6 DEF EverOpenIn
  <1>9. Unstarted(l) /\ ~e.started => Unstarted(x)
    BY <1>1, <1>3, <1>4, <1>5 DEF Unstarted
  <1> QED
    BY <1>2, <1>4, <1>7, <1>8, <1>9

LEMMA LogBegun ==
    ASSUME NEW e \in Event, NEW x, x = <<e>>
    PROVE  /\ x \in Seq(Event) /\ x # <<>> /\ x[Len(x)] = e
           /\ EverOpenIn(x) <=> Opens(e)
           /\ ~e.started => Unstarted(x)
  <1>1. DOMAIN x = {1} /\ Len(x) = 1 /\ x[1] = e
    OBVIOUS
  <1> QED
    BY <1>1 DEF EverOpenIn, Unstarted

LEMMA LastOfLog ==
    ASSUME NEW l \in Seq(Event), l # <<>>
    PROVE  /\ Len(l) \in DOMAIN l /\ l[Len(l)] \in Event
           /\ Opens(l[Len(l)]) => EverOpenIn(l)
           /\ Unstarted(l) => ~EverOpenIn(l)
  <1>1. Len(l) \in Nat /\ DOMAIN l = 1 .. Len(l) /\ Len(l) # 0
    OBVIOUS
  <1>2. Len(l) \in DOMAIN l
    BY <1>1
  <1> QED
    BY <1>2 DEF EverOpenIn, Unstarted, Opens

\* The histories after a step.
LEMMA Watched ==
    ASSUME Project!Watch, NEW m \in Memberships
    PROVE  m \in opened' <=> /\ member'[m].sprint # 0
                             /\ \/ m \in opened
                                \/ /\ member'[m].active /\ sprint'[member'[m].sprint] = "active"
                                   /\ status'[member'[m].item] \notin done'
  BY DEF Project!Watch, Project!Live, Project!None

LEMMA WatchedOnly ==
    ASSUME Project!Watch PROVE opened' \subseteq Memberships
  BY DEF Project!Watch

\* A membership that no page touched, unless its item went after it had ended.
LEMMA MemberStays ==
    ASSUME SprintTypeOK, NEW m \in Memberships, MemberInv(m), Project!Watch,
           member'[m].sprint = member[m].sprint, member'[m].active = member[m].active,
           member'[m].completed = member[m].completed, log'[m] = log[m],
           member[m].active \/ member[m].sprint = 0 => member'[m] = member[m],
           member[m].sprint # 0 => sprint'[member[m].sprint] = sprint[member[m].sprint],
           member[m].active => kind'[member[m].item] = "task",
           member[m].sprint # 0 /\ m \in silent => m \in silent',
           member[m].active /\ sprint[member[m].sprint] = "active" /\ m \notin silent' =>
               (status'[member[m].item] \in done' <=> status[member[m].item] \in done)
    PROVE  MemberInv(m)'
  <1>1. member[m] \in Membership /\ log[m] \in Seq(Event)
    BY DEF SprintTypeOK
  <1>2. member[m].sprint # 0 /\ sprint[member[m].sprint] = "planned" => m \notin opened'
    BY Watched DEF MemberInv
  <1>3. ASSUME member[m].active, sprint[member[m].sprint] = "active"
        PROVE  LiveLog(log[m], status'[member[m].item] \in done', m \in opened', m \in silent')
    <2>1. /\ member'[m] = member[m] /\ member[m].sprint # 0 /\ sprint'[member'[m].sprint] = "active"
          /\ LiveLog(log[m], status[member[m].item] \in done, m \in opened, m \in silent)
      BY <1>3 DEF MemberInv
    <2>2. m \in opened' <=> m \in opened \/ status'[member[m].item] \notin done'
      BY <1>3, <2>1, Watched
    <2>3. log[m] # <<>> /\ log[m][Len(log[m])].started /\ log[m][Len(log[m])].kind \in Told
      BY <2>1 DEF LiveLog
    <2>4. Opens(log[m][Len(log[m])]) => EverOpenIn(log[m])
      BY <1>1, <2>3, LastOfLog
    <2>5. log[m][Len(log[m])].done \in BOOLEAN
      BY <1>1, <2>3, LastOfLog DEF Event
    <2>6. m \in silent => m \in silent'
      BY <2>1
    <2>7. m \notin silent' => /\ m \notin silent /\ log[m][Len(log[m])].done = (status'[member[m].item] \in done')
                              /\ (status'[member[m].item] \in done' <=> status[member[m].item] \in done)
      BY <1>3, <2>1, <2>6 DEF LiveLog
    <2>8. m \in opened' /\ m \notin silent' => EverOpenIn(log[m])
      BY <2>1, <2>2, <2>3, <2>4, <2>5, <2>7 DEF LiveLog, Opens
    <2> QED
      BY <2>1, <2>2, <2>3, <2>7, <2>8 DEF LiveLog
  <1>4. member[m].sprint = 0 => member'[m] = member[m] /\ m \notin opened'
    BY Watched DEF MemberInv
  <1> QED
    BY <1>2, <1>3, <1>4 DEF MemberInv

\* One that has ended, or is not there any more.
LEMMA MemberOver ==
    ASSUME NEW m \in Memberships, Project!Watch, ~member'[m].active,
           \/ member'[m] = Project!NoMember
           \/ /\ member'[m].sprint # 0 /\ sprint'[member'[m].sprint] \in {"active", "closed"}
              /\ member'[m].completed => sprint'[member'[m].sprint] = "closed"
    PROVE  MemberInv(m)'
  <1>1. CASE member'[m] = Project!NoMember
    <2>1. member'[m].sprint = 0 /\ ~member'[m].active /\ ~member'[m].completed
      BY <1>1 DEF Project!NoMember, Project!None
    <2>2. m \notin opened'
      BY <2>1, Watched
    <2> QED
      BY <1>1, <2>1, <2>2 DEF MemberInv, Project!NoMember
  <1>2. CASE /\ member'[m].sprint # 0 /\ sprint'[member'[m].sprint] \in {"active", "closed"}
             /\ member'[m].completed => sprint'[member'[m].sprint] = "closed"
    BY <1>2 DEF MemberInv
  <1> QED
    BY <1>1, <1>2

\* One that is taken out of its sprint, and says so.
LEMMA MemberRemoved ==
    ASSUME SprintTypeOK, NEW m \in Memberships, MemberInv(m), Project!Watch, member[m].active,
           member'[m].sprint = member[m].sprint, ~member'[m].active, member'[m].completed = member[m].completed,
           sprint'[member[m].sprint] = sprint[member[m].sprint],
           NEW e \in Event, log'[m] = Append(log[m], e), sprint[member[m].sprint] = "planned" => ~e.started
    PROVE  MemberInv(m)'
  <1>1. log[m] \in Seq(Event)
    BY DEF SprintTypeOK
  <1>2. member[m].sprint # 0 /\ ~member[m].completed /\ sprint[member[m].sprint] \in {"planned", "active"}
    BY DEF MemberInv
  <1>3. sprint[member[m].sprint] = "planned" => m \notin opened' /\ Unstarted(log'[m])
    BY <1>1, <1>2, Watched, LogAppended DEF MemberInv
  <1> QED
    BY <1>2, <1>3 DEF MemberInv

\* One of a running sprint about which something is recorded.
LEMMA MemberTold ==
    ASSUME SprintTypeOK, NEW m \in Memberships, MemberInv(m), Project!Watch, member[m].active,
           member'[m] = member[m], sprint'[member[m].sprint] = "active", kind'[member[m].item] = "task",
           m \in silent => m \in silent',
           NEW e \in Event, log'[m] = Append(log[m], e), e.started, e.kind \in Told,
           e.done = (status'[member[m].item] \in done')
    PROVE  MemberInv(m)'
  <1>1. log[m] \in Seq(Event)
    BY DEF SprintTypeOK
  <1>2. member[m].sprint # 0 /\ member[m].item # 0 /\ ~member[m].completed
        /\ sprint[member[m].sprint] \in {"planned", "active"}
    BY DEF MemberInv
  <1>3. (EverOpenIn(log[m]) => m \in opened) /\ (m \in opened /\ m \notin silent => EverOpenIn(log[m]))
    <2>1. CASE sprint[member[m].sprint] = "planned"
      BY <1>2, <2>1 DEF MemberInv, Unstarted, EverOpenIn, Opens
    <2>2. CASE sprint[member[m].sprint] = "active"
      BY <2>2 DEF MemberInv, LiveLog
    <2> QED
      BY <1>2, <2>1, <2>2
  <1>4. m \in opened' <=> m \in opened \/ status'[member[m].item] \notin done'
    BY <1>2, Watched
  <1>5. /\ log'[m] # <<>> /\ log'[m][Len(log'[m])] = e
        /\ EverOpenIn(log'[m]) <=> EverOpenIn(log[m]) \/ Opens(e)
    <2>1. PICK l \in Seq(Event) : l = log[m]
      BY <1>1
    <2>2. PICK x : x = Append(l, e)
      OBVIOUS
    <2>3. x # <<>> /\ x[Len(x)] = e /\ (EverOpenIn(x) <=> EverOpenIn(l) \/ Opens(e))
      BY <2>2, LogAppended
    <2> QED
      BY <2>1, <2>2, <2>3
  <1>6. Opens(e) <=> status'[member[m].item] \notin done'
    BY DEF Opens, Event
  <1>7. LiveLog(log'[m], status'[member[m].item] \in done', m \in opened', m \in silent')
    BY <1>3, <1>4, <1>5, <1>6 DEF LiveLog
  <1> QED
    BY <1>2, <1>7 DEF MemberInv

\* A new one.
LEMMA MemberAdded ==
    ASSUME NEW m \in Memberships, MemberInv(m), Project!Watch, member[m] = Project!NoMember,
           NEW i \in Items, NEW s \in Sprints, member'[m] = Project!Added(i, s),
           sprint'[s] \in {"planned", "active"}, kind'[i] = "task",
           NEW e \in Event, log'[m] = <<e>>, e.kind = "added", e.started = (sprint'[s] = "active"),
           e.done = (status'[i] \in done')
    PROVE  MemberInv(m)'
  <1>1. /\ member'[m].sprint = s /\ member'[m].item = i /\ member'[m].active /\ ~member'[m].completed
        /\ s # 0 /\ i # 0
    BY ProjectAssumption DEF Project!Added
  <1>2. m \notin opened
    BY DEF MemberInv, Project!NoMember, Project!None
  <1>3. /\ log'[m] # <<>> /\ log'[m][Len(log'[m])] = e
        /\ EverOpenIn(log'[m]) <=> Opens(e)
        /\ ~e.started => Unstarted(log'[m])
    BY LogBegun
  <1>4. m \in opened' <=> sprint'[s] = "active" /\ status'[i] \notin done'
    BY <1>1, <1>2, Watched
  <1>5. sprint'[s] = "active" => (Opens(e) <=> status'[i] \notin done')
    BY DEF Opens, Event, Told
  <1>6. sprint'[s] = "active" => LiveLog(log'[m], status'[i] \in done', m \in opened', m \in silent')
    BY <1>3, <1>4, <1>5 DEF LiveLog, Told
  <1>7. sprint'[s] = "planned" => m \notin opened' /\ Unstarted(log'[m])
    BY <1>3, <1>4
  <1> QED
    BY <1>1, <1>6, <1>7 DEF MemberInv

\* Nothing happens any more to the memberships of a closed sprint.
LEMMA ClosedKept ==
    ASSUME SprintInv, Project!Watch, NEW s \in Sprints, sprint[s] = "closed", sprint'[s] = "closed",
           outcome'[s] = outcome[s],
           \A m \in Memberships : member[m].sprint = s <=> member'[m].sprint = s,
           \A m \in Memberships : member[m].sprint = s =>
               /\ member'[m].active = member[m].active /\ member'[m].completed = member[m].completed
               /\ log'[m] = log[m] /\ (m \in silent => m \in silent')
    PROVE  ClosedReport(s)'
  <1>0. s # 0 /\ ClosedReport(s)
    BY ProjectAssumption DEF SprintInv
  <1>1. \A m \in Memberships : member[m].sprint = s => ~member[m].active
    BY DEF SprintInv, MemberInv
  <1>2. \A m \in Memberships : member[m].sprint = s => (m \in opened' <=> m \in opened)
    BY <1>0, <1>1, Watched
  <1>3. outcome'[s] = {m \in Memberships : /\ member'[m].sprint = s /\ (member'[m].active \/ member'[m].completed)
                                           /\ log'[m][Len(log'[m])].done /\ EverOpenIn(log'[m])}
    <2>1. \A m \in Memberships :
            m \in outcome[s] <=> /\ member[m].sprint = s /\ (member[m].active \/ member[m].completed)
                                 /\ log[m][Len(log[m])].done /\ EverOpenIn(log[m])
      BY <1>0 DEF ClosedReport
    <2>2. \A m \in Memberships :
            m \in outcome'[s] <=> /\ member'[m].sprint = s /\ (member'[m].active \/ member'[m].completed)
                                  /\ log'[m][Len(log'[m])].done /\ EverOpenIn(log'[m])
      BY <2>1
    <2>3. outcome'[s] \subseteq Memberships
      BY DEF SprintInv, SprintTypeOK
    <2> QED
      BY <2>2, <2>3
  <1>4. outcome'[s] \subseteq opened'
    <2>1. \A m \in outcome[s] : m \in Memberships /\ member[m].sprint = s /\ m \in opened
      BY <1>0 DEF ClosedReport
    <2> QED
      BY <1>2, <2>1
  <1>5. ASSUME NEW m \in opened' \ silent', member'[m].sprint = s, log'[m][Len(log'[m])].done, member'[m].completed
        PROVE  m \in outcome'[s]
    <2>1. m \in Memberships
      BY <1>5, WatchedOnly
    <2>2. member[m].sprint = s /\ m \in opened /\ m \notin silent /\ log[m][Len(log[m])].done /\ member[m].completed
      BY <1>2, <1>5, <2>1
    <2> QED
      BY <1>0, <2>2 DEF ClosedReport
  <1> QED
    BY <1>3, <1>4, <1>5 DEF ClosedReport

\* A step that closes no sprint, keeps the ones that are closed, and keeps each
\* membership by the lemmas above.
LEMMA SprintStep ==
    ASSUME SprintInv, SprintTypeOK', Project!Watch, \A m \in Memberships : MemberInv(m)',
           outcome' = outcome, \A s \in Sprints : sprint'[s] = "closed" <=> sprint[s] = "closed",
           \A m \in Memberships : member[m].sprint # 0 /\ sprint[member[m].sprint] = "closed" =>
               /\ member'[m].sprint = member[m].sprint
               /\ member'[m].active = member[m].active /\ member'[m].completed = member[m].completed
               /\ log'[m] = log[m] /\ (m \in silent => m \in silent'),
           \A m \in Memberships : member'[m].sprint # 0 /\ sprint[member'[m].sprint] = "closed" =>
               member[m].sprint = member'[m].sprint
    PROVE  SprintInv'
  <1>1. ASSUME NEW s \in Sprints, sprint'[s] = "closed" PROVE ClosedReport(s)'
    <2>1. sprint[s] = "closed" /\ s # 0 /\ outcome'[s] = outcome[s]
      BY <1>1, ProjectAssumption
    <2>2. \A m \in Memberships : member[m].sprint = s <=> member'[m].sprint = s
      BY <2>1
    <2>3. \A m \in Memberships : member[m].sprint = s =>
               /\ member'[m].active = member[m].active /\ member'[m].completed = member[m].completed
               /\ log'[m] = log[m] /\ (m \in silent => m \in silent')
      BY <2>1
    <2> QED
      BY <1>1, <2>1, <2>2, <2>3, ClosedKept
  <1> QED
    BY <1>1, WatchedOnly DEF SprintInv

\* snapshot and event.
LEMMA EventMade ==
    ASSUME NEW k \in Told \cup {"removed"}, NEW dn \in BOOLEAN, NEW b \in BOOLEAN
    PROVE  LET e == [kind |-> k, done |-> dn, started |-> b] IN
           e \in Event /\ e.kind = k /\ e.started = b /\ e.done = dn
  BY DEF Event

LEMMA EntryMade ==
    ASSUME NEW k \in Told \cup {"removed"}, NEW i, NEW b \in BOOLEAN
    PROVE  LET e == Project!Entry(k, i, b) IN
           e \in Event /\ e.kind = k /\ e.started = b /\ e.done = (status[i] \in done)
  <1>1. (status[i] \in done) \in BOOLEAN
    OBVIOUS
  <1> QED
    BY <1>1, EventMade DEF Project!Entry, Project!IsDone

LEMMA StartedEntry ==
    ASSUME NEW k \in Told, NEW i
    PROVE  LET e == Project!Entry(k, i, TRUE) IN
           e \in Event /\ e.kind \in Told /\ e.started /\ e.done = (status[i] \in done)
  <1>1. TRUE \in BOOLEAN /\ k \in Told \cup {"removed"}
    OBVIOUS
  <1>2. PICK e : e = Project!Entry(k, i, TRUE)
    OBVIOUS
  <1>3. e \in Event /\ e.kind = k /\ e.started = TRUE /\ e.done = (status[i] \in done)
    BY <1>1, <1>2, EntryMade, Zenon
  <1> QED
    BY <1>2, <1>3

\* _detach.
LEMMA Detaching ==
    ASSUME SprintInv, NEW D \in SUBSET Memberships, \A m \in D : member[m].active,
           NEW d, d = Project!Detached(D), NEW dl, dl = Project!DetachLog(D)
    PROVE  /\ d \in [Memberships -> Membership] /\ dl \in [Memberships -> Seq(Event)]
           /\ \A m \in Memberships : m \notin D => d[m] = member[m] /\ dl[m] = log[m]
           /\ \A m \in D : /\ d[m].sprint = member[m].sprint /\ ~d[m].active
                           /\ d[m].completed = member[m].completed /\ d[m].item = member[m].item
                           /\ \E e \in Event : /\ dl[m] = Append(log[m], e)
                                               /\ sprint[member[m].sprint] = "planned" => ~e.started
  <1>1. \A x \in Membership : LET y == [x EXCEPT !.active = FALSE] IN
            /\ y \in Membership /\ y.sprint = x.sprint /\ ~y.active /\ y.completed = x.completed /\ y.item = x.item
    BY DEF Membership
  <1>2. \A m \in Memberships : member[m] \in Membership /\ log[m] \in Seq(Event)
    BY DEF SprintInv, SprintTypeOK
  <1>3. d = [m \in Memberships |-> IF m \in D THEN [member[m] EXCEPT !.active = FALSE] ELSE member[m]]
    BY DEF Project!Detached
  <1>4. /\ \A m \in Memberships : d[m] \in Membership
        /\ \A m \in Memberships : m \notin D => d[m] = member[m]
        /\ \A m \in D : /\ d[m].sprint = member[m].sprint /\ ~d[m].active
                        /\ d[m].completed = member[m].completed /\ d[m].item = member[m].item
    BY <1>1, <1>2, <1>3
  <1>5. ASSUME NEW m \in D
        PROVE  \E e \in Event : /\ dl[m] = Append(log[m], e)
                                /\ sprint[member[m].sprint] = "planned" => ~e.started
    <2>1. Project!Started(member[m].sprint) \in BOOLEAN
      BY DEF Project!Started
    <2>2. PICK e \in Event : /\ e = Project!Entry("removed", member[m].item, Project!Started(member[m].sprint))
                             /\ e.started = Project!Started(member[m].sprint)
      BY <2>1, EntryMade
    <2>4. sprint[member[m].sprint] = "planned" => ~e.started
      BY <2>2 DEF Project!Started
    <2>3. dl[m] = Append(log[m], e)
      BY <2>2 DEF Project!DetachLog
    <2> QED
      BY <2>3, <2>4
  <1>6. /\ dl = [m \in Memberships |-> dl[m]]
        /\ \A m \in Memberships : m \notin D => dl[m] = log[m]
    BY DEF Project!DetachLog
  <1>7. \A m \in Memberships : dl[m] \in Seq(Event)
    <2>1. \A l \in Seq(Event), e \in Event : Append(l, e) \in Seq(Event)
      OBVIOUS
    <2> QED
      BY <1>2, <1>5, <1>6, <2>1
  <1>8. d \in [Memberships -> Membership]
    BY <1>3, <1>4
  <1>9. dl \in [Memberships -> Seq(Event)]
    BY <1>6, <1>7
  <1> QED
    BY <1>4, <1>5, <1>6, <1>8, <1>9

\* What the invariant says of each row, and what the two histories of silent
\* changes keep.
LEMMA SprintFacts ==
    ASSUME SprintInv
    PROVE  /\ SprintTypeOK /\ \A m \in Memberships : MemberInv(m)
           /\ \A m \in Memberships : member[m] \in Membership /\ log[m] \in Seq(Event)
           /\ \A m \in Memberships : member[m].sprint # 0 => member[m].sprint \in Sprints
           /\ \A m \in Memberships : member[m].item # 0 => member[m].item \in Items
           /\ \A m \in Memberships : member[m].active => /\ member[m].item \in Items /\ member[m].sprint \in Sprints
                                                         /\ member[m].sprint # 0 /\ kind[member[m].item] = "task"
           /\ \A s \in Sprints : s # 0
           /\ \A j \in Items : j # 0
  <1>1. \A m \in Memberships : member[m] \in Membership /\ log[m] \in Seq(Event)
    BY DEF SprintInv, SprintTypeOK
  <1>2. \A m \in Memberships : member[m].sprint # 0 => member[m].sprint \in Sprints
    BY <1>1 DEF Membership
  <1>3. \A m \in Memberships : member[m].item # 0 => member[m].item \in Items
    BY <1>1 DEF Membership
  <1> QED
    BY <1>1, <1>2, <1>3, ProjectAssumption DEF SprintInv, MemberInv

LEMMA SilentKept ==
    ASSUME Project!Logged \/ Project!Unlogged, NEW m \in Memberships, m \in silent, member'[m].sprint # 0
    PROVE  m \in silent'
  BY DEF Project!Logged, Project!Unlogged, Project!None

LEMMA SaveKeeps ==
    ASSUME SprintInv, Project!Watch, Project!Logged, NEW s \in Sprints, Project!Save(s)
    PROVE  SprintInv'
  <1>1. /\ sprint[s] = "none" /\ sprint' = [sprint EXCEPT ![s] = "planned"]
        /\ kind' = kind /\ status' = status /\ done' = done /\ member' = member /\ log' = log /\ outcome' = outcome
    BY DEF Project!Save, Project!items
  <1>2. SprintTypeOK'
    BY <1>1, SprintFacts DEF SprintTypeOK
  <1>3. \A t \in Sprints : sprint[t] # "none" => sprint'[t] = sprint[t]
    BY <1>1, SprintFacts DEF SprintTypeOK
  <1>4. \A t \in Sprints : sprint'[t] = "closed" <=> sprint[t] = "closed"
    BY <1>1, SprintFacts DEF SprintTypeOK
  <1>5. ASSUME NEW m \in Memberships PROVE MemberInv(m)'
    <2>1. member[m].sprint # 0 => sprint'[member[m].sprint] = sprint[member[m].sprint]
      BY <1>3, SprintFacts DEF MemberInv
    <2>2. member[m].sprint # 0 /\ m \in silent => m \in silent'
      BY <1>1, SilentKept
    <2> QED
      BY <1>1, <2>1, <2>2, SprintFacts, MemberStays
  <1> QED
    BY <1>1, <1>2, <1>4, <1>5, SilentKept, SprintStep

LEMMA StartKeeps ==
    ASSUME SprintInv, Project!Watch, Project!Logged, NEW s \in Sprints, Project!Start(s)
    PROVE  SprintInv'
  <1> DEFINE M == {m \in Memberships : member[m].sprint = s /\ member[m].active}
  <1>1. /\ sprint[s] = "planned" /\ sprint' = [sprint EXCEPT ![s] = "active"]
        /\ kind' = kind /\ status' = status /\ done' = done /\ member' = member /\ outcome' = outcome
        /\ log' = [m \in Memberships |->
                     IF m \in M THEN Append(log[m], Project!Entry("baseline", member[m].item, TRUE)) ELSE log[m]]
    BY DEF Project!Start, Project!items, Project!Members
  <1>2. /\ sprint' \in [Sprints -> {"none", "planned", "active", "closed"}] /\ sprint'[s] = "active"
        /\ \A t \in Sprints : t # s => sprint'[t] = sprint[t]
    BY <1>1, SprintFacts DEF SprintTypeOK
  <1>3. ASSUME NEW m \in M
        PROVE  \E e \in Event : /\ log'[m] = Append(log[m], e) /\ e.started /\ e.kind \in Told
                                /\ e.done = (status'[member[m].item] \in done')
    <2>1. "baseline" \in Told
      BY DEF Told
    <2>2. PICK e : e = Project!Entry("baseline", member[m].item, TRUE)
      OBVIOUS
    <2>3. e \in Event /\ e.kind \in Told /\ e.started /\ e.done = (status[member[m].item] \in done)
      BY <2>1, <2>2, StartedEntry, Zenon
    <2> QED
      BY <1>1, <2>2, <2>3
  <1>4. log' \in [Memberships -> Seq(Event)]
    <2>1. \A l \in Seq(Event), e \in Event : Append(l, e) \in Seq(Event)
      OBVIOUS
    <2>2. \A m \in Memberships : log'[m] \in Seq(Event)
      BY <1>1, <1>3, <2>1, SprintFacts
    <2> QED
      BY <1>1, <2>2
  <1>5. SprintTypeOK'
    BY <1>1, <1>2, <1>4, SprintFacts DEF SprintTypeOK
  <1>6. \A m \in Memberships : member[m].sprint # 0 /\ m \in silent => m \in silent'
    BY <1>1, SilentKept
  <1>7. ASSUME NEW m \in Memberships PROVE MemberInv(m)'
    <2>1. CASE m \in M
      <3>1. PICK e \in Event : /\ log'[m] = Append(log[m], e) /\ e.started /\ e.kind \in Told
                               /\ e.done = (status'[member[m].item] \in done')
        BY <1>3, <2>1
      <3>2. member[m].active /\ sprint'[member[m].sprint] = "active" /\ kind'[member[m].item] = "task"
            /\ (m \in silent => m \in silent')
        BY <1>1, <1>2, <1>6, <2>1, SprintFacts
      <3> QED
        BY <1>1, <3>1, <3>2, SprintFacts, MemberTold
    <2>2. CASE m \notin M /\ member[m].sprint = s
      <3>1. ~member[m].active /\ ~member[m].completed
        BY <1>1, <2>2, SprintFacts DEF MemberInv
      <3> QED
        BY <1>1, <1>2, <2>2, <3>1, SprintFacts, MemberOver
    <2>3. CASE member[m].sprint # s
      <3>1. log'[m] = log[m] /\ (member[m].sprint # 0 => sprint'[member[m].sprint] = sprint[member[m].sprint])
        BY <1>1, <1>2, <2>3, SprintFacts
      <3> QED
        BY <1>1, <1>6, <3>1, SprintFacts, MemberStays
    <2> QED
      BY <2>1, <2>2, <2>3
  <1>8. \A t \in Sprints : sprint'[t] = "closed" <=> sprint[t] = "closed"
    BY <1>1, <1>2
  <1>9. \A m \in Memberships : member[m].sprint # 0 /\ sprint[member[m].sprint] = "closed" => log'[m] = log[m]
    BY <1>1
  <1> QED
    BY <1>1, <1>5, <1>6, <1>7, <1>8, <1>9, SprintStep

LEMMA DeleteKeeps ==
    ASSUME SprintInv, Project!Watch, Project!Logged, NEW s \in Sprints, Project!Delete(s)
    PROVE  SprintInv'
  <1>1. /\ sprint[s] = "planned" /\ sprint' = [sprint EXCEPT ![s] = "none"]
        /\ kind' = kind /\ status' = status /\ done' = done /\ outcome' = outcome
        /\ member' = [m \in Memberships |-> IF member[m].sprint = s THEN Project!NoMember ELSE member[m]]
        /\ log' = [m \in Memberships |-> IF member[m].sprint = s THEN <<>> ELSE log[m]]
    BY DEF Project!Delete, Project!items
  <1>2. /\ sprint' \in [Sprints -> {"none", "planned", "active", "closed"}] /\ sprint'[s] = "none"
        /\ \A t \in Sprints : t # s => sprint'[t] = sprint[t]
    BY <1>1, SprintFacts DEF SprintTypeOK
  <1>3. Project!NoMember \in Membership /\ Project!NoMember.sprint = 0 /\ ~Project!NoMember.active
    BY DEF Project!NoMember, Project!None, Membership
  <1>4. <<>> \in Seq(Event)
    OBVIOUS
  <1>5. SprintTypeOK'
    <2>1. member' \in [Memberships -> Membership]
      BY <1>1, <1>3, SprintFacts
    <2>2. log' \in [Memberships -> Seq(Event)]
      BY <1>1, <1>4, SprintFacts
    <2> QED
      BY <1>1, <1>2, <2>1, <2>2, SprintFacts DEF SprintTypeOK
  <1>6. \A m \in Memberships : member[m].sprint # s /\ member[m].sprint # 0 /\ m \in silent => m \in silent'
    BY <1>1, SilentKept
  <1>7. ASSUME NEW m \in Memberships PROVE MemberInv(m)'
    <2>1. CASE member[m].sprint = s
      <3>1. member'[m] = Project!NoMember
        BY <1>1, <2>1
      <3> QED
        BY <1>3, <3>1, MemberOver
    <2>2. CASE member[m].sprint # s
      <3>1. /\ log'[m] = log[m] /\ member'[m] = member[m]
            /\ member[m].sprint # 0 => sprint'[member[m].sprint] = sprint[member[m].sprint]
        BY <1>1, <1>2, <2>2, SprintFacts
      <3> QED
        BY <1>1, <1>6, <2>2, <3>1, SprintFacts, MemberStays
    <2> QED
      BY <2>1, <2>2
  <1>8. \A t \in Sprints : sprint'[t] = "closed" <=> sprint[t] = "closed"
    BY <1>1, <1>2
  <1>9. \A m \in Memberships : member[m].sprint # 0 /\ sprint[member[m].sprint] = "closed" =>
            member'[m] = member[m] /\ log'[m] = log[m] /\ (m \in silent => m \in silent')
    BY <1>1, <1>6
  <1>10. \A m \in Memberships : member'[m].sprint # 0 => member'[m] = member[m]
    BY <1>1, <1>3
  <1> QED
    BY <1>1, <1>5, <1>7, <1>8, <1>9, <1>10, SprintStep

\* Pages that take the memberships D out of their sprints, forgetting the items
\* of memberships that ended before.
LEMMA RemovalKeeps ==
    ASSUME SprintInv, Project!Watch, Project!Logged, SprintTypeOK', NEW D \in SUBSET Memberships,
           \A m \in D : member[m].active,
           NEW F, F \in SUBSET Memberships, \A m \in F : member'[m].active /\ MemberInv(m)' /\ member[m] = Project!NoMember
                                                         /\ sprint[member'[m].sprint] # "closed",
           NEW d, d = Project!Detached(D), NEW dl, dl = Project!DetachLog(D),
           \A m \in Memberships \ F : /\ member'[m].sprint = d[m].sprint /\ member'[m].active = d[m].active
                                      /\ member'[m].completed = d[m].completed /\ log'[m] = dl[m]
                                      /\ d[m].active \/ d[m].sprint = 0 => member'[m] = d[m],
           sprint' = sprint, outcome' = outcome, done' = done,
           \A m \in Memberships \ D : member[m].active =>
               /\ kind'[member[m].item] = "task" /\ status'[member[m].item] = status[member[m].item]
    PROVE  SprintInv'
  <1>1. /\ \A m \in Memberships : m \notin D => d[m] = member[m] /\ dl[m] = log[m]
        /\ \A m \in D : /\ d[m].sprint = member[m].sprint /\ ~d[m].active /\ d[m].completed = member[m].completed
                        /\ \E e \in Event : /\ dl[m] = Append(log[m], e)
                                            /\ sprint[member[m].sprint] = "planned" => ~e.started
    BY Detaching
  <1>2. \A m \in F : m \notin D /\ member[m].sprint = 0
    BY DEF Project!NoMember, Project!None
  <1>3. \A m \in Memberships \ F : member'[m].sprint = member[m].sprint
    BY <1>1
  <1>4. ASSUME NEW m \in Memberships PROVE MemberInv(m)'
    <2>1. CASE m \in F
      BY <2>1
    <2>2. CASE m \in D
      <3>1. m \notin F /\ member[m].active
        BY <1>2, <2>2
      <3>2. PICK e \in Event : log'[m] = Append(log[m], e) /\ (sprint[member[m].sprint] = "planned" => ~e.started)
        BY <1>1, <2>2, <3>1
      <3>3. member'[m].sprint = member[m].sprint /\ ~member'[m].active /\ member'[m].completed = member[m].completed
        BY <1>1, <2>2, <3>1
      <3> QED
        BY <3>1, <3>2, <3>3, SprintFacts, MemberRemoved
    <2>3. CASE m \notin F /\ m \notin D
      <3>1. /\ member'[m].sprint = member[m].sprint /\ member'[m].active = member[m].active
            /\ member'[m].completed = member[m].completed /\ log'[m] = log[m]
            /\ member[m].active \/ member[m].sprint = 0 => member'[m] = member[m]
        BY <1>1, <2>3
      <3>2. member[m].sprint # 0 /\ m \in silent => m \in silent'
        BY <3>1, SilentKept
      <3>3. /\ member[m].active => kind'[member[m].item] = "task"
            /\ member[m].active => (status'[member[m].item] \in done' <=> status[member[m].item] \in done)
        BY <2>3
      <3>4. member[m].sprint # 0 => sprint'[member[m].sprint] = sprint[member[m].sprint]
        OBVIOUS
      <3> QED
        BY <3>1, <3>2, <3>3, <3>4, SprintFacts, MemberStays
    <2> QED
      BY <2>1, <2>2, <2>3
  <1>5. \A m \in Memberships : member[m].sprint # 0 /\ sprint[member[m].sprint] = "closed" =>
               /\ member'[m].sprint = member[m].sprint
               /\ member'[m].active = member[m].active /\ member'[m].completed = member[m].completed
               /\ log'[m] = log[m] /\ (m \in silent => m \in silent')
    <2>1. ASSUME NEW m \in Memberships, member[m].sprint # 0, sprint[member[m].sprint] = "closed"
          PROVE  m \notin F /\ m \notin D
      BY <1>2, <2>1, SprintFacts DEF MemberInv
    <2> QED
      BY <1>1, <2>1, SilentKept
  <1>6. \A m \in Memberships : member'[m].sprint # 0 /\ sprint[member'[m].sprint] = "closed" =>
               member[m].sprint = member'[m].sprint
    BY <1>3
  <1> QED
    BY <1>4, <1>5, <1>6, SprintStep

LEMMA AssignKeeps ==
    ASSUME SprintInv, Project!Watch, Project!Logged, NEW i \in Items, NEW target \in Sprints \cup {0},
           Project!Assign(i, target)
    PROVE  SprintInv'
  <1>1. PICK D : D = Project!Current(i)
    OBVIOUS
  <1>2. D \in SUBSET Memberships /\ \A m \in D : member[m].active
    BY <1>1 DEF Project!Current
  <1>3. PICK d : d = Project!Detached(D)
    OBVIOUS
  <1>4. PICK dl : dl = Project!DetachLog(D)
    OBVIOUS
  <1>5. /\ d \in [Memberships -> Membership] /\ dl \in [Memberships -> Seq(Event)]
        /\ \A m \in Memberships : m \notin D => d[m] = member[m] /\ dl[m] = log[m]
    BY <1>2, <1>3, <1>4, Detaching
  <1>6. kind' = kind /\ status' = status /\ done' = done /\ sprint' = sprint /\ outcome' = outcome
    BY DEF Project!Assign, Project!items
  <1>7. \A m \in Memberships \ D : member[m].active =>
            kind'[member[m].item] = "task" /\ status'[member[m].item] = status[member[m].item]
    BY <1>6, SprintFacts
  <1>8. CASE target = 0
    <2>1. member' = d /\ log' = dl
      BY <1>1, <1>3, <1>4, <1>8 DEF Project!Assign, Project!None
    <2>2. SprintTypeOK'
      BY <1>5, <1>6, <2>1, SprintFacts DEF SprintTypeOK
    <2>3. PICK F : F = {}
      OBVIOUS
    <2>4. /\ F \in SUBSET Memberships
          /\ \A m \in F : /\ member'[m].active /\ MemberInv(m)' /\ member[m] = Project!NoMember
                          /\ sprint[member'[m].sprint] # "closed"
      BY <2>3
    <2>5. \A m \in Memberships \ F : /\ member'[m].sprint = d[m].sprint /\ member'[m].active = d[m].active
                                     /\ member'[m].completed = d[m].completed /\ log'[m] = dl[m]
                                     /\ d[m].active \/ d[m].sprint = 0 => member'[m] = d[m]
      BY <2>1
    <2> QED
      BY <1>2, <1>3, <1>4, <1>6, <1>7, <2>2, <2>4, <2>5, RemovalKeeps
  <1>9. CASE target # 0
    <2>1. /\ target \in Sprints /\ sprint[target] \in {"planned", "active"} /\ kind[i] = "task"
          /\ \E m \in Project!Free :
                /\ member' = [d EXCEPT ![m] = Project!Added(i, target)]
                /\ log' = [dl EXCEPT ![m] = <<Project!Entry("added", i, Project!Started(target))>>]
      BY <1>1, <1>3, <1>4, <1>9 DEF Project!Assign, Project!None
    <2>2. PICK m0 \in Memberships :
                /\ member[m0] = Project!NoMember
                /\ member' = [d EXCEPT ![m0] = Project!Added(i, target)]
                /\ log' = [dl EXCEPT ![m0] = <<Project!Entry("added", i, Project!Started(target))>>]
      BY <2>1 DEF Project!Free
    <2>3. Project!Started(target) \in BOOLEAN /\ Project!Started(target) = (sprint[target] = "active")
      BY <2>1 DEF Project!Started
    <2>4. PICK e : e = Project!Entry("added", i, Project!Started(target))
      OBVIOUS
    <2>5. "added" \in Told \cup {"removed"}
      BY DEF Told
    <2>6. e \in Event /\ e.kind = "added" /\ e.started = Project!Started(target) /\ e.done = (status[i] \in done)
      BY <2>3, <2>4, <2>5, EntryMade, Zenon
    <2>7. Project!Added(i, target) \in Membership /\ Project!Added(i, target).sprint = target
          /\ Project!Added(i, target).active
      BY <2>1 DEF Project!Added, Membership
    <2>8. <<e>> \in Seq(Event)
      BY <2>6, LogBegun
    <2>9. member' \in [Memberships -> Membership] /\ log' \in [Memberships -> Seq(Event)]
      BY <1>5, <2>2, <2>4, <2>7, <2>8
    <2>10. /\ member'[m0] = Project!Added(i, target) /\ log'[m0] = <<e>>
           /\ \A m \in Memberships : m # m0 => member'[m] = d[m] /\ log'[m] = dl[m]
      BY <1>5, <2>2, <2>4
    <2>11. SprintTypeOK'
      BY <1>6, <2>9, SprintFacts DEF SprintTypeOK
    <2>12. MemberInv(m0)'
      <3>1. e.started = (sprint'[target] = "active") /\ e.done = (status'[i] \in done')
        BY <1>6, <2>3, <2>6
      <3>2. sprint'[target] \in {"planned", "active"} /\ kind'[i] = "task" /\ MemberInv(m0)
        BY <1>6, <2>1, SprintFacts
      <3> QED
        BY <2>1, <2>2, <2>6, <2>10, <3>1, <3>2, MemberAdded
    <2>13. PICK F : F = {m0}
      OBVIOUS
    <2>14. /\ F \in SUBSET Memberships
           /\ \A m \in F : /\ member'[m].active /\ MemberInv(m)' /\ member[m] = Project!NoMember
                           /\ sprint[member'[m].sprint] # "closed"
      <3>1. m0 \in Memberships /\ \A m \in F : m = m0
        BY <2>2, <2>13
      <3>2. member'[m0].active /\ member[m0] = Project!NoMember /\ sprint[member'[m0].sprint] # "closed"
        BY <2>1, <2>2, <2>7, <2>10
      <3>3. \A m \in F : MemberInv(m)'
        BY <2>12, <3>1
      <3> QED
        BY <2>13, <3>1, <3>2, <3>3
    <2>15. \A m \in Memberships \ F : /\ member'[m].sprint = d[m].sprint /\ member'[m].active = d[m].active
                                      /\ member'[m].completed = d[m].completed /\ log'[m] = dl[m]
                                      /\ d[m].active \/ d[m].sprint = 0 => member'[m] = d[m]
      BY <2>10, <2>13
    <2> QED
      BY <1>2, <1>3, <1>4, <1>6, <1>7, <2>11, <2>14, <2>15, RemovalKeeps
  <1> QED
    BY <1>8, <1>9

\* Pages that touch no membership and no log.
LEMMA RowsKept ==
    ASSUME SprintInv, Project!Watch, Project!Logged \/ Project!Unlogged, SprintTypeOK',
           member' = member, log' = log, sprint' = sprint, outcome' = outcome,
           \A m \in Memberships : member[m].active => kind'[member[m].item] = "task",
           \A m \in Memberships : member[m].active /\ sprint[member[m].sprint] = "active" /\ m \notin silent' =>
               (status'[member[m].item] \in done' <=> status[member[m].item] \in done)
    PROVE  SprintInv'
  <1>1. \A m \in Memberships : member[m].sprint # 0 /\ m \in silent => m \in silent'
    BY SilentKept
  <1>2. \A m \in Memberships : MemberInv(m)'
    BY <1>1, SprintFacts, MemberStays
  <1> QED
    BY <1>1, <1>2, SprintStep

LEMMA ConvertKeeps ==
    ASSUME SprintInv, Project!Watch, Project!Logged, NEW i \in Items, NEW p \in Items \cup {0}, Project!Convert(i, p)
    PROVE  SprintInv'
  <1>1. /\ kind' = [kind EXCEPT ![i] = IF p # 0 THEN "subtask" ELSE "task"]
        /\ status' = status /\ done' = done /\ sprint' = sprint /\ member' = member /\ log' = log /\ outcome' = outcome
        /\ p # 0 => Project!Current(i) = {}
    BY DEF Project!Convert, Project!None
  <1>2. SprintTypeOK'
    BY <1>1, SprintFacts DEF SprintTypeOK
  <1>3. \A m \in Memberships : member[m].active => kind'[member[m].item] = "task"
    <2>1. \A m \in Memberships : member[m].active /\ p # 0 => member[m].item # i
      BY <1>1 DEF Project!Current
    <2>2. kind \in [Items -> {"task", "subtask", "gone"}]
      BY SprintFacts DEF SprintTypeOK
    <2> QED
      BY <1>1, <2>1, <2>2, SprintFacts
  <1> QED
    BY <1>1, <1>2, <1>3, RowsKept

\* What an edit of the statuses changes of a live member is put down.
LEMMA Changes ==
    ASSUME Project!Unlogged, NEW m \in Memberships, member[m].active, sprint[member[m].sprint] = "active", m \notin silent'
    PROVE  status'[member[m].item] \in done' <=> status[member[m].item] \in done
  BY DEF Project!Unlogged, Project!Live, Project!IsDone

LEMMA StatusesKeep ==
    ASSUME SprintInv, Project!Watch, Project!OfStatuses, Project!Unlogged
    PROVE  SprintInv'
  <1>1. /\ kind' = kind /\ sprint' = sprint /\ member' = member /\ log' = log /\ outcome' = outcome
        /\ status' \in [Items -> Statuses]
    <2>1. CASE \E st \in Statuses : Project!Reclassify(st)
      BY <2>1, SprintFacts DEF Project!Reclassify, Project!items, SprintTypeOK
    <2>2. CASE \E st, other \in Statuses : Project!ReplaceStatus(st, other)
      BY <2>2, SprintFacts DEF Project!ReplaceStatus, SprintTypeOK
    <2> QED
      BY <2>1, <2>2 DEF Project!OfStatuses
  <1>2. SprintTypeOK'
    BY <1>1, SprintFacts DEF SprintTypeOK
  <1>3. \A m \in Memberships : member[m].active => kind'[member[m].item] = "task"
    BY <1>1, SprintFacts
  <1>4. \A m \in Memberships : member[m].active /\ sprint[member[m].sprint] = "active" /\ m \notin silent' =>
               (status'[member[m].item] \in done' <=> status[member[m].item] \in done)
    BY Changes
  <1> QED
    BY <1>1, <1>2, <1>3, <1>4, RowsKept

\* capture.
LEMMA CaptureFacts ==
    ASSUME SprintInv, NEW i \in Items, NEW st \in Statuses, NEW x, x = Project!Captured(i, st)
    PROVE  /\ x \in [Memberships -> Seq(Event)]
           /\ \A m \in Memberships :
                \/ x[m] = log[m] /\ (member[m].item = i /\ member[m].active /\ sprint[member[m].sprint] = "active" =>
                                        (log[m][Len(log[m])].done = (st \in done)))
                \/ /\ member[m].item = i /\ member[m].active /\ sprint[member[m].sprint] = "active"
                   /\ \E e \in Event : /\ x[m] = Append(log[m], e) /\ e.started /\ e.kind \in Told
                                       /\ e.done = (st \in done)
  <1>1. PICK e : e = [kind |-> "state", done |-> st \in done, started |-> TRUE]
    OBVIOUS
  <1>2. e \in Event /\ e.kind \in Told /\ e.started /\ e.done = (st \in done)
    BY <1>1 DEF Event, Told
  <1>3. /\ x = [m \in Memberships |-> x[m]]
        /\ \A m \in Memberships :
             \/ x[m] = log[m] /\ (member[m].item = i /\ member[m].active /\ sprint[member[m].sprint] = "active" =>
                                     (log[m][Len(log[m])].done = (st \in done)))
             \/ /\ member[m].item = i /\ member[m].active /\ sprint[member[m].sprint] = "active"
                /\ x[m] = Append(log[m], e)
    BY <1>1 DEF Project!Captured, Project!Current, Project!Last
  <1>4. \A l \in Seq(Event) : Append(l, e) \in Seq(Event)
    BY <1>2
  <1>5. \A m \in Memberships : x[m] \in Seq(Event)
    BY <1>3, <1>4, SprintFacts
  <1> QED
    BY <1>2, <1>3, <1>5

LEMMA TransitionKeeps ==
    ASSUME SprintInv, Project!Watch, Project!Logged, NEW i \in Items, NEW st \in Statuses, Project!Transition(i, st)
    PROVE  SprintInv'
  <1>1. /\ status' = [status EXCEPT ![i] = st] /\ log' = Project!Captured(i, st)
        /\ kind' = kind /\ done' = done /\ sprint' = sprint /\ member' = member /\ outcome' = outcome
    BY DEF Project!Transition
  <1>2. PICK x : x = Project!Captured(i, st)
    OBVIOUS
  <1>3. /\ x \in [Memberships -> Seq(Event)]
        /\ \A m \in Memberships :
             \/ x[m] = log[m] /\ (member[m].item = i /\ member[m].active /\ sprint[member[m].sprint] = "active" =>
                                     (log[m][Len(log[m])].done = (st \in done)))
             \/ /\ member[m].item = i /\ member[m].active /\ sprint[member[m].sprint] = "active"
                /\ \E e \in Event : /\ x[m] = Append(log[m], e) /\ e.started /\ e.kind \in Told
                                    /\ e.done = (st \in done)
    BY <1>2, CaptureFacts
  <1>4. /\ status' \in [Items -> Statuses] /\ status'[i] = st
        /\ \A j \in Items : j # i => status'[j] = status[j]
    BY <1>1, SprintFacts DEF SprintTypeOK
  <1>5. SprintTypeOK'
    BY <1>1, <1>2, <1>3, <1>4, SprintFacts DEF SprintTypeOK
  <1>6. \A m \in Memberships : member[m].sprint # 0 /\ m \in silent => m \in silent'
    BY <1>1, SilentKept
  <1>7. ASSUME NEW m \in Memberships PROVE MemberInv(m)'
    <2>1. CASE /\ x[m] = log[m]
               /\ member[m].item = i /\ member[m].active /\ sprint[member[m].sprint] = "active" =>
                    (log[m][Len(log[m])].done = (st \in done))
      <3>1. member[m].active => kind'[member[m].item] = "task"
        BY <1>1, SprintFacts
      <3>2. ASSUME member[m].active, sprint[member[m].sprint] = "active", m \notin silent'
            PROVE  status'[member[m].item] \in done' <=> status[member[m].item] \in done
        <4>1. CASE member[m].item = i
          <5>1. m \notin silent
            BY <1>6, <3>2, SprintFacts
          <5>2. log[m][Len(log[m])].done = (status[member[m].item] \in done)
            BY <3>2, <5>1, SprintFacts DEF MemberInv, LiveLog
          <5> QED
            BY <1>1, <1>4, <2>1, <3>2, <4>1, <5>2
        <4>2. CASE member[m].item # i
          BY <1>1, <1>4, <3>2, <4>2, SprintFacts
        <4> QED
          BY <4>1, <4>2
      <3> QED
        BY <1>1, <1>2, <1>6, <2>1, <3>1, <3>2, SprintFacts, MemberStays
    <2>2. CASE /\ member[m].item = i /\ member[m].active /\ sprint[member[m].sprint] = "active"
               /\ \E e \in Event : /\ x[m] = Append(log[m], e) /\ e.started /\ e.kind \in Told
                                   /\ e.done = (st \in done)
      <3>1. PICK e \in Event : x[m] = Append(log[m], e) /\ e.started /\ e.kind \in Told /\ e.done = (st \in done)
        BY <2>2
      <3>2. /\ log'[m] = Append(log[m], e) /\ member'[m] = member[m] /\ sprint'[member[m].sprint] = "active"
            /\ kind'[member[m].item] = "task" /\ (m \in silent => m \in silent')
        BY <1>1, <1>2, <1>6, <2>2, <3>1, SprintFacts
      <3>3. e.done = (status'[member[m].item] \in done')
        BY <1>1, <1>4, <2>2, <3>1
      <3> QED
        BY <2>2, <3>1, <3>2, <3>3, SprintFacts, MemberTold
    <2> QED
      BY <1>3, <2>1, <2>2
  <1>8. \A m \in Memberships : member[m].sprint # 0 /\ sprint[member[m].sprint] = "closed" => log'[m] = log[m]
    BY <1>1, <1>2, <1>3
  <1> QED
    BY <1>1, <1>5, <1>6, <1>7, <1>8, SprintStep

LEMMA DeleteItemKeeps ==
    ASSUME SprintInv, Project!Watch, Project!Logged, NEW i \in Items, Project!DeleteItem(i)
    PROVE  SprintInv'
  <1>1. PICK D : D = Project!Current(i)
    OBVIOUS
  <1>2. D \in SUBSET Memberships
    BY <1>1 DEF Project!Current
  <1>3. \A m \in D : member[m].active
    BY <1>1 DEF Project!Current
  <1>4. \A m \in Memberships : m \in D <=> member[m].item = i /\ member[m].active
    BY <1>1 DEF Project!Current
  <1>5. PICK d : d = Project!Detached(D)
    OBVIOUS
  <1>6. PICK dl : dl = Project!DetachLog(D)
    OBVIOUS
  <1>7. /\ d \in [Memberships -> Membership] /\ dl \in [Memberships -> Seq(Event)]
        /\ \A m \in Memberships : m \notin D => d[m] = member[m] /\ dl[m] = log[m]
        /\ \A m \in D : /\ d[m].sprint = member[m].sprint /\ ~d[m].active
                        /\ d[m].completed = member[m].completed /\ d[m].item = member[m].item
    BY <1>2, <1>5, <1>6, <1>3, Detaching
  <1>8. /\ member' = Project!Forgotten(d, {i}) /\ log' = dl
        /\ kind' = [j \in Items |->
             IF j = i THEN "gone" ELSE IF parent[j] = i /\ kind[j] = "subtask" /\ parent[i] = 0 THEN "task" ELSE kind[j]]
        /\ status' = [status EXCEPT ![i] = Default] /\ done' = done /\ sprint' = sprint /\ outcome' = outcome
    BY <1>1, <1>5, <1>6 DEF Project!DeleteItem, Project!None
  <1>9. \A x \in Membership : LET y == [x EXCEPT !.item = 0] IN
            y \in Membership /\ y.sprint = x.sprint /\ y.active = x.active /\ y.completed = x.completed
    BY DEF Membership
  <1>10. member' = [m \in Memberships |-> IF d[m].item = i THEN [d[m] EXCEPT !.item = 0] ELSE d[m]]
    BY <1>8 DEF Project!Forgotten, Project!None
  <1>11. \A m \in Memberships :
            /\ member'[m] \in Membership /\ member'[m].sprint = d[m].sprint /\ member'[m].active = d[m].active
            /\ member'[m].completed = d[m].completed /\ (d[m].item # i => member'[m] = d[m])
    BY <1>7, <1>9, <1>10
  <1>12. SprintTypeOK'
    <2>1. member' \in [Memberships -> Membership]
      BY <1>10, <1>11
    <2>2. kind' \in [Items -> {"task", "subtask", "gone"}] /\ status' \in [Items -> Statuses]
      BY <1>8, ProjectAssumption, SprintFacts DEF SprintTypeOK
    <2> QED
      BY <1>7, <1>8, <2>1, <2>2, SprintFacts DEF SprintTypeOK
  <1>13. \A m \in Memberships : d[m].active \/ d[m].sprint = 0 => d[m].item # i
    <2>1. Project!NoMember.item = 0 /\ i # 0
      BY SprintFacts DEF Project!NoMember, Project!None
    <2>2. \A m \in Memberships : member[m].sprint = 0 => member[m].item # i
      BY <2>1, SprintFacts DEF MemberInv
    <2>3. \A m \in D : d[m].sprint # 0 /\ ~d[m].active
      BY <1>2, <1>3, <1>7, SprintFacts
    <2> QED
      BY <1>7, <1>4, <2>2, <2>3
  <1>14. \A m \in Memberships \ D : member[m].active =>
            kind'[member[m].item] = "task" /\ status'[member[m].item] = status[member[m].item]
    <2>1. ASSUME NEW j \in Items, j # i, kind[j] = "task" PROVE kind'[j] = "task" /\ status'[j] = status[j]
      BY <1>8, <2>1, SprintFacts DEF SprintTypeOK
    <2> QED
      BY <1>4, <2>1, SprintFacts
  <1>15. PICK F : F = {}
    OBVIOUS
  <1>16. /\ F \in SUBSET Memberships
         /\ \A m \in F : /\ member'[m].active /\ MemberInv(m)' /\ member[m] = Project!NoMember
                         /\ sprint[member'[m].sprint] # "closed"
    BY <1>15
  <1>17. \A m \in Memberships \ F : /\ member'[m].sprint = d[m].sprint /\ member'[m].active = d[m].active
                                    /\ member'[m].completed = d[m].completed /\ log'[m] = dl[m]
                                    /\ d[m].active \/ d[m].sprint = 0 => member'[m] = d[m]
    BY <1>8, <1>11, <1>13
  <1>18. sprint' = sprint /\ outcome' = outcome /\ done' = done
    BY <1>8
  <1> QED
    BY <1>2, <1>5, <1>6, <1>12, <1>14, <1>16, <1>17, <1>18, <1>3, RemovalKeeps

LEMMA MoveAwayKeeps ==
    ASSUME SprintInv, Project!Watch, Project!Logged, NEW i \in Items, Project!MoveAway(i)
    PROVE  SprintInv'
  <1>1. PICK gone : gone = {i} \cup Project!Descendants(i)
    OBVIOUS
  <1>2. PICK D : D = UNION {Project!Current(j) : j \in gone}
    OBVIOUS
  <1>3. /\ D \in SUBSET Memberships /\ \A m \in D : member[m].active
        /\ \A m \in Memberships : m \notin D /\ member[m].active => member[m].item \notin gone
    BY <1>2 DEF Project!Current
  <1>4. PICK d : d = Project!Detached(D)
    OBVIOUS
  <1>5. PICK dl : dl = Project!DetachLog(D)
    OBVIOUS
  <1>6. d \in [Memberships -> Membership] /\ dl \in [Memberships -> Seq(Event)]
    BY <1>3, <1>4, <1>5, Detaching
  <1>7. /\ member' = d /\ log' = dl /\ done' = done /\ sprint' = sprint /\ outcome' = outcome
        /\ kind' = [j \in Items |-> IF j \in gone THEN "gone" ELSE kind[j]]
        /\ status' = [j \in Items |-> IF j \in gone THEN Default ELSE status[j]]
    BY <1>1, <1>2, <1>4, <1>5 DEF Project!MoveAway
  <1>8. kind' \in [Items -> {"task", "subtask", "gone"}] /\ status' \in [Items -> Statuses]
    BY <1>7, ProjectAssumption, SprintFacts DEF SprintTypeOK
  <1>9. SprintTypeOK'
    BY <1>6, <1>7, <1>8, SprintFacts DEF SprintTypeOK
  <1>10. \A m \in Memberships \ D : member[m].active =>
            kind'[member[m].item] = "task" /\ status'[member[m].item] = status[member[m].item]
    BY <1>3, <1>7, SprintFacts
  <1>11. PICK F : F = {}
    OBVIOUS
  <1>12. /\ F \in SUBSET Memberships
         /\ \A m \in F : /\ member'[m].active /\ MemberInv(m)' /\ member[m] = Project!NoMember
                         /\ sprint[member'[m].sprint] # "closed"
    BY <1>11
  <1>13. \A m \in Memberships \ F : /\ member'[m].sprint = d[m].sprint /\ member'[m].active = d[m].active
                                    /\ member'[m].completed = d[m].completed /\ log'[m] = dl[m]
                                    /\ d[m].active \/ d[m].sprint = 0 => member'[m] = d[m]
    BY <1>7
  <1> QED
    BY <1>3, <1>4, <1>5, <1>7, <1>9, <1>10, <1>12, <1>13, RemovalKeeps

\* complete: the members M of the sprint end, and the rows R carry what is left on.
CarriedOn(m, target) ==
    \E i \in Items : /\ kind[i] = "task" /\ member'[m] = Project!Added(i, target)
                     /\ log'[m] = <<Project!Entry("added", i, Project!Started(target))>>
Ends(m) ==
    /\ member'[m] = [member[m] EXCEPT !.active = FALSE, !.completed = TRUE]
    /\ log'[m] = Append(log[m], Project!Entry("state", member[m].item, TRUE))

LEMMA CompletionRows ==
    ASSUME SprintInv, NEW s \in Sprints, NEW target \in Sprints \cup {0}, Project!Complete(s, target)
    PROVE  \E R \in SUBSET Memberships :
             /\ \A m \in R : member[m] = Project!NoMember /\ CarriedOn(m, target)
             /\ R # {} => target \in Sprints /\ target # s /\ sprint[target] \in {"planned", "active"}
             /\ \A m \in Memberships \ R :
                  IF m \in Project!Members(s) THEN Ends(m) ELSE member'[m] = member[m] /\ log'[m] = log[m]
             /\ member' = [m \in Memberships |-> member'[m]] /\ log' = [m \in Memberships |-> log'[m]]
  <1> DEFINE M == Project!Members(s)
             rest == {m \in M : ~Project!IsDone(member[m].item)}
             ended == [m \in Memberships |->
                         IF m \in M THEN [member[m] EXCEPT !.active = FALSE, !.completed = TRUE] ELSE member[m]]
             told == [m \in Memberships |->
                        IF m \in M THEN Append(log[m], Project!Entry("state", member[m].item, TRUE)) ELSE log[m]]
             Carried(row, m) == member[CHOOSE old \in rest : row[old] = m].item
  <1>1. CASE target = 0
    <2>1. member' = ended /\ log' = told
      BY <1>1 DEF Project!Complete, Project!None
    <2>2. \A m \in Memberships \ {} :
                  IF m \in M THEN Ends(m) ELSE member'[m] = member[m] /\ log'[m] = log[m]
      BY <2>1 DEF Ends
    <2>3. PICK R : R = {}
      OBVIOUS
    <2>4. member' = [m \in Memberships |-> member'[m]] /\ log' = [m \in Memberships |-> log'[m]]
      BY <2>1
    <2>5. /\ \A m \in R : member[m] = Project!NoMember /\ CarriedOn(m, target)
          /\ R \in SUBSET Memberships /\ R = {}
          /\ \A m \in Memberships \ R :
                  IF m \in M THEN Ends(m) ELSE member'[m] = member[m] /\ log'[m] = log[m]
      BY <2>2, <2>3
    <2> HIDE DEF M
    <2> QED
      BY <2>4, <2>5 DEF M
  <1>2. CASE target # 0
    <2>1. /\ target \in Sprints /\ target # s /\ sprint[target] \in {"planned", "active"}
          /\ \E row \in Project!Injection(rest, Project!Free) :
                /\ member' = [m \in Memberships |->
                      IF m \in Project!Range(row) THEN Project!Added(Carried(row, m), target) ELSE ended[m]]
                /\ log' = [m \in Memberships |->
                      IF m \in Project!Range(row)
                      THEN <<Project!Entry("added", Carried(row, m), Project!Started(target))>> ELSE told[m]]
      BY <1>2 DEF Project!Complete, Project!None
    <2>2. PICK row \in [rest -> Project!Free] :
                /\ member' = [m \in Memberships |->
                      IF m \in Project!Range(row) THEN Project!Added(Carried(row, m), target) ELSE ended[m]]
                /\ log' = [m \in Memberships |->
                      IF m \in Project!Range(row)
                      THEN <<Project!Entry("added", Carried(row, m), Project!Started(target))>> ELSE told[m]]
      BY <2>1 DEF Project!Injection
    <2>3. PICK R : R = {row[old] : old \in rest}
      OBVIOUS
    <2>4. Project!Range(row) = R
      BY <2>2, <2>3 DEF Project!Range
    <2>5. /\ R \in SUBSET Memberships /\ \A m \in R : member[m] = Project!NoMember
          /\ \A m \in R : \E old \in rest : row[old] = m
      BY <2>2, <2>3 DEF Project!Free
    <2>6. ASSUME NEW m \in R PROVE CarriedOn(m, target)
      <3>1. (CHOOSE old \in rest : row[old] = m) \in rest
        BY <2>5
      <3>2. \A old \in rest : member[old].item \in Items /\ kind[member[old].item] = "task"
        BY SprintFacts DEF Project!Members
      <3>3. PICK i \in Items : i = Carried(row, m) /\ kind[i] = "task"
        BY <3>1, <3>2
      <3>4. /\ member'[m] = Project!Added(i, target)
            /\ log'[m] = <<Project!Entry("added", i, Project!Started(target))>>
        BY <2>2, <2>4, <2>5, <3>3
      <3> QED
        BY <3>3, <3>4 DEF CarriedOn
    <2>7. \A m \in Memberships \ R :
                  IF m \in M THEN Ends(m) ELSE member'[m] = member[m] /\ log'[m] = log[m]
      BY <2>2, <2>4 DEF Ends
    <2>8. member' = [m \in Memberships |-> member'[m]] /\ log' = [m \in Memberships |-> log'[m]]
      <3> HIDE DEF M, rest, ended, told, Carried
      <3> QED
        BY <2>2
    <2>9. target \in Sprints /\ target # s /\ sprint[target] \in {"planned", "active"}
      BY <2>1
    <2>10. R \in SUBSET Memberships /\ \A m \in R : member[m] = Project!NoMember /\ CarriedOn(m, target)
      BY <2>5, <2>6
    <2> HIDE DEF M
    <2> QED
      BY <2>7, <2>8, <2>9, <2>10 DEF M
  <1> QED
    BY <1>1, <1>2

\* A member of the sprint that is completed, and its last entry.
LEMMA MemberEnds ==
    ASSUME SprintInv, NEW m \in Memberships, Ends(m)
    PROVE  /\ member'[m] \in Membership /\ member'[m].sprint = member[m].sprint
           /\ ~member'[m].active /\ member'[m].completed
           /\ log'[m] \in Seq(Event) /\ (log'[m][Len(log'[m])].done <=> status[member[m].item] \in done)
           /\ EverOpenIn(log'[m]) <=> EverOpenIn(log[m]) \/ status[member[m].item] \notin done
  <1>1. PICK x \in Membership : x = member[m]
    BY SprintFacts
  <1>2. LET y == [x EXCEPT !.active = FALSE, !.completed = TRUE] IN
        y \in Membership /\ y.sprint = x.sprint /\ ~y.active /\ y.completed
    BY DEF Membership
  <1>3. member'[m] = [x EXCEPT !.active = FALSE, !.completed = TRUE]
    BY <1>1 DEF Ends
  <1>4. "state" \in Told
    BY DEF Told
  <1>5. PICK e : e = Project!Entry("state", member[m].item, TRUE)
    OBVIOUS
  <1>6. e \in Event /\ e.kind \in Told /\ e.started /\ e.done = (status[member[m].item] \in done)
    BY <1>4, <1>5, StartedEntry, Zenon
  <1>7. PICK l \in Seq(Event) : l = log[m]
    BY SprintFacts
  <1>8. PICK z : z = Append(l, e)
    OBVIOUS
  <1>9. z \in Seq(Event) /\ z[Len(z)] = e /\ (EverOpenIn(z) <=> EverOpenIn(l) \/ Opens(e))
    BY <1>6, <1>8, LogAppended
  <1>10. log'[m] = z
    BY <1>5, <1>7, <1>8 DEF Ends
  <1>11. Opens(e) <=> status[member[m].item] \notin done
    BY <1>6 DEF Opens
  <1> QED
    BY <1>1, <1>2, <1>3, <1>6, <1>7, <1>9, <1>10, <1>11

\* credited_outcome reads what the report does.
LEMMA Credited ==
    ASSUME NEW m \in Memberships PROVE Project!Eligible(m) <=> EverOpenIn(log[m])
  BY DEF Project!Eligible, Project!ToSet, EverOpenIn, Opens, Told

LEMMA CompleteKeeps ==
    ASSUME SprintInv, Project!Watch, Project!Logged, NEW s \in Sprints, NEW target \in Sprints \cup {0},
           Project!Complete(s, target)
    PROVE  SprintInv'
  <1> DEFINE M == {m \in Memberships : member[m].sprint = s /\ member[m].active}
             IsDone(m) == status[member[m].item] \in done
  <1>1. /\ sprint[s] = "active" /\ sprint' = [sprint EXCEPT ![s] = "closed"]
        /\ kind' = kind /\ status' = status /\ done' = done
        /\ outcome' = [outcome EXCEPT ![s] = {m \in M : IsDone(m) /\ Project!Eligible(m)}]
    BY DEF Project!Complete, Project!items, Project!Members, Project!IsDone
  <1>2. /\ sprint' \in [Sprints -> {"none", "planned", "active", "closed"}] /\ sprint'[s] = "closed"
        /\ \A t \in Sprints : t # s => sprint'[t] = sprint[t]
    BY <1>1, SprintFacts DEF SprintTypeOK
  <1>3. /\ outcome' \in [Sprints -> SUBSET Memberships]
        /\ \A m \in Memberships : m \in outcome'[s] <=> m \in M /\ IsDone(m) /\ EverOpenIn(log[m])
        /\ \A t \in Sprints : t # s => outcome'[t] = outcome[t]
    <2>1. outcome \in [Sprints -> SUBSET Memberships]
      BY SprintFacts DEF SprintTypeOK
    <2> QED
      BY <1>1, <2>1, Credited
  <1>4. PICK R \in SUBSET Memberships :
             /\ \A m \in R : member[m] = Project!NoMember /\ CarriedOn(m, target)
             /\ R # {} => target \in Sprints /\ target # s /\ sprint[target] \in {"planned", "active"}
             /\ \A m \in Memberships \ R :
                  IF m \in Project!Members(s) THEN Ends(m) ELSE member'[m] = member[m] /\ log'[m] = log[m]
             /\ member' = [m \in Memberships |-> member'[m]] /\ log' = [m \in Memberships |-> log'[m]]
    BY CompletionRows
  <1>5. \A m \in R : member[m].sprint = 0 /\ ~member[m].active /\ ~member[m].completed
    BY <1>4 DEF Project!NoMember, Project!None
  <1>6. \A m \in M : m \notin R /\ Ends(m)
    BY <1>4, <1>5, SprintFacts DEF Project!Members
  <1>7. \A m \in Memberships : m \notin R /\ m \notin M => member'[m] = member[m] /\ log'[m] = log[m]
    BY <1>4 DEF Project!Members
  <1>8. ASSUME NEW m \in R
        PROVE  \E i \in Items, e \in Event :
                 /\ kind[i] = "task" /\ member'[m] = Project!Added(i, target) /\ log'[m] = <<e>>
                 /\ e.kind = "added" /\ e.started = (sprint'[target] = "active") /\ e.done = (status'[i] \in done')
    <2>1. PICK i \in Items : /\ kind[i] = "task" /\ member'[m] = Project!Added(i, target)
                             /\ log'[m] = <<Project!Entry("added", i, Project!Started(target))>>
      BY <1>4 DEF CarriedOn
    <2>2. Project!Started(target) \in BOOLEAN /\ Project!Started(target) = (sprint'[target] = "active")
      BY <1>2, <1>4 DEF Project!Started
    <2>3. PICK e : e = Project!Entry("added", i, Project!Started(target))
      OBVIOUS
    <2>4. "added" \in Told \cup {"removed"}
      BY DEF Told
    <2>5. e \in Event /\ e.kind = "added" /\ e.started = Project!Started(target) /\ e.done = (status[i] \in done)
      BY <2>2, <2>3, <2>4, EntryMade, Zenon
    <2>6. log'[m] = <<e>> /\ e.done = (status'[i] \in done') /\ e.started = (sprint'[target] = "active")
      BY <1>1, <2>1, <2>2, <2>3, <2>5
    <2> QED
      BY <2>1, <2>5, <2>6
  <1>9. \A m \in R : /\ member'[m] \in Membership /\ member'[m].sprint = target /\ member'[m].active
                     /\ log'[m] \in Seq(Event) /\ target \in Sprints /\ target # s
                     /\ sprint[target] \in {"planned", "active"}
    <2>1. ASSUME NEW m \in R PROVE log'[m] \in Seq(Event)
      BY <1>8, LogBegun
    <2>2. \A m \in R : target \in Sprints /\ target # s /\ sprint[target] \in {"planned", "active"}
      BY <1>4
    <2>3. ASSUME NEW m \in R PROVE member'[m] \in Membership /\ member'[m].sprint = target /\ member'[m].active
      <3>1. PICK i \in Items : member'[m] = Project!Added(i, target)
        BY <1>8
      <3> QED
        BY <2>2, <3>1 DEF Project!Added, Membership
    <2> QED
      BY <2>1, <2>2, <2>3
  <1>10. \A m \in M : /\ member'[m] \in Membership /\ member'[m].sprint = s
                      /\ ~member'[m].active /\ member'[m].completed
                      /\ log'[m] \in Seq(Event) /\ (log'[m][Len(log'[m])].done <=> IsDone(m))
                      /\ EverOpenIn(log'[m]) <=> EverOpenIn(log[m]) \/ ~IsDone(m)
    BY <1>6, MemberEnds
  <1>11. SprintTypeOK'
    <2>1. \A m \in Memberships : member'[m] \in Membership /\ log'[m] \in Seq(Event)
      BY <1>7, <1>9, <1>10, SprintFacts
    <2>2. member' \in [Memberships -> Membership] /\ log' \in [Memberships -> Seq(Event)]
      BY <1>4, <2>1
    <2> QED
      BY <1>1, <1>2, <1>3, <2>2, SprintFacts DEF SprintTypeOK
  <1>12. \A m \in Memberships : member'[m].sprint = s <=> member[m].sprint = s
    BY <1>5, <1>7, <1>9, <1>10, SprintFacts
  <1>13. \A m \in Memberships : member[m].sprint # 0 /\ m \in silent => m \in silent'
    <2>1. \A m \in Memberships : member[m].sprint # 0 => member'[m].sprint # 0
      BY <1>5, <1>7, <1>10, SprintFacts
    <2> QED
      BY <2>1, SilentKept
  <1>14. ASSUME NEW m \in Memberships PROVE MemberInv(m)'
    <2>1. CASE m \in R
      <3>1. PICK i \in Items, e \in Event :
                 /\ kind[i] = "task" /\ member'[m] = Project!Added(i, target) /\ log'[m] = <<e>>
                 /\ e.kind = "added" /\ e.started = (sprint'[target] = "active") /\ e.done = (status'[i] \in done')
        BY <1>8, <2>1
      <3>2. /\ target \in Sprints /\ sprint'[target] \in {"planned", "active"} /\ kind'[i] = "task"
            /\ member[m] = Project!NoMember /\ MemberInv(m)
        BY <1>1, <1>2, <1>4, <1>9, <2>1, <3>1, SprintFacts
      <3> QED
        BY <3>1, <3>2, MemberAdded
    <2>2. CASE m \in M
      <3>1. s # 0 /\ ~member'[m].active /\ member'[m].sprint = s
        BY <1>10, <2>2, SprintFacts
      <3> QED
        BY <1>2, <3>1, MemberOver
    <2>3. CASE m \notin R /\ m \notin M /\ member[m].sprint = s
      <3>1. member'[m] = member[m] /\ s # 0 /\ ~member[m].active
        BY <1>7, <2>3, SprintFacts
      <3> QED
        BY <1>2, <2>3, <3>1, MemberOver
    <2>4. CASE m \notin R /\ member[m].sprint # s
      <3>1. /\ member'[m] = member[m] /\ log'[m] = log[m]
            /\ member[m].sprint # 0 => sprint'[member[m].sprint] = sprint[member[m].sprint]
        BY <1>2, <1>7, <2>4, SprintFacts
      <3>2. member[m].active => kind'[member[m].item] = "task"
        BY <1>1, SprintFacts
      <3> QED
        BY <1>1, <1>13, <3>1, <3>2, SprintFacts, MemberStays
    <2> QED
      BY <2>1, <2>2, <2>3, <2>4
  <1>15. ClosedReport(s)'
    <2>1. \A m \in Memberships : member[m].sprint = s /\ m \notin M => ~member'[m].active /\ ~member'[m].completed
      <3>1. ASSUME NEW m \in Memberships, member[m].sprint = s, m \notin M
            PROVE  ~member[m].active /\ ~member[m].completed /\ m \notin R
        BY <1>1, <1>5, <3>1, SprintFacts DEF MemberInv
      <3> QED
        BY <1>7, <3>1
    <2>2. \A m \in Memberships :
            m \in outcome'[s] <=> /\ member'[m].sprint = s /\ (member'[m].active \/ member'[m].completed)
                                  /\ log'[m][Len(log'[m])].done /\ EverOpenIn(log'[m])
      <3>1. ASSUME NEW m \in Memberships, m \in M
            PROVE  m \in outcome'[s] <=> /\ member'[m].sprint = s /\ (member'[m].active \/ member'[m].completed)
                                         /\ log'[m][Len(log'[m])].done /\ EverOpenIn(log'[m])
        BY <1>3, <1>10, <3>1
      <3>2. ASSUME NEW m \in Memberships, m \notin M
            PROVE  m \notin outcome'[s] /\ ~(member'[m].sprint = s /\ (member'[m].active \/ member'[m].completed))
        BY <1>3, <1>12, <2>1, <3>2
      <3> QED
        BY <3>1, <3>2
    <2>3. outcome'[s] = {m \in Memberships : /\ member'[m].sprint = s /\ (member'[m].active \/ member'[m].completed)
                                             /\ log'[m][Len(log'[m])].done /\ EverOpenIn(log'[m])}
      <3>1. outcome'[s] \subseteq Memberships
        BY <1>3
      <3> QED
        BY <2>2, <3>1
    <2>4. \A m \in M : /\ m \in Memberships /\ (m \in opened' <=> m \in opened)
                       /\ (m \in silent => m \in silent')
                       /\ LiveLog(log[m], IsDone(m), m \in opened, m \in silent)
      <3>1. \A m \in M : member'[m].sprint # 0 /\ ~member'[m].active /\ member[m].sprint # 0
        BY <1>10, SprintFacts
      <3>2. \A m \in M : LiveLog(log[m], IsDone(m), m \in opened, m \in silent)
        BY <1>1, SprintFacts DEF MemberInv
      <3> QED
        BY <1>13, <3>1, <3>2, Watched
    <2>5. outcome'[s] \subseteq opened'
      <3>1. \A m \in outcome'[s] : m \in M /\ EverOpenIn(log[m])
        BY <1>3
      <3> QED
        BY <2>4, <3>1 DEF LiveLog
    <2>6. ASSUME NEW m \in opened' \ silent', member'[m].sprint = s, log'[m][Len(log'[m])].done, member'[m].completed
          PROVE  m \in outcome'[s]
      <3>1. m \in Memberships
        BY <2>6, WatchedOnly
      <3>2. m \in M
        BY <1>12, <2>1, <2>6, <3>1
      <3>3. m \in opened /\ m \notin silent /\ IsDone(m)
        BY <1>10, <2>4, <2>6, <3>2
      <3>4. EverOpenIn(log[m])
        BY <2>4, <3>2, <3>3 DEF LiveLog
      <3> QED
        BY <1>3, <3>1, <3>2, <3>3, <3>4
    <2> QED
      BY <2>3, <2>5, <2>6 DEF ClosedReport
  <1>16. ASSUME NEW t \in Sprints, t # s, sprint'[t] = "closed" PROVE ClosedReport(t)'
    <2>1. sprint[t] = "closed" /\ outcome'[t] = outcome[t] /\ t # 0
      BY <1>2, <1>3, <1>16, SprintFacts
    <2>2. \A m \in Memberships : member[m].sprint = t => m \notin R /\ m \notin M
      BY <1>5, <1>16, <2>1
    <2>3. \A m \in Memberships : member[m].sprint = t <=> member'[m].sprint = t
      BY <1>7, <1>9, <1>10, <1>16, <2>1, <2>2
    <2>4. \A m \in Memberships : member[m].sprint = t =>
               /\ member'[m].active = member[m].active /\ member'[m].completed = member[m].completed
               /\ log'[m] = log[m] /\ (m \in silent => m \in silent')
      BY <1>7, <1>13, <2>1, <2>2
    <2> QED
      BY <1>16, <2>1, <2>3, <2>4, ClosedKept
  <1> QED
    BY <1>11, <1>14, <1>15, <1>16, WatchedOnly DEF SprintInv

LEMMA SprintNext == SprintInv /\ [Project!Next]_Project!vars => SprintInv'
  <1> SUFFICES ASSUME SprintInv, [Project!Next]_Project!vars PROVE SprintInv'
    OBVIOUS
  <1>1. CASE UNCHANGED Project!vars
    BY <1>1 DEF Project!vars, SprintInv, SprintTypeOK, MemberInv, ClosedReport
  <1>2. CASE Project!Next
    <2>1. Project!Watch
      BY <1>2 DEF Project!Next
    <2>2. CASE Project!OfSprints /\ Project!Logged
      <3>1. CASE \E s \in Sprints : Project!Save(s) \/ Project!Start(s) \/ Project!Delete(s)
        BY <2>1, <2>2, <3>1, SaveKeeps, StartKeeps, DeleteKeeps
      <3>2. CASE \E s \in Sprints, target \in Sprints \cup {0} : Project!Complete(s, target)
        BY <2>1, <2>2, <3>2, CompleteKeeps
      <3>3. CASE \E i \in Items, target \in Sprints \cup {0} : Project!Assign(i, target)
        BY <2>1, <2>2, <3>3, AssignKeeps
      <3> QED
        BY <2>2, <3>1, <3>2, <3>3 DEF Project!OfSprints, Project!None
    <2>3. CASE (\E i \in Items, st \in Statuses : Project!Transition(i, st)) /\ Project!Logged
      BY <2>1, <2>3, TransitionKeeps
    <2>4. CASE Project!OfItems /\ Project!Logged
      <3>1. CASE \E i \in Items, p \in Items \cup {0} : Project!Convert(i, p)
        BY <2>1, <2>4, <3>1, ConvertKeeps
      <3>2. CASE \E i \in Items : Project!DeleteItem(i) \/ Project!MoveAway(i)
        BY <2>1, <2>4, <3>2, DeleteItemKeeps, MoveAwayKeeps
      <3> QED
        BY <2>4, <3>1, <3>2 DEF Project!OfItems, Project!None
    <2>5. CASE Project!OfStatuses /\ Project!Unlogged
      BY <2>1, <2>5, StatusesKeep
    <2> QED
      BY <1>2, <2>2, <2>3, <2>4, <2>5 DEF Project!Next
  <1> QED
    BY <1>1, <1>2

LEMMA SprintBegins == Project!Init => SprintInv
  <1> SUFFICES ASSUME Project!Init PROVE SprintInv
    OBVIOUS
  <1>1. Project!NoMember \in Membership /\ Project!NoMember.sprint = 0
        /\ ~Project!NoMember.active /\ ~Project!NoMember.completed
    BY DEF Project!NoMember, Project!None, Membership
  <1>2. <<>> \in Seq(Event)
    OBVIOUS
  <1>3. SprintTypeOK
    BY <1>1, <1>2, ProjectAssumption DEF Project!Init, SprintTypeOK
  <1>4. opened = {} /\ \A m \in Memberships : member[m] = Project!NoMember
    BY DEF Project!Init
  <1>5. \A m \in Memberships : MemberInv(m)
    BY <1>1, <1>4 DEF MemberInv
  <1>6. \A s \in Sprints : sprint[s] # "closed"
    BY DEF Project!Init
  <1> QED
    BY <1>3, <1>4, <1>5, <1>6 DEF SprintInv

\* Whatever the pages of a project do, and in whatever order, for any number of
\* items, sprints and statuses, the report of a sprint says what happened: in an
\* active sprint every member is a task whose last entry is its state, and in a
\* closed one the memberships listed as completed are exactly the credited ones,
\* and the ones that were unfinished after the start and done at the end (start,
\* capture, complete, credited_outcome, report).
THEOREM SprintsReportTruly == Project!Spec => []SprintReportIsTrue
  <1>1. SprintInv => SprintReportIsTrue
    <2> SUFFICES ASSUME SprintInv PROVE Project!SprintReportIsTrue
      BY DEF SprintReportIsTrue
    <2>1. ASSUME NEW m \in Project!Live(member, sprint)
          PROVE  kind[member[m].item] = "task" /\ (m \notin silent => Project!CurrentlyLogged(m))
      <3>1. m \in Memberships /\ member[m].active /\ sprint[member[m].sprint] = "active"
        BY <2>1 DEF Project!Live
      <3>2. kind[member[m].item] = "task" /\ LiveLog(log[m], status[member[m].item] \in done, m \in opened, m \in silent)
        BY <3>1, SprintFacts DEF MemberInv
      <3> QED
        BY <3>2 DEF LiveLog, Project!CurrentlyLogged, Project!IsDone, Project!Last
    <2>2. \A m \in Memberships : Project!Listed(m) = "completed" <=>
             (member[m].active \/ member[m].completed) /\ log[m][Len(log[m])].done /\ EverOpenIn(log[m])
      BY DEF Project!Listed, Project!Last, Project!EverOpen, Project!ToSet, EverOpenIn, Opens, Told
    <2>3. ASSUME NEW s \in Sprints, sprint[s] = "closed"
          PROVE  /\ outcome[s] = {m \in Memberships : member[m].sprint = s /\ Project!Listed(m) = "completed"}
                 /\ \A m \in outcome[s] : m \in opened
                 /\ \A m \in opened \ silent :
                      member[m].sprint = s /\ Project!Last(log[m]).done /\ member[m].completed => m \in outcome[s]
      <3>1. ClosedReport(s)
        BY <2>3 DEF SprintInv
      <3>2. outcome[s] = {m \in Memberships : member[m].sprint = s /\ Project!Listed(m) = "completed"}
        BY <2>2, <3>1 DEF ClosedReport
      <3> QED
        BY <3>1, <3>2 DEF ClosedReport, Project!Last
    <2> QED
      BY <2>1, <2>3 DEF Project!SprintReportIsTrue
  <1> QED
    BY <1>1, SprintNext, SprintBegins, PTL DEF Project!Spec
=============================================================================
