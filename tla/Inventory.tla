----------------------------- MODULE Inventory -----------------------------
(***************************************************************************)
(* A configuration item that several sources fill in: people, a            *)
(* spreadsheet, Snipe-IT, NetBox and the network discovery.  field_sources *)
(* remembers who set each column, and arbitrate() decides by rank which    *)
(* source wins when two of them disagree.  Every column is decided alone,  *)
(* so the module follows one of them, whichever it is.                     *)
(***************************************************************************)
EXTENDS Integers, Sequences, FiniteSets

CONSTANTS
    Values,      \* contents of the column, Blank not among them
    Blank,       \* an empty column
    Hardware,    \* columns NetBox writes on every sync (HARDWARE_FIELDS)
    Asset,       \* columns Snipe-IT owns (SNIPEIT_OWNED_FIELDS)
    Purchase,    \* of these, the ones it also adds to an item of NetBox
    Reported,    \* columns a sync writes when it has a value
    Discovered,  \* columns the network discovery writes
    Orders       \* precedences an administrator may set

Columns == Hardware \cup Asset \cup Reported \cup Discovered
Contents == Values \cup {Blank}
Importers == {"csv", "snipeit", "netbox"}
Sources == Importers \cup {"manual"}

VARIABLES
    column,   \* the column this behaviour is about
    item,     \* its contents, its entry in field_sources, and external_source
    order,    \* CMDB_SOURCE_PRECEDENCE, highest first
    writers   \* history: who wrote the present contents

vars == <<column, item, order, writers>>

None == "none"

Init ==
    /\ column \in Columns
    /\ item = [val |-> Blank, src |-> None, ext |-> None]
    /\ order \in Orders
    /\ writers = {}

\* rank and outranks: a source that is not listed ranks below all others.
Rank(s) == IF \E i \in DOMAIN order : order[i] = s THEN CHOOSE i \in DOMAIN order : order[i] = s
           ELSE Len(order) + 1
Outranks(s, t) == Rank(s) < Rank(t)

-----------------------------------------------------------------------------
(* ci_sources and ci_precedence.                                           *)

\* mark: a written column comes from s, an emptied one from nobody.
Mark(it, s) == [it EXCEPT !.src = IF it.val = Blank THEN None ELSE s]

\* mark_changed: only if its value differs from before.
MarkChanged(it, before, s) == IF it.val = before.val THEN it ELSE Mark(it, s)

\* arbitrate: a value that s has changed goes back to the source that held the
\* column before when that one ranks higher.
\* The plausible mistake: the ranks are compared the wrong way round.
Kept(it, before, s) ==
    /\ before.val \notin {it.val, Blank} /\ before.src \notin {None, s}
    /\ Outranks(before.src, s)

ArbitrateReversed(it, before, s) ==
    IF before.val \notin {it.val, Blank} /\ before.src \notin {None, s} /\ Outranks(s, before.src)
    THEN [it EXCEPT !.val = before.val, !.src = before.src] ELSE it
Arbitrate(it, before, s) ==
    IF Kept(it, before, s) THEN [it EXCEPT !.val = before.val, !.src = before.src] ELSE it

\* What an importer leaves behind that writes the column, or does not.
Written(it, writes, v, s) == IF writes THEN Arbitrate(Mark([it EXCEPT !.val = v], s), it, s) ELSE it

-----------------------------------------------------------------------------
(* What a source that holds v makes of the item it has matched.            *)

\* netbox_sync._upsert: hardware whatever NetBox holds, the rest if it has it.
FromNetbox(it, v) ==
    [Written(it, column \in Hardware \/ (column \in Reported /\ v # Blank), v, "netbox") EXCEPT !.ext = "netbox"]

\* snipeit_sync._upsert and _set: an item of NetBox only gets what NetBox does
\* not track while NetBox ranks higher; elsewhere an empty value clears a
\* column that Snipe-IT itself has filled.
MayClear(it) == it.src = "snipeit"

FromSnipeit(it, v) ==
    IF it.ext = "netbox" /\ Outranks("netbox", "snipeit")
    THEN Written(it, column \in Purchase /\ v # Blank, v, "snipeit")
    ELSE [Written(it, \/ column \in Asset \cup Reported /\ v # Blank
                      \/ column \in Asset /\ v = Blank /\ MayClear(it), v, "snipeit") EXCEPT !.ext = "snipeit"]

\* import_ci_rows and _apply_row: the columns that the sync of this item owns
\* are left alone while that sync ranks higher than the spreadsheet.
OwnedBy(e) == CASE e = "netbox" -> Hardware [] e = "snipeit" -> Asset [] e \in {"csv", None} -> {}

FromCsv(it, v) ==
    LET owned == column \in OwnedBy(it.ext) /\ Outranks(it.ext, "csv")
        put == IF v = Blank \/ owned THEN it ELSE [it EXCEPT !.val = v]
    IN  [Arbitrate(MarkChanged(put, it, "csv"), it, "csv") EXCEPT !.ext = IF @ = None THEN "csv" ELSE @]

From(s, it, v) ==
    CASE s = "netbox" -> FromNetbox(it, v) [] s = "snipeit" -> FromSnipeit(it, v) [] s = "csv" -> FromCsv(it, v)

Become(it, s) ==
    /\ item' = it
    /\ writers' = IF it.val = Blank THEN {} ELSE IF it.val # item.val THEN {s}
                  ELSE IF it.src = s THEN writers \cup {s} ELSE writers
    /\ UNCHANGED <<column, order>>

\* A record of a synchronization, or a row of the spreadsheet.  On the first
\* one, which creates the item, there is nothing to arbitrate.
Import(s) == \E v \in Contents : Become(From(s, item, v), s)

\* ci_new and ci_edit: a person is the source of what differs.
Edit == \E v \in Contents : Become(MarkChanged([item EXCEPT !.val = v], item, "manual"), "manual")

\* reconcile_facts_into_cmdb writes without asking and without a source.
Discover ==
    /\ column \in Discovered
    /\ \E v \in Values : Become([item EXCEPT !.val = v], "discovery")

\* cmdb_source_rules.
SetOrder ==
    /\ order' \in Orders
    /\ UNCHANGED <<column, item, writers>>

Next == (\E s \in Importers : Import(s)) \/ Edit \/ Discover \/ SetOrder

Spec == Init /\ [][Next]_vars

-----------------------------------------------------------------------------
(* The precedence holds across any sequence of imports and edits: an       *)
(* import would change a value only if one of the sources that wrote it    *)
(* does not rank higher.  (A source that has once written the same value   *)
(* is one of them: by confirming a value it becomes the owner of the       *)
(* column.)                                                                *)
PrecedenceKept ==
    \A s \in Importers, v \in Contents :
        From(s, item, v).val # item.val /\ writers # {} => \E t \in writers : ~Outranks(t, s)
=============================================================================
