----------------------------- MODULE MCRecords -----------------------------
(* What is recorded through many entries: in some behaviours incidents and *)
(* what belongs to them, in others one item that several sources write, and*)
(* in the rest the sprints of a project.                                   *)
EXTENDS Incidents, TLC

CONSTANTS i1, i2, Values, Blank, Hardware, Asset, Purchase, Reported, Discovered, Orders
VARIABLES column, item, order, writers
CONSTANTS w1, w2, s1, s2, m1, m2, Items, Sprints, Memberships, Statuses, Done, Default, MaxEvents, MaxEdits
VARIABLES kind, parent, status, done, sprint, member, log, outcome, edits, opened, silent
VARIABLE subject   \* what this behaviour is about: "incidents", "item" or "sprints"

Item == INSTANCE Inventory
Project == INSTANCE Sprints

\* An administrator orders the sources there are.
ASSUME OrdersAssumption == Orders \subseteq Seq(Item!Sources)

\* 0 is no id, and new items get a status there is.
ASSUME ProjectAssumption == 0 \notin Items \cup Sprints /\ Default \in Statuses

itemVars == <<column, item, order, writers>>
sprintVars == <<kind, parent, status, done, sprint, member, log, outcome, edits, opened, silent>>
allVars == <<vars, itemVars, sprintVars, subject>>

\* Work items, sprints and the rows between them are interchangeable.
Symmetry == Permutations({w1, w2}) \cup Permutations({s1, s2}) \cup Permutations({m1, m2})

\* Every order of the four sources.
MCOrders ==
    {s \in [1..4 -> {"manual", "csv", "snipeit", "netbox"}] : \A i, j \in 1..4 : i # j => s[i] # s[j]}

MCInit ==
    /\ Init /\ Item!Init /\ Project!Init
    /\ subject \in {"incidents", "item", "sprints"}
    /\ subject # "item" => column \in Discovered /\ order = <<"manual", "csv", "snipeit", "netbox">>

OfIncidents == subject = "incidents" /\ Next /\ UNCHANGED <<itemVars, sprintVars, subject>>
OfItem == subject = "item" /\ Item!Next /\ UNCHANGED <<vars, sprintVars, subject>>
OfSprints == subject = "sprints" /\ Project!Next /\ UNCHANGED <<vars, itemVars, subject>>

MCSpec == MCInit /\ [][OfIncidents \/ OfItem \/ OfSprints]_allVars

(* An import changes a value only if one of its writers does not rank      *)
(* higher (arbitrate): Inventory's PrecedenceKept.                         *)
PrecedenceKept == Item!PrecedenceKept

(* The log of a sprint tells what happened, and credit follows it: the     *)
(* SprintReportIsTrue of the module Sprints.                               *)
SprintReportIsTrue == Project!SprintReportIsTrue
=============================================================================
