--------------------------- MODULE MCWorkflowJobs ---------------------------
(* Instances of WorkflowJobs for TLC.                                      *)
EXTENDS WorkflowJobs, TLC

CONSTANTS p1, p2

WorkerSymmetry == Permutations(Workers)

\* An action that can be undone, a wait and another action; then a workflow
\* of a single action.
TwoSteps == <<3, 1>>
TwoWaits == <<{2}, {}>>
TwoUndoable == <<{1}, {1}>>
OneSteps == <<3>>
OneWaits == <<{2}>>
OneUndoable == <<{1}>>
=============================================================================
