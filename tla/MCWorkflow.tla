----------------------------- MODULE MCWorkflow -----------------------------
(* Instances of Workflow for TLC.                                          *)
EXTENDS Workflow, TLC

CONSTANTS n1, n2

AllScopes == WorkflowScopes
ShortScopes == {SubSeq(ComponentOrder, 1, n) : n \in {2, 3}}
AllManuals == Manual
=============================================================================
