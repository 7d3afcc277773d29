-------------------------- MODULE MCWorkflowVersions --------------------------
(***************************************************************************)
(* Values of WorkflowVersions' constants for TLC: one file is shipped, the *)
(* other workflows are added, before and after it in the alphabet.         *)
(***************************************************************************)
EXTENDS WorkflowVersions, TLC

CONSTANTS c1, c2

OneFile == [n \in Names |-> IF n = 2 THEN c1 ELSE NoConfig]

Symmetry == Permutations(Tasks)

=============================================================================
