---------------------------- MODULE MCTaskService ----------------------------
(***************************************************************************)
(* Values of TaskService's constants for TLC.                              *)
(***************************************************************************)
EXTENDS TaskServiceProperties, Workflows, TLC

\* The hypothesis of CompletionNeedsSomebody: the entry of every workflow shipped
\* is guarded by its interrupt nodes.
ASSUME Guarded == \E G \in SUBSET Nodes : GuardedBy(G)

\* The hypothesis of the proofs of DecisionHonoured, for the values its forms and
\* actions can write: of the workflows shipped only the TODO workflow fails it.
Written == Actions \union {Unset, "true", "false"}
ASSUME LeadOn == Config # TodoWorkflow <=> DecisionsLeadOn(Written)

\* Requests are interchangeable (safety runs only), as are tasks.
Symmetry == Permutations(Requests) \union Permutations(Tasks)

=============================================================================
