------------------------------ MODULE LangGraph ------------------------------
(***************************************************************************)
(* External: the part of the LangGraph runtime that executor.py drives,    *)
(* modelled from how the code uses it.                                     *)
(*                                                                         *)
(* A thread (thread_id = task id) is the newest checkpoint of a task:      *)
(*   last    the node that wrote it (START: only the input has been read)  *)
(*   next    the node to run next, END when there is none                  *)
(*   values  the channels that conditions read.                            *)
(***************************************************************************)
EXTENDS WorkflowBuilder

\* No checkpoint: aget_state() of such a thread has an empty `next`.
NoThread == [last |-> NoNode, next |-> END, values |-> EmptyState]

\* The checkpoints of a thread, and a thread with none.
Checkpoints(cfg) ==
    [last : NodeIds(cfg) \union {START},
     next : NodeIds(cfg) \union {END},
     values : [StateKeys -> Values]]

Threads(cfg) == Checkpoints(cfg) \union {NoThread}

\* astream(initial_data): the input is read, the entry node is next.  The keys
\* of initial_data that a condition reads are overwritten by every resume before
\* a condition is evaluated, so they are left unset.
Started(cfg) == [last |-> START, next |-> cfg.entry, values |-> EmptyState]

Merge(values, update) ==
    [k \in StateKeys |-> IF update[k] = Unset THEN values[k] ELSE update[k]]

\* aupdate_state(config, update) without as_node: the update is written as if
\* the node that wrote the checkpoint had written it, so the edge out of that
\* node is taken again, on the merged values.  Without a checkpoint it is
\* written as the input, and the entry node is next.
Updated(cfg, th, update) ==
    LET from   == IF th = NoThread THEN START ELSE th.last
        values == Merge(th.values, update)
    IN [last |-> from, next |-> Edge(cfg, from, values), values |-> values]

\* One superstep: the next node runs (every node function returns the state it
\* was given) and its edge is evaluated.
Executed(cfg, th) ==
    [last |-> th.next, next |-> Edge(cfg, th.next, th.values), values |-> th.values]

=============================================================================
