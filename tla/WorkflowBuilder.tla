--------------------------- MODULE WorkflowBuilder ---------------------------
(***************************************************************************)
(* The graph that app/workflow/builder.py builds from a workflow           *)
(* configuration: which nodes there are, which of them interrupt, and      *)
(* which node runs after which.                                            *)
(*                                                                         *)
(* A configuration is a record [entry, nodes]: entry is the id of the      *)
(* first node of the YAML list and nodes maps a node id to its type, its   *)
(* transitions (interrupt nodes) and its target (action nodes, END when the*)
(* node names none).  A transition is a record                             *)
(*   [action, target, var, val, form]                                      *)
(* whose condition is `var == val` and whose form gives the state keys     *)
(* that form_schema pins to a constant (Unset: not pinned).                *)
(***************************************************************************)
EXTENDS Naturals, Sequences

\* LangGraph's marks for the ends of a graph, and the empty node id.
START  == "__start__"
END    == "__end__"
NoNode == ""

\* The keys of WorkflowState that conditions read; the others (input,
\* audit_opinion, approver) only travel with the state.
StateKeys == {"action", "is_approved"}

\* The value of a state key nobody has written: `var_name in state` is false.
Unset == "unset"

\* What a state key can hold.
Values == STRING \union {Unset}

EmptyState == [k \in StateKeys |-> Unset]

NodeIds(cfg) == DOMAIN cfg.nodes

\* get_interrupt_node_ids: the nodes the compiled graph stops before.
InterruptNodes(cfg) == {n \in NodeIds(cfg) : cfg.nodes[n].type = "interrupt"}

\* _is_terminal_node with the `nodes_by_id.get(next_node, {})` of its callers.
IsTerminal(cfg, n) == n \in NodeIds(cfg) /\ cfg.nodes[n].type = "terminal"

\* Terminal nodes are never entered: an edge to one is an edge to END.
Resolve(cfg, n) == IF IsTerminal(cfg, n) THEN END ELSE n

\* _evaluate_condition.  A condition it cannot read (var outside the state)
\* is false, as is one over a key that is not set.
EvaluateCondition(tr, state) == tr.var \in StateKeys /\ state[tr.var] = tr.val

FirstMatch(ts, state, i) ==
    /\ EvaluateCondition(ts[i], state)
    /\ \A j \in 1..(i - 1) : ~EvaluateCondition(ts[j], state)

\* route_function: the first transition whose condition holds, else the first
\* of the list.  With one transition this is the direct edge of _add_edges.
Route(ts, state) ==
    IF \E i \in DOMAIN ts : FirstMatch(ts, state, i)
      THEN ts[CHOOSE i \in DOMAIN ts : FirstMatch(ts, state, i)].target
      ELSE ts[1].target

\* _add_edges: the node that follows n once n has left the values `state`.
Edge(cfg, n, state) ==
    IF n = START THEN cfg.entry
    ELSE LET node == cfg.nodes[n]
         IN IF node.type = "interrupt" /\ node.transitions # << >>
              THEN Resolve(cfg, Route(node.transitions, state))
              ELSE Resolve(cfg, node.target)

\* The transition the service matches: the first of node n with action a.
FirstWithAction(ts, a, i) == ts[i].action = a /\ \A j \in 1..(i - 1) : ts[j].action # a

HasAction(cfg, n, a) ==
    /\ n \in NodeIds(cfg)
    /\ LET ts == cfg.nodes[n].transitions
       IN \E i \in DOMAIN ts : FirstWithAction(ts, a, i)

MatchedTransition(cfg, n, a) ==
    LET ts == cfg.nodes[n].transitions
    IN ts[CHOOSE i \in DOMAIN ts : FirstWithAction(ts, a, i)]

\* What the service and graph.compile() ask of a configuration: the first node
\* exists and every edge ends in a node.
WellFormed(cfg) ==
    /\ cfg.entry \in NodeIds(cfg)
    /\ NodeIds(cfg) \cap {START, END, NoNode} = {}
    /\ NodeIds(cfg) \subseteq STRING
    /\ \A n \in NodeIds(cfg) :
          /\ cfg.nodes[n].type \in {"action", "interrupt", "terminal"}
          /\ cfg.nodes[n].target \in NodeIds(cfg) \union {END}
          /\ cfg.nodes[n].transitions \in
                Seq([action : STRING, target : NodeIds(cfg), var : STRING,
                     val : STRING, form : [StateKeys -> Values]])

=============================================================================
