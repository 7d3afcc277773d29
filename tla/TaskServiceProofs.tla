-------------------------- MODULE TaskServiceProofs --------------------------
(***************************************************************************)
(* Proofs, for every value of the constants, of the safety properties that *)
(* hold whatever clients send and whatever fails.                          *)
(***************************************************************************)
EXTENDS TaskServiceProperties, TLAPS

------------------------------------------------------------------------------
(* The graph and its threads                                               *)

\* The transitions of a node, each with a target among the nodes and a form.
LEMMA TransitionType ==
    ASSUME NEW n \in Nodes, NEW i \in DOMAIN Config.nodes[n].transitions
    PROVE  /\ Config.nodes[n].transitions[i].target \in Nodes
           /\ Config.nodes[n].transitions[i].form \in [StateKeys -> Values]
           /\ Config.nodes[n].transitions[i].action \in STRING
           /\ 1 \in DOMAIN Config.nodes[n].transitions
<1> DEFINE T == [action : STRING, target : Nodes, var : STRING,
                 val : STRING, form : [StateKeys -> Values]]
           ts == Config.nodes[n].transitions
<1>1. ts \in Seq(T)
  BY ConfigAssumption DEF WellFormed, Nodes
<1>2. ts[i] \in T /\ 1 \in DOMAIN ts
  <2> HIDE DEF T
  <2>1. i \in 1..Len(ts)
    BY <1>1
  <2> QED
    BY <1>1, <2>1
<1> QED
  BY <1>2

\* Actions are strings, so they can be values of the key `action`.
LEMMA ActionsType == Actions \subseteq Values
<1> SUFFICES ASSUME NEW n \in Nodes, NEW i \in DOMAIN Config.nodes[n].transitions
             PROVE  Config.nodes[n].transitions[i].action \in STRING
  BY DEF Actions, Range, Values
<1> QED
  BY TransitionType

\* Every edge of a well-formed workflow ends in a node or in END.
LEMMA EdgeType ==
    ASSUME NEW n \in Nodes \union {START}, NEW v \in [StateKeys -> Values]
    PROVE  Edge(Config, n, v) \in Nodes \union {END}
<1> USE ConfigAssumption DEF WellFormed, Nodes
<1>1. CASE n = START
  BY <1>1 DEF Edge
<1>2. CASE n # START
  <2> DEFINE ts == Config.nodes[n].transitions
  <2>1. n \in NodeIds(Config)
    BY <1>2
  <2>2. \A i \in DOMAIN ts : ts[i].target \in NodeIds(Config) /\ 1 \in DOMAIN ts
    BY <2>1, TransitionType
  <2>3. ts # << >> => 1 \in DOMAIN ts
    BY <2>1, <2>2
  <2>4. ts # << >> => Route(ts, v) \in NodeIds(Config)
    <3>1. CASE \E i \in DOMAIN ts : FirstMatch(ts, v, i)
      <4>1. (CHOOSE i \in DOMAIN ts : FirstMatch(ts, v, i)) \in DOMAIN ts
        BY <3>1
      <4> QED
        BY <2>2, <3>1, <4>1 DEF Route
    <3>2. CASE ~ \E i \in DOMAIN ts : FirstMatch(ts, v, i)
      BY <2>2, <2>3, <3>2 DEF Route
    <3> QED
      BY <3>1, <3>2
  <2>5. Config.nodes[n].target \in NodeIds(Config) \union {END}
    BY <2>1
  <2> QED
    BY <1>2, <2>4, <2>5 DEF Edge, Resolve
<1> QED
  BY <1>1, <1>2

\* The values of a thread nobody has written to are well typed.
LEMMA EmptyStateType == EmptyState \in [StateKeys -> Values]
  BY DEF EmptyState, Values

\* A started thread is a checkpoint.
LEMMA StartedType == Started(Config) \in Checkpoints(Config)
  BY ConfigAssumption, EmptyStateType DEF WellFormed, Started, Checkpoints

\* Running the next node of a thread that has one gives a checkpoint.
LEMMA ExecutedType ==
    ASSUME NEW th \in Threads(Config), th.next # END
    PROVE  Executed(Config, th) \in Checkpoints(Config)
<1>1. th \in Checkpoints(Config)
  BY DEF Threads, NoThread
<1>2. th.next \in Nodes /\ th.values \in [StateKeys -> Values]
  BY <1>1 DEF Checkpoints, Nodes
<1>3. Edge(Config, th.next, th.values) \in Nodes \union {END}
  BY <1>2, EdgeType
<1> QED
  BY <1>2, <1>3 DEF Executed, Checkpoints, Nodes

\* So does resuming with an update, of any thread, one without checkpoint included.
LEMMA UpdatedType ==
    ASSUME NEW th \in Threads(Config), NEW u \in [StateKeys -> Values]
    PROVE  Updated(Config, th, u) \in Checkpoints(Config)
<1> DEFINE from == IF th = NoThread THEN START ELSE th.last
           values == Merge(th.values, u)
<1>1. from \in Nodes \union {START}
  BY DEF Threads, Checkpoints, Nodes
<1>2. th.values \in [StateKeys -> Values]
  BY EmptyStateType DEF Threads, Checkpoints, NoThread
<1>3. values \in [StateKeys -> Values]
  BY <1>2 DEF Merge
<1>4. Edge(Config, from, values) \in Nodes \union {END}
  BY <1>1, <1>3, EdgeType
<1> QED
  BY <1>1, <1>3, <1>4 DEF Updated, Checkpoints, Nodes

\* The data a valid callback resumes with.
LEMMA ResumeDataType ==
    ASSUME NEW r \in Requests, request[r].action \in Values,
           HasAction(Config, request[r].node, request[r].action)
    PROVE  ResumeData(r) \in [StateKeys -> Values]
<1> DEFINE n  == request[r].node
           a  == request[r].action
           ts == Config.nodes[n].transitions
           i  == CHOOSE k \in DOMAIN ts : FirstWithAction(ts, a, k)
<1>1. n \in NodeIds(Config) /\ \E k \in DOMAIN ts : FirstWithAction(ts, a, k)
  BY DEF HasAction
<1>2. i \in DOMAIN ts
  BY <1>1
<1>3. ts[i].form \in [StateKeys -> Values]
  BY <1>1, <1>2, TransitionType DEF Nodes
<1>4. Matched(r) = ts[i]
  BY DEF Matched, MatchedTransition
<1> QED
  BY <1>3, <1>4 DEF ResumeData

------------------------------------------------------------------------------
(* Types                                                                   *)

\* The updates the service makes to a row keep its type.
LEMMA RowUpdate ==
    ASSUME NEW old \in Rows
    PROVE  /\ \A e \in Procs \union {None}, n \in Nodes \union {NoNode} :
                [old EXCEPT !.pending = [event |-> e, node |-> n]] \in Rows
           /\ \A s \in {"pending", "awaiting", "completed", "error"},
                 n \in Nodes \union {NoNode}, i \in SUBSET Requests :
                [old EXCEPT !.status = s, !.at = n, !.inputs = i] \in Rows
  BY DEF Rows

\* The variables keep their types, and a label tells what was established.
LEMMA TypeInvariant == Spec => []TypeInv
<1>1. Init => TypeInv
  BY NamesAssumption, EnvironmentAssumption
     DEF Init, TypeInv, TypeOK, LabelInv, Rows, EventRows, Bodies, Results, Labels,
         InFlight, Answered, CreateLabels, CallbackLabels, Procs, AbsentRow, NoPending,
         NoEvent, NoRequest, NoResult, Result, Threads, Values
<1>2. TypeInv /\ [Next]_vars => TypeInv'
  <2> SUFFICES ASSUME TypeInv, [Next]_vars
               PROVE  TypeInv'
    OBVIOUS
  <2> USE NamesAssumption, EnvironmentAssumption
  <2> USE DEF TypeInv, TypeOK, LabelInv, Labels, InFlight, Answered, CreateLabels,
              CallbackLabels, Procs, Goto, TaskOf, tables, memory, history, vars
  <2>1. ASSUME NEW t \in Tasks, CreateRow(t) PROVE TypeInv'
    BY <2>1 DEF CreateRow, Rows, AbsentRow, NoPending
  <2>2. ASSUME NEW t \in Tasks, StartStream(t) PROVE TypeInv'
    BY <2>2, StartedType DEF StartStream, Threads
  <2>3. ASSUME NEW r \in Requests, Submit(r) PROVE TypeInv'
    <3>1. PICK t \in Tasks, e \in Events, n \in Gates \union {NoNode},
               a \in Actions, valid \in BOOLEAN :
            /\ Permitted(t, e, n, a, valid)
            /\ request' = [request EXCEPT ![r] =
                  [task |-> t, event |-> e, node |-> n, action |-> a, valid |-> valid]]
      BY <2>3 DEF Submit
    <3>2. n \in Nodes \union {NoNode} /\ a \in Values
      BY ActionsType DEF Gates, InterruptNodes, Nodes
    <3>3. request' \in [Requests -> Bodies] /\ request'[r].task \in Tasks /\ request'[r].event # None
      BY <3>1, <3>2, NamesAssumption DEF Bodies, Events
    <3>4. late' \subseteq Requests
      BY <2>3 DEF Submit
    <3> QED
      BY <2>3, <3>1, <3>3, <3>4 DEF Submit
  <2>4. ASSUME NEW r \in Requests, IsConsumed(r) PROVE TypeInv'
    BY <2>4 DEF IsConsumed
  <2>5. ASSUME NEW r \in Requests, MarkConsumed(r) PROVE TypeInv'
    BY <2>5 DEF MarkConsumed, Bodies
  <2>6. ASSUME NEW r \in Requests, Validate(r) PROVE TypeInv'
    BY <2>6 DEF Validate, Accepts, Decides
  <2>7. ASSUME NEW r \in Requests, ClearPending(r) PROVE TypeInv'
    <3>1. request[r].task \in Tasks
      BY <2>7 DEF ClearPending
    <3>2. [row[request[r].task] EXCEPT !.pending = NoPending] \in Rows
      BY <3>1, RowUpdate DEF NoPending
    <3>3. row' \in [Tasks -> Rows]
      BY <2>7, <3>1, <3>2 DEF ClearPending
    <3> QED
      BY <2>7, <3>3 DEF ClearPending
  <2>8. ASSUME NEW r \in Requests, UpdateState(r) PROVE TypeInv'
    <3>1. request[r].task \in Tasks
      BY <2>8 DEF UpdateState
    <3>2. ResumeData(r) \in [StateKeys -> Values]
      BY <2>8, ResumeDataType DEF UpdateState, Bodies
    <3>3. Updated(Config, checkpoint[request[r].task], ResumeData(r)) \in Threads(Config)
      BY <3>1, <3>2, UpdatedType DEF Threads
    <3>4. checkpoint' \in [Tasks -> Threads(Config)]
      BY <2>8, <3>1, <3>3 DEF UpdateState
    <3> QED
      BY <2>8, <3>4 DEF UpdateState
  <2>9. ASSUME NEW r \in Requests, ResumeStream(r) PROVE TypeInv'
    BY <2>9 DEF ResumeStream
  <2>10. ASSUME NEW p \in Procs, RunNode(p) PROVE TypeInv'
    <3>1. TaskOf(p) \in Tasks /\ loop[p].next # END
      BY <2>10 DEF RunNode, Stops
    <3>2. Executed(Config, loop[p]) \in Threads(Config)
      BY <3>1, ExecutedType DEF Threads
    <3>3. /\ loop' \in [Procs -> Threads(Config)]
          /\ checkpoint' \in [Tasks -> Threads(Config)]
      BY <2>10, <3>1, <3>2 DEF RunNode
    <3>4. gates' \subseteq Procs \X Nodes
      BY <2>10 DEF RunNode, Gates, InterruptNodes, Nodes
    <3> QED
      BY <2>10, <3>3, <3>4 DEF RunNode
  <2>11. ASSUME NEW p \in Procs, EndStream(p) PROVE TypeInv'
    BY <2>11 DEF EndStream, Threads
  <2>12. ASSUME NEW p \in Procs, GetState(p) PROVE TypeInv'
    <3>1. TaskOf(p) \in Tasks
      BY <2>12 DEF GetState
    <3>2. checkpoint[TaskOf(p)].next \in Nodes \union {END}
      BY <3>1 DEF Threads, Checkpoints, NoThread, Nodes
    <3>3. /\ Observed(p) \in Results
          /\ Observed(p).status \in {"interrupted", "completed"}
      BY <3>2 DEF Observed, Result, Results
    <3> QED
      BY <2>12, <3>3 DEF GetState
  <2>13. ASSUME NEW p \in Procs, Publish(p) PROVE TypeInv'
    BY <2>13 DEF Publish, EventRows, Results, Interrupted
  <2>14. ASSUME NEW p \in Procs, PublishError(p) PROVE TypeInv'
    BY <2>14 DEF PublishError, EventRows, Bodies
  <2>15. ASSUME NEW p \in Procs, UpdateStatus(p) PROVE TypeInv'
    <3>1. TaskOf(p) \in Tasks /\ result[p].status \in {"interrupted", "completed", "error"}
      BY <2>15 DEF UpdateStatus
    <3>2. MergedInputs(p) \in SUBSET Requests
      BY <3>1 DEF MergedInputs, Rows
    <3>3. /\ DerivedStatus(p).status \in {"awaiting", "completed", "error"}
          /\ DerivedStatus(p).at \in Nodes \union {NoNode}
      BY <3>1 DEF DerivedStatus, Results
    <3>4. [row[TaskOf(p)] EXCEPT !.status = DerivedStatus(p).status,
                                 !.at = DerivedStatus(p).at,
                                 !.inputs = MergedInputs(p)] \in Rows
      BY <3>1, <3>2, <3>3, RowUpdate
    <3>5. row' \in [Tasks -> Rows]
      BY <2>15, <3>1, <3>4 DEF UpdateStatus
    <3> QED
      BY <2>15, <3>5 DEF UpdateStatus
  <2>16. ASSUME NEW p \in Procs, UpdatePending(p) PROVE TypeInv'
    <3>1. TaskOf(p) \in Tasks
      BY <2>16 DEF UpdatePending
    <3>2. [row[TaskOf(p)] EXCEPT !.pending = Offer(p)] \in Rows
      BY <3>1, RowUpdate DEF Offer, Results
    <3>3. row' \in [Tasks -> Rows]
      BY <2>16, <3>1, <3>2 DEF UpdatePending
    <3> QED
      BY <2>16, <3>3 DEF UpdatePending
  <2>17. ASSUME NEW p \in Procs, RaiseInGraph(p) PROVE TypeInv'
    BY <2>17 DEF RaiseInGraph, Results, Result, Threads
  <2>18. ASSUME NEW p \in Procs, Raise(p) PROVE TypeInv'
    BY <2>18 DEF Raise
  <2>19. CASE Restart
    BY <2>19 DEF Restart, Threads, Running
  <2>20. CASE UNCHANGED vars
    BY <2>20
  <2> QED
    BY <2>1, <2>2, <2>3, <2>4, <2>5, <2>6, <2>7, <2>8, <2>9, <2>10, <2>11, <2>12, <2>13,
       <2>14, <2>15, <2>16, <2>17, <2>18, <2>19, <2>20
       DEF Next, Create, Callback, Executor, Fault
<1> QED
  BY <1>1, <1>2, PTL DEF Spec

\* The variables keep their types, for any clients and any failures.
THEOREM TypeCorrect == Spec => []TypeOK
  BY TypeInvariant, PTL DEF TypeInv

------------------------------------------------------------------------------
(* Replay protection                                                       *)

\* A callback sent after another has resumed a workflow with its event is refused.
THEOREM ReplaysRefused == Spec => []ReplayRefused
<1>1. Init => ReplayInv
  BY NamesAssumption DEF Init, ReplayInv, Procs, Marked
<1>2. TypeInv /\ ReplayInv /\ [Next]_vars => ReplayInv'
  <2> SUFFICES ASSUME TypeInv, ReplayInv, [Next]_vars
               PROVE  ReplayInv'
    OBVIOUS
  <2> USE NamesAssumption
  <2> USE DEF TypeInv, TypeOK, ReplayInv, Marked, Resumed, Resuming, Goto, Procs,
              tables, memory, history, vars
  <2>1. ASSUME NEW t \in Tasks, Create(t) PROVE ReplayInv'
    BY <2>1 DEF Create, CreateRow, StartStream
  <2>2. ASSUME NEW r \in Requests, Submit(r) PROVE ReplayInv'
    <3>1. r \notin resumed /\ r \notin late /\ pc[r] = "idle"
      BY <2>2 DEF Submit
    <3>2. \/ late' = late
          \/ late' = late \union {r} /\ request'[r].event \in consumed
      BY <2>2 DEF Submit
    <3>3. \A q \in Requests : q # r => request'[q] = request[q]
      BY <2>2 DEF Submit
    <3> QED
      BY <2>2, <3>1, <3>2, <3>3 DEF Submit
  <2>3. ASSUME NEW r \in Requests, IsConsumed(r) PROVE ReplayInv'
    BY <2>3 DEF IsConsumed
  <2>4. ASSUME NEW r \in Requests, MarkConsumed(r) PROVE ReplayInv'
    BY <2>4 DEF MarkConsumed
  <2>5. ASSUME NEW r \in Requests, Validate(r) PROVE ReplayInv'
    BY <2>5 DEF Validate
  <2>6. ASSUME NEW r \in Requests, ClearPending(r) PROVE ReplayInv'
    BY <2>6 DEF ClearPending
  <2>7. ASSUME NEW r \in Requests, UpdateState(r) PROVE ReplayInv'
    BY <2>7 DEF UpdateState
  <2>8. ASSUME NEW r \in Requests, ResumeStream(r) PROVE ReplayInv'
    BY <2>8 DEF ResumeStream
  <2>9. ASSUME NEW p \in Procs, Executor(p) PROVE ReplayInv'
    BY <2>9 DEF Executor, RunNode, EndStream, GetState, Publish, PublishError,
                UpdateStatus, UpdatePending
  <2>10. ASSUME NEW p \in Procs, RaiseInGraph(p) \/ Raise(p) PROVE ReplayInv'
    BY <2>10 DEF RaiseInGraph, Raise
  <2>11. CASE Restart
    BY <2>11 DEF Restart, Running, InFlight, CreateLabels, CallbackLabels
  <2>12. CASE UNCHANGED vars
    BY <2>12
  <2> QED
    BY <2>1, <2>2, <2>3, <2>4, <2>5, <2>6, <2>7, <2>8, <2>9, <2>10, <2>11, <2>12
       DEF Next, Callback, Fault
<1>3. ReplayInv => ReplayRefused
  BY DEF ReplayInv, ReplayRefused
<1> QED
  BY <1>1, <1>2, <1>3, TypeInvariant, PTL DEF Spec

------------------------------------------------------------------------------
(* Gates                                                                   *)

\* A gate is run in the first superstep of a callback that has resumed, or not at all.
LEMMA GateInvariant == Spec => []GateInv
<1>1. Init => GateInv
  BY DEF Init, GateInv, Procs, Resuming
<1>2. TypeInv /\ GateInv /\ [Next]_vars => GateInv'
  <2> SUFFICES ASSUME TypeInv, GateInv, [Next]_vars
               PROVE  GateInv'
    OBVIOUS
  <2> USE NamesAssumption
  <2> USE DEF TypeInv, TypeOK, GateInv, Resumed, Resuming, Goto, Procs,
              tables, memory, history, vars
  <2>1. ASSUME NEW t \in Tasks, Create(t) PROVE GateInv'
    BY <2>1 DEF Create, CreateRow, StartStream
  <2>2. ASSUME NEW r \in Requests, Submit(r) PROVE GateInv'
    BY <2>2 DEF Submit
  <2>3. ASSUME NEW r \in Requests,
               IsConsumed(r) \/ MarkConsumed(r) \/ Validate(r) \/ ClearPending(r)
        PROVE  GateInv'
    BY <2>3 DEF IsConsumed, MarkConsumed, Validate, ClearPending
  <2>4. ASSUME NEW r \in Requests, UpdateState(r) PROVE GateInv'
    BY <2>4 DEF UpdateState
  <2>5. ASSUME NEW r \in Requests, ResumeStream(r) PROVE GateInv'
    BY <2>5 DEF ResumeStream
  <2>6. ASSUME NEW p \in Procs, RunNode(p) PROVE GateInv'
    <3>1. CASE loop[p].next \notin Gates
      <4>1. gates' = gates
        BY <2>6, <3>1 DEF RunNode
      <4> QED
        BY <2>6, <4>1 DEF RunNode
    <3>2. CASE loop[p].next \in Gates
      <4>1. pc[p] = "resume" /\ p \in Requests /\ p \in resumed
        BY <2>6, <3>2 DEF RunNode, Stops
      <4>2. \A g \in gates : g[1] # p
        BY <4>1
      <4>3. gates' = gates \union {<<p, loop[p].next>>}
        BY <2>6, <3>2 DEF RunNode
      <4>4. pc' = [pc EXCEPT ![p] = "tick"] /\ resumed' = resumed
        BY <2>6 DEF RunNode
      <4> QED
        BY <4>1, <4>2, <4>3, <4>4
    <3> QED
      BY <3>1, <3>2
  <2>7. ASSUME NEW p \in Procs,
               EndStream(p) \/ GetState(p) \/ Publish(p) \/ PublishError(p)
               \/ UpdateStatus(p) \/ UpdatePending(p)
        PROVE  GateInv'
    BY <2>7 DEF EndStream, GetState, Publish, PublishError, UpdateStatus, UpdatePending
  <2>8. ASSUME NEW p \in Procs, RaiseInGraph(p) \/ Raise(p) PROVE GateInv'
    BY <2>8 DEF RaiseInGraph, Raise
  <2>9. CASE Restart
    BY <2>9 DEF Restart, Running, InFlight, CreateLabels, CallbackLabels
  <2>10. CASE UNCHANGED vars
    BY <2>10
  <2> QED
    BY <2>1, <2>2, <2>3, <2>4, <2>5, <2>6, <2>7, <2>8, <2>9, <2>10
       DEF Next, Callback, Executor, Fault
<1> QED
  BY <1>1, <1>2, TypeInvariant, PTL DEF Spec

\* An interrupt node runs only in a callback that resumed, one per callback.
THEOREM GatesNeedDecisions == Spec => []GateNeedsDecision
<1>1. GateInv => GateNeedsDecision
  BY DEF GateInv, GateNeedsDecision
<1> QED
  BY <1>1, GateInvariant, PTL

\* In a workflow whose entry is guarded by a gate, no task is completed before a
\* callback has resumed it.
THEOREM CompletionNeedsSomebody ==
    ASSUME NEW CONSTANT G, GuardedBy(G)
    PROVE  Spec => []NobodyCompletesAlone
<1> USE NamesAssumption
<1>1. Init => AloneInv(G)
  BY DEF Init, AloneInv, Procs, NoResult, Result, AbsentRow
<1>2. TypeInv /\ GateInv /\ AloneInv(G) /\ [Next]_vars => AloneInv(G)'
  <2> SUFFICES ASSUME TypeInv, GateInv, AloneInv(G), [Next]_vars
               PROVE  AloneInv(G)'
    OBVIOUS
  <2> USE DEF TypeInv, TypeOK, LabelInv, GateInv, AloneInv, Resumed, Resuming, Goto, Procs,
              tables, memory, history, vars
  <2>1. ASSUME NEW t \in Tasks, CreateRow(t) PROVE AloneInv(G)'
    BY <2>1 DEF CreateRow, AbsentRow
  <2>2. ASSUME NEW t \in Tasks, StartStream(t) PROVE AloneInv(G)'
    BY <2>2 DEF StartStream, Started, GuardedBy
  <2>3. ASSUME NEW r \in Requests, Submit(r) PROVE AloneInv(G)'
    <3>1. r \notin resumed /\ \A q \in Requests : q # r => request'[q] = request[q]
      BY <2>3 DEF Submit
    <3> QED
      BY <2>3, <3>1 DEF Submit
  <2>4. ASSUME NEW r \in Requests,
               IsConsumed(r) \/ MarkConsumed(r) \/ Validate(r) \/ ResumeStream(r)
        PROVE  AloneInv(G)'
    BY <2>4 DEF IsConsumed, MarkConsumed, Validate, ResumeStream
  <2>5. ASSUME NEW r \in Requests, ClearPending(r) PROVE AloneInv(G)'
    <3>1. \A t \in Tasks : row'[t].status = row[t].status
      BY <2>5 DEF ClearPending, Rows
    <3> QED
      BY <2>5, <3>1 DEF ClearPending
  <2>6. ASSUME NEW r \in Requests, UpdateState(r) PROVE AloneInv(G)'
    BY <2>6 DEF UpdateState
  <2>7. ASSUME NEW p \in Procs, RunNode(p) PROVE AloneInv(G)'
    <3>1. CASE p \in Requests
      BY <2>7, <3>1 DEF RunNode, TaskOf
    <3>2. CASE p \in Tasks
      <4>1. TaskOf(p) = p /\ pc[p] = "tick" /\ loop[p].next \notin Gates \union {END}
        BY <2>7, <3>2 DEF RunNode, Stops, TaskOf
      <4>2. ASSUME NEW n \in G \ Gates, NEW v
            PROVE  Edge(Config, n, v) \in G
        BY ConfigAssumption
           DEF WellFormed, GuardedBy, Gates, InterruptNodes, Nodes, Edge
      <4>3. loop[p].next \in G => Executed(Config, loop[p]).next \in G
        BY <4>1, <4>2 DEF Executed
      <4>4. /\ loop' = [loop EXCEPT ![p] = Executed(Config, loop[p])]
            /\ checkpoint' = [checkpoint EXCEPT ![p] = Executed(Config, loop[p])]
            /\ pc' = [pc EXCEPT ![p] = "tick"]
            /\ UNCHANGED <<row, request, result, resumed>>
        BY <2>7, <4>1 DEF RunNode
      <4> QED
        BY <3>2, <4>1, <4>3, <4>4
    <3> QED
      BY <3>1, <3>2
  <2>8. ASSUME NEW p \in Procs, EndStream(p) PROVE AloneInv(G)'
    BY <2>8 DEF EndStream
  <2>9. ASSUME NEW p \in Procs, GetState(p) PROVE AloneInv(G)'
    <3>1. END \notin G
      BY ConfigAssumption DEF WellFormed, GuardedBy, Nodes
    <3>2. p \in Tasks /\ checkpoint[p].next \in G => Observed(p).status = "interrupted"
      BY <3>1 DEF Observed, Result, TaskOf
    <3> QED
      BY <2>9, <3>2 DEF GetState
  <2>10. ASSUME NEW p \in Procs, Publish(p) \/ PublishError(p) PROVE AloneInv(G)'
    BY <2>10 DEF Publish, PublishError
  <2>11. ASSUME NEW p \in Procs, UpdateStatus(p) PROVE AloneInv(G)'
    <3>1. TaskOf(p) \in Tasks
      BY <2>11 DEF UpdateStatus, TaskOf
    <3>2. row'[TaskOf(p)].status = "completed" => result[p].status = "completed"
      BY <2>11, <3>1 DEF UpdateStatus, DerivedStatus, Rows
    <3>3. \A t \in Tasks : t # TaskOf(p) => row'[t] = row[t]
      BY <2>11 DEF UpdateStatus
    <3>4. (\A r \in resumed : request[r].task # TaskOf(p)) => result[p].status # "completed"
      BY <2>11 DEF TaskOf
    <3> QED
      BY <2>11, <3>1, <3>2, <3>3, <3>4 DEF UpdateStatus
  <2>12. ASSUME NEW p \in Procs, UpdatePending(p) PROVE AloneInv(G)'
    <3>1. \A t \in Tasks : row'[t].status = row[t].status
      BY <2>12 DEF UpdatePending, Rows
    <3> QED
      BY <2>12, <3>1 DEF UpdatePending
  <2>13. ASSUME NEW p \in Procs, RaiseInGraph(p) \/ Raise(p) PROVE AloneInv(G)'
    BY <2>13 DEF RaiseInGraph, Raise, Result
  <2>14. CASE Restart
    BY <2>14 DEF Restart, Running, InFlight, CreateLabels, CallbackLabels
  <2>15. CASE UNCHANGED vars
    BY <2>15
  <2> QED
    BY <2>1, <2>2, <2>3, <2>4, <2>5, <2>6, <2>7, <2>8, <2>9, <2>10, <2>11, <2>12, <2>13,
       <2>14, <2>15 DEF Next, Create, Callback, Executor, Fault
<1>3. TypeInv /\ AloneInv(G) => NobodyCompletesAlone
  BY DEF AloneInv, NobodyCompletesAlone
<1> QED
  BY <1>1, <1>2, <1>3, TypeInvariant, GateInvariant, PTL DEF Spec

------------------------------------------------------------------------------
(* Inputs                                                                  *)

\* The input of a callback answered with success is merged into the task's data and
\* no concurrent merge loses it.
THEOREM InputsAreKept == Spec => []InputsKept
<1>1. Init => InputsInv
  BY NamesAssumption DEF Init, InputsInv, Procs, AbsentRow, Accepted, Resumed, Resuming
<1>2. TypeInv /\ InputsInv /\ [Next]_vars => InputsInv'
  <2> SUFFICES ASSUME TypeInv, InputsInv, [Next]_vars
               PROVE  InputsInv'
    OBVIOUS
  <2> USE NamesAssumption
  <2> USE DEF TypeInv, TypeOK, LabelInv, InputsInv, Accepted, Resumed, Resuming,
              Goto, Procs, tables, memory, history, vars
  <2>1. ASSUME NEW t \in Tasks, CreateRow(t) PROVE InputsInv'
    <3>1. \A r \in Requests : pc[r] \in Accepted => request[r].task # t
      BY <2>1 DEF CreateRow
    <3>2. row'[t].status = "pending" /\ \A u \in Tasks : u # t => row'[u] = row[u]
      BY <2>1 DEF CreateRow, AbsentRow
    <3> QED
      BY <2>1, <3>1, <3>2 DEF CreateRow
  <2>2. ASSUME NEW t \in Tasks, StartStream(t) PROVE InputsInv'
    BY <2>2 DEF StartStream
  <2>3. ASSUME NEW r \in Requests, Submit(r) PROVE InputsInv'
    <3>1. \A q \in Requests : q # r => request'[q] = request[q]
      BY <2>3 DEF Submit
    <3> QED
      BY <2>3, <3>1 DEF Submit
  <2>4. ASSUME NEW r \in Requests, Validate(r) PROVE InputsInv'
    BY <2>4 DEF Validate, Accepts
  <2>5. ASSUME NEW r \in Requests, ClearPending(r) PROVE InputsInv'
    <3>1. \A t \in Tasks : row'[t].status = row[t].status /\ row'[t].inputs = row[t].inputs
      BY <2>5 DEF ClearPending, Rows
    <3> QED
      BY <2>5, <3>1 DEF ClearPending
  <2>6. ASSUME NEW r \in Requests,
               IsConsumed(r) \/ MarkConsumed(r) \/ UpdateState(r) \/ ResumeStream(r)
        PROVE  InputsInv'
    BY <2>6 DEF IsConsumed, MarkConsumed, UpdateState, ResumeStream
  <2>7. ASSUME NEW p \in Procs, UpdateStatus(p) PROVE InputsInv'
    <3>1. \A t \in Tasks : row[t].inputs \subseteq row'[t].inputs
      BY <2>7 DEF UpdateStatus, MergedInputs, TaskOf, Rows
    <3>2. p \in Requests => p \in row'[request[p].task].inputs
      BY <2>7 DEF UpdateStatus, MergedInputs, TaskOf, Rows
    <3>3. DerivedStatus(p).status # "absent"
      BY <2>7 DEF UpdateStatus, DerivedStatus
    <3>4. TaskOf(p) \in Tasks /\ pc[TaskOf(p)] # "idle"
      BY <2>7 DEF UpdateStatus, TaskOf
    <3>5. row'[TaskOf(p)].status # "absent"
      BY <2>7, <3>3, <3>4 DEF UpdateStatus, Rows
    <3>6. \A t \in Tasks : t # TaskOf(p) => row'[t] = row[t]
      BY <2>7 DEF UpdateStatus
    <3> QED
      BY <2>7, <3>1, <3>2, <3>4, <3>5, <3>6 DEF UpdateStatus
  <2>8. ASSUME NEW p \in Procs, UpdatePending(p) PROVE InputsInv'
    BY <2>8 DEF UpdatePending
  <2>9. ASSUME NEW p \in Procs,
               RunNode(p) \/ EndStream(p) \/ GetState(p) \/ Publish(p) \/ PublishError(p)
        PROVE  InputsInv'
    BY <2>9 DEF RunNode, EndStream, GetState, Publish, PublishError
  <2>10. ASSUME NEW p \in Procs, RaiseInGraph(p) \/ Raise(p) PROVE InputsInv'
    BY <2>10 DEF RaiseInGraph, Raise
  <2>11. CASE Restart
    BY <2>11 DEF Restart
  <2>12. CASE UNCHANGED vars
    BY <2>12
  <2> QED
    BY <2>1, <2>2, <2>3, <2>4, <2>5, <2>6, <2>7, <2>8, <2>9, <2>10, <2>11, <2>12
       DEF Next, Create, Callback, Executor, Fault
<1>3. InputsInv => InputsKept
  BY DEF InputsInv, InputsKept
<1> QED
  BY <1>1, <1>2, <1>3, TypeInvariant, PTL DEF Spec

------------------------------------------------------------------------------
(* Offers                                                                  *)

\* A process that offers its event has published it, and an offered event is one of
\* a process that has ended: publication precedes the offer on every path.
LEMMA OfferInvariant == Spec => []OfferInv
<1>1. Init => OfferInv
  BY DEF Init, OfferInv, AbsentRow
<1>2. TypeInv /\ OfferInv /\ [Next]_vars => OfferInv'
  <2> SUFFICES ASSUME TypeInv, OfferInv, [Next]_vars
               PROVE  OfferInv'
    OBVIOUS
  <2> USE NamesAssumption
  <2> USE DEF TypeInv, TypeOK, LabelInv, OfferInv, Goto, Procs, TaskOf,
              tables, memory, history, vars
  <2>1. ASSUME NEW t \in Tasks, Create(t) PROVE OfferInv'
    BY <2>1 DEF Create, CreateRow, StartStream, AbsentRow
  <2>2. ASSUME NEW r \in Requests, Submit(r) PROVE OfferInv'
    BY <2>2 DEF Submit
  <2>3. ASSUME NEW r \in Requests, ClearPending(r) PROVE OfferInv'
    BY <2>3 DEF ClearPending, NoPending
  <2>4. ASSUME NEW r \in Requests,
               IsConsumed(r) \/ MarkConsumed(r) \/ Validate(r) \/ UpdateState(r) \/ ResumeStream(r)
        PROVE  OfferInv'
    BY <2>4 DEF IsConsumed, MarkConsumed, Validate, UpdateState, ResumeStream
  <2>5. ASSUME NEW p \in Procs, RunNode(p) \/ EndStream(p) PROVE OfferInv'
    BY <2>5 DEF RunNode, EndStream
  <2>6. ASSUME NEW p \in Procs, GetState(p) PROVE OfferInv'
    BY <2>6 DEF GetState
  <2>7. ASSUME NEW p \in Procs, Publish(p) PROVE OfferInv'
    BY <2>7 DEF Publish
  <2>8. ASSUME NEW p \in Procs, PublishError(p) PROVE OfferInv'
    BY <2>8 DEF PublishError
  <2>9. ASSUME NEW p \in Procs, UpdateStatus(p) PROVE OfferInv'
    <3>1. \A t \in Tasks : row'[t].pending = row[t].pending
      BY <2>9 DEF UpdateStatus, Rows
    <3>2. event' = event /\ result' = result /\ request' = request
      BY <2>9 DEF UpdateStatus
    <3>3. pc' = [pc EXCEPT ![p] = pc'[p]] /\ pc[p] = "update_status"
      BY <2>9 DEF UpdateStatus
    <3>4. pc'[p] = "update_pending" => result[p].status = "interrupted"
      BY <2>9 DEF UpdateStatus
    <3>5. pc'[p] # "update_status"
      BY <2>9 DEF UpdateStatus
    <3> QED
      BY <3>1, <3>2, <3>3, <3>4, <3>5
  <2>10. ASSUME NEW p \in Procs, UpdatePending(p) PROVE OfferInv'
    BY <2>10 DEF UpdatePending, Offer
  <2>11. ASSUME NEW p \in Procs, RaiseInGraph(p) \/ Raise(p) PROVE OfferInv'
    BY <2>11 DEF RaiseInGraph, Raise
  <2>12. CASE Restart
    BY <2>12 DEF Restart, Running, InFlight, CreateLabels, CallbackLabels
  <2>13. CASE UNCHANGED vars
    BY <2>13
  <2> QED
    BY <2>1, <2>2, <2>3, <2>4, <2>5, <2>6, <2>7, <2>8, <2>9, <2>10, <2>11, <2>12, <2>13
       DEF Next, Callback, Executor, Fault
<1> QED
  BY <1>1, <1>2, TypeInvariant, PTL DEF Spec

\* What GET shows as pending has been published for this task and node.
THEOREM OffersArePublished == Spec => []PendingIsPublished
<1>1. OfferInv => PendingIsPublished
  BY DEF OfferInv, PendingIsPublished, Published
<1> QED
  BY <1>1, OfferInvariant, PTL

=============================================================================
