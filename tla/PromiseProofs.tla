---------------------------- MODULE PromiseProofs ----------------------------
(***************************************************************************)
(* Proofs, for clients that answer what GET shows and as long as nothing   *)
(* fails, that a decision takes its task where it leads, and that the rows *)
(* implement the abstract human in the loop.                               *)
(***************************************************************************)
EXTENDS OrderProofs, Workflows

------------------------------------------------------------------------------
(* The stops of a workflow                                                 *)

Stops0 == Gates \union {END}
Places == Nodes \union {END}
After(n) == Resolve(Config, Config.nodes[n].target)

\* What follows a node that is no stop is a node, or END.
LEMMA AfterType == ASSUME NEW n \in Nodes PROVE After(n) \in Places
  BY ConfigAssumption DEF After, Resolve, WellFormed, Nodes, Places

\* The sets of places no run leaves before it stops, and those a run from n meets.
Closed(X) == \A x \in X \ Stops0 : After(x) \in X
Met(n) == {m \in Places : \A X \in SUBSET Places : n \in X /\ Closed(X) => m \in X}

\* A run from a stop meets it alone; from elsewhere, the stops its next node meets.
LEMMA MetStops ==
    ASSUME NEW n \in Places
    PROVE  /\ n \in Stops0 => Met(n) = {n}
           /\ n \notin Stops0 => Met(n) \intersect Stops0 = Met(After(n)) \intersect Stops0
<1>1. n \in Met(n)
  BY DEF Met
<1>2. CASE n \in Stops0
  <2>1. Closed({n})
    BY <1>2 DEF Closed
  <2> QED
    BY <1>1, <1>2, <2>1 DEF Met
<1>3. CASE n \notin Stops0
  <2>1. n \in Nodes /\ After(n) \in Places
    BY <1>3, AfterType DEF Places, Stops0
  <2>2. ASSUME NEW m \in Met(n) \intersect Stops0 PROVE m \in Met(After(n))
    <3> SUFFICES ASSUME NEW X \in SUBSET Places, After(n) \in X, Closed(X)
                 PROVE  m \in X
      BY DEF Met
    <3>1. Closed(X \union {n}) /\ X \union {n} \in SUBSET Places
      BY DEF Closed
    <3>2. m \in X \union {n}
      BY <3>1 DEF Met
    <3> QED
      BY <1>3, <3>2
  <2>3. ASSUME NEW m \in Met(After(n)) PROVE m \in Met(n)
    BY <1>3, <2>3 DEF Met, Closed
  <2> QED
    BY <1>3, <2>2, <2>3
<1> QED
  BY <1>2, <1>3

\* The recursive definition of StopFrom has a solution for every workflow, one whose
\* action nodes run in circles included: a gate stops at itself, as does END, and any
\* other node where the next one stops.
LEMMA StopIs ==
    ASSUME NEW n \in Places
    PROVE  StopFrom[n] = IF n \in Stops0 THEN n ELSE StopFrom[After(n)]
<1> DEFINE g == [m \in Places |-> CHOOSE s : s \in Met(m) \intersect Stops0]
           F(f) == [m \in Nodes \union {END} |->
                      IF m \in Gates \union {END} THEN m
                      ELSE f[Resolve(Config, Config.nodes[m].target)]]
<1>1. ASSUME NEW m \in Places
      PROVE  g[m] = IF m \in Stops0 THEN m ELSE g[After(m)]
  <2>1. CASE m \in Stops0
    <3>1. Met(m) \intersect Stops0 = {m}
      BY <2>1, MetStops
    <3> QED
      BY <2>1, <3>1
  <2>2. CASE m \notin Stops0
    <3>1. After(m) \in Places
      BY <2>2, AfterType DEF Places, Stops0
    <3>2. Met(m) \intersect Stops0 = Met(After(m)) \intersect Stops0
      BY <2>2, MetStops
    <3> QED
      BY <2>2, <3>1, <3>2
  <2> QED
    BY <2>1, <2>2
<1> HIDE DEF g
<1>2. g = [m \in Places |-> g[m]]
  BY DEF g
<1>3. g = F(g)
  BY <1>1, <1>2 DEF Places, Stops0, After
<1>4. StopFrom = F(StopFrom)
  <2> HIDE DEF F
  <2>1. StopFrom = CHOOSE f : f = F(f)
    BY DEF StopFrom, F
  <2> QED
    BY <1>3, <2>1
<1> QED
  BY <1>4 DEF Places, Stops0, After

------------------------------------------------------------------------------
(* Decisions                                                               *)

USE DEF Goto, tables, memory, history

\* What nobody touches keeps a process on its way.
LEMMA HeadingKeeps ==
    ASSUME NEW q \in Procs, Heading(q), pc'[q] = pc[q], result'[q] = result[q],
           q \in Requests => request'[q] = request[q],
           Running(q) => checkpoint'[TaskOf(q)] = checkpoint[TaskOf(q)]
    PROVE  Heading(q)'
<1>1. TaskOf(q)' = TaskOf(q) /\ Goal(q)' = Goal(q)
  BY DEF TaskOf, Goal, Matched, Procs
<1>2. CASE Running(q)
  BY <1>1, <1>2 DEF Heading, Running, CallbackLabels, Procs, TaskOf
<1>3. CASE ~Running(q)
  BY <1>1, <1>3 DEF Heading, Running, InFlight, CreateLabels, CallbackLabels
<1> QED
  BY <1>2, <1>3

\* A step of the process at work on a task concerns that task and that process only.
LEMMA HeadingStep ==
    ASSUME Inv, HonourInv, NEW p \in Procs, Running(p), UNCHANGED request,
           \A q \in Procs : q # p => pc'[q] = pc[q] /\ result'[q] = result[q],
           \A u \in Tasks : u # TaskOf(p) => checkpoint'[u] = checkpoint[u],
           LET th == checkpoint'[TaskOf(p)]
           IN th # checkpoint[TaskOf(p)] => th.next = Edge(Config, th.last, th.values),
           Heading(p)'
    PROVE  HonourInv'
<1>1. \A u \in Tasks : checkpoint'[u] # NoThread =>
         checkpoint'[u].next = Edge(Config, checkpoint'[u].last, checkpoint'[u].values)
  <2> SUFFICES ASSUME NEW u \in Tasks, checkpoint'[u] # NoThread
               PROVE  checkpoint'[u].next = Edge(Config, checkpoint'[u].last, checkpoint'[u].values)
    OBVIOUS
  <2>1. CASE checkpoint'[u] = checkpoint[u]
    BY <2>1 DEF HonourInv
  <2>2. CASE checkpoint'[u] # checkpoint[u]
    <3>1. u = TaskOf(p)
      BY <2>2
    <3> QED
      BY <2>2, <3>1
  <2> QED
    BY <2>1, <2>2
<1>2. ASSUME NEW q \in Procs, q # p PROVE Heading(q)'
  <2>1. Running(q) => TaskOf(q) # TaskOf(p) /\ TaskOf(q) \in Tasks
    BY <1>2, RowIsThere DEF Inv, OrderInv
  <2> QED
    BY <1>2, <2>1, HeadingKeeps DEF HonourInv
<1> QED
  BY <1>1, <1>2 DEF HonourInv

\* What a callback has in hand until it resumes the workflow.
LEMMA CallbackAtWork ==
    ASSUME Inv, HonourInv, NEW r \in Requests, pc[r] \in CallbackLabels \ {"resume"}
    PROVE  /\ r \in Procs /\ Running(r) /\ TaskOf(r) = request[r].task /\ TaskOf(r) \in Tasks
           /\ request[r].node \in Gates /\ checkpoint[TaskOf(r)].next = request[r].node
           /\ Decides(request[r].node, request[r].action, request[r].valid)
<1>1. r \in Procs /\ Running(r) /\ TaskOf(r) = request[r].task
  BY NamesAssumption DEF Procs, Running, InFlight, TaskOf
<1>2. Heading(r) /\ Asking(r)
  BY <1>1 DEF HonourInv, Inv, OrderInv
<1> QED
  BY <1>1, <1>2, RowIsThere DEF Heading, Asking, CallbackLabels

\* The checks of a callback leave its thread alone.
LEMMA CheckStep ==
    ASSUME Inv, HonourInv, NEW r \in Requests,
           IsConsumed(r) \/ MarkConsumed(r) \/ Validate(r) \/ ClearPending(r)
    PROVE  HonourInv'
<1>1. pc[r] \in {"is_consumed", "mark", "validate", "clear"}
  BY DEF IsConsumed, MarkConsumed, Validate, ClearPending
<1>2. /\ r \in Procs /\ Running(r) /\ TaskOf(r) = request[r].task /\ TaskOf(r) \in Tasks
      /\ request[r].node \in Gates /\ checkpoint[TaskOf(r)].next = request[r].node
  BY <1>1, CallbackAtWork DEF CallbackLabels
<1>3. UNCHANGED <<request, checkpoint, result>>
  BY DEF IsConsumed, MarkConsumed, Validate, ClearPending
<1>4. PICK label \in {"mark", "validate", "clear", "update", "refused"} :
         pc' = [pc EXCEPT ![r] = label]
  BY DEF IsConsumed, MarkConsumed, Validate, ClearPending
<1>5. /\ pc'[r] = label
      /\ \A q \in Procs : q # r => pc'[q] = pc[q]
  BY <1>2, <1>4 DEF Inv, TypeInv, TypeOK
<1>6. Heading(r)'
  BY <1>2, <1>3, <1>5 DEF Heading, TaskOf
<1> QED
  BY <1>2, <1>3, <1>5, <1>6, HeadingStep

\* A record is its fields.
LEMMA ThreadIs ==
    ASSUME NEW th \in Checkpoints(Config)
    PROVE  /\ th = [last |-> th.last, next |-> th.next, values |-> th.values]
           /\ th.last \in Nodes \union {START} /\ th.next \in Nodes \union {END}
           /\ th.values \in [StateKeys -> Values]
  BY DEF Checkpoints, Nodes

\* The update is written as if the node before the gate had written it, and the
\* workflow lets the decision lead on from there all the same.
LEMMA UpdateStep ==
    ASSUME Inv, HonourInv, DecisionsLeadOn(Values), NEW r \in Requests, UpdateState(r)
    PROVE  HonourInv'
<1> DEFINE t == TaskOf(r)
           th == checkpoint[t]
           n == request[r].node
           a == request[r].action
           up == Updated(Config, th, ResumeData(r))
<1>1. pc[r] = "update" /\ pc' = [pc EXCEPT ![r] = "stream"] /\ UNCHANGED <<request, result>>
  BY DEF UpdateState
<1>2. /\ r \in Procs /\ Running(r) /\ t = request[r].task /\ t \in Tasks
      /\ n \in Gates /\ th.next = n /\ HasAction(Config, n, a)
  BY <1>1, CallbackAtWork DEF CallbackLabels, Decides
<1>3. /\ pc'[r] = "stream"
      /\ \A q \in Procs : q # r => pc'[q] = pc[q]
  BY <1>1, <1>2 DEF Inv, TypeInv, TypeOK
<1>4. /\ checkpoint'[t] = up
      /\ \A u \in Tasks : u # t => checkpoint'[u] = checkpoint[u]
  BY <1>2 DEF UpdateState, Inv, TypeInv, TypeOK
<1>5. th \in Checkpoints(Config) /\ th # NoThread
  <2>1. th \in Threads(Config) /\ END \notin Gates
    BY <1>2, ConfigAssumption DEF Inv, TypeInv, TypeOK, WellFormed, Gates, InterruptNodes
  <2> QED
    BY <1>2, <2>1 DEF Threads, NoThread
<1>6. Edge(Config, th.last, th.values) = n
  BY <1>2, <1>5 DEF HonourInv
<1>7. ResumeStop(up) = Goal(r)
  <2>1. ResumeData(r) = [MatchedTransition(Config, n, a).form EXCEPT !["action"] = a]
    BY DEF ResumeData, Matched
  <2>2. Goal(r) = StopFrom[Resolve(Config, MatchedTransition(Config, n, a).target)]
    BY NamesAssumption DEF Goal, Matched
  <2>3. a \in Actions
    <3>1. n \in Nodes
      BY <1>2 DEF HasAction, Nodes
    <3>2. \E i \in DOMAIN Config.nodes[n].transitions : Config.nodes[n].transitions[i].action = a
      BY <1>2 DEF HasAction, FirstWithAction
    <3> QED
      BY <3>1, <3>2 DEF Actions, Range
  <2>4. /\ th = [last |-> th.last, next |-> n, values |-> th.values]
        /\ th.last \in Nodes \union {START} /\ th.values \in [StateKeys -> Values]
    BY <1>2, <1>5, ThreadIs
  <2> HIDE DEF th, n, a
  <2> QED
    BY <1>2, <1>6, <2>1, <2>2, <2>3, <2>4 DEF DecisionsLeadOn
<1>8. up.next = Edge(Config, up.last, up.values)
  BY DEF Updated
<1>9. Heading(r)'
  <2>1. TaskOf(r)' = t /\ Goal(r)' = Goal(r)
    BY <1>1 DEF TaskOf, Goal, Matched
  <2> QED
    BY <1>3, <1>4, <1>7, <2>1, NamesAssumption DEF Heading, CallbackLabels
<1> HIDE DEF up
<1> QED
  BY <1>1, <1>2, <1>3, <1>4, <1>8, <1>9, HeadingStep

\* The resumed stream starts from the updated thread.
LEMMA LoadStep ==
    ASSUME Inv, HonourInv, NEW r \in Requests, ResumeStream(r)
    PROVE  HonourInv'
<1>1. pc[r] = "stream" /\ pc' = [pc EXCEPT ![r] = "resume"]
      /\ UNCHANGED <<request, checkpoint, result>>
  BY DEF ResumeStream
<1>2. r \in Procs /\ Running(r)
  BY <1>1 DEF Procs, Running, InFlight, CreateLabels
<1>3. /\ pc'[r] = "resume"
      /\ \A q \in Procs : q # r => pc'[q] = pc[q]
  BY <1>1, <1>2 DEF Inv, TypeInv, TypeOK
<1>4. Heading(r)'
  <2>1. TaskOf(r)' = TaskOf(r) /\ Goal(r)' = Goal(r) /\ Heading(r)
    BY <1>1, <1>2 DEF TaskOf, Goal, Matched, HonourInv
  <2> QED
    BY <1>1, <1>3, <2>1 DEF Heading
<1> QED
  BY <1>1, <1>2, <1>3, <1>4, HeadingStep

\* A node that is not a gate is left by its one edge.
LEMMA ActionEdge ==
    ASSUME NEW n \in Nodes, n \notin Gates, NEW v
    PROVE  Edge(Config, n, v) = After(n)
  BY ConfigAssumption DEF Edge, After, Gates, InterruptNodes, WellFormed, Nodes

\* A superstep moves the thread along the way to its stop.
LEMMA SuperstepStep ==
    ASSUME Inv, HonourInv, NEW p \in Procs, RunNode(p)
    PROVE  HonourInv'
<1> DEFINE t == TaskOf(p)
           th == checkpoint[t]
           after == Executed(Config, th)
<1>1. /\ pc[p] \in {"tick", "resume"} /\ pc' = [pc EXCEPT ![p] = "tick"] /\ ~Stops(p)
      /\ UNCHANGED <<request, result>>
  BY DEF RunNode
<1>2. /\ Running(p) /\ t \in Tasks /\ Executing(p)
  BY <1>1, AtWork DEF CreateLabels
<1>3. loop[p] = th
  BY <1>1, <1>2 DEF Executing
<1>4. /\ pc'[p] = "tick"
      /\ \A q \in Procs : q # p => pc'[q] = pc[q]
      /\ checkpoint'[t] = after
      /\ \A u \in Tasks : u # t => checkpoint'[u] = checkpoint[u]
  BY <1>1, <1>2, <1>3 DEF RunNode, Inv, TypeInv, TypeOK
<1>5. th.next # END /\ (pc[p] = "tick" => th.next \notin Gates)
  BY <1>1, <1>3 DEF Stops
<1>6. th.next \in Nodes
  BY <1>2, <1>5 DEF Inv, TypeInv, TypeOK, Threads, Checkpoints, Nodes, NoThread
<1>7. TaskOf(p)' = t /\ Goal(p)' = Goal(p) /\ Heading(p)
  BY <1>1 DEF TaskOf, Goal, Matched, HonourInv
<1>8. StopFrom[after.next] = Goal(p)
  <2>1. CASE pc[p] = "resume"
    <3>1. p \in Requests
      BY <2>1 DEF Inv, TypeInv, TypeOK, CallbackLabels, Procs
    <3> QED
      BY <1>5, <1>7, <2>1, <3>1 DEF Heading, ResumeStop
  <2>2. CASE pc[p] = "tick"
    <3>1. th.next \in Places \ Stops0
      BY <1>5, <1>6, <2>2 DEF Places, Stops0
    <3>2. StopFrom[th.next] = StopFrom[After(th.next)]
      BY <3>1, StopIs
    <3>3. after.next = After(th.next)
      BY <1>5, <1>6, <2>2, ActionEdge DEF Executed
    <3> QED
      BY <1>7, <2>2, <3>2, <3>3 DEF Heading
  <2> QED
    BY <1>1, <2>1, <2>2
<1>9. after.next = Edge(Config, after.last, after.values)
  BY DEF Executed
<1> HIDE DEF after
<1>10. Heading(p)'
  BY <1>4, <1>7, <1>8 DEF Heading, CallbackLabels
<1> QED
  BY <1>1, <1>2, <1>4, <1>9, <1>10, HeadingStep

\* A stream that ends has arrived.
LEMMA EndStep ==
    ASSUME Inv, HonourInv, NEW p \in Procs, EndStream(p)
    PROVE  HonourInv'
<1> DEFINE t == TaskOf(p)
           th == checkpoint[t]
<1>1. /\ pc[p] \in {"tick", "resume"} /\ pc' = [pc EXCEPT ![p] = "get_state"] /\ Stops(p)
      /\ UNCHANGED <<request, result, checkpoint>>
  BY DEF EndStream
<1>2. /\ Running(p) /\ t \in Tasks /\ Executing(p)
  BY <1>1, AtWork DEF CreateLabels
<1>3. loop[p] = th
  BY <1>1, <1>2 DEF Executing
<1>4. /\ pc'[p] = "get_state"
      /\ \A q \in Procs : q # p => pc'[q] = pc[q]
  BY <1>1 DEF Inv, TypeInv, TypeOK
<1>5. TaskOf(p)' = t /\ Goal(p)' = Goal(p) /\ Heading(p)
  BY <1>1 DEF TaskOf, Goal, Matched, HonourInv
<1>6. th.next = Goal(p)
  <2>1. CASE pc[p] = "resume"
    <3>1. p \in Requests
      BY <2>1 DEF Inv, TypeInv, TypeOK, CallbackLabels, Procs
    <3> QED
      BY <1>1, <1>3, <1>5, <2>1, <3>1 DEF Heading, ResumeStop, Stops
  <2>2. CASE pc[p] = "tick"
    <3>1. th.next \in Stops0
      BY <1>1, <1>3 DEF Stops, Stops0
    <3>2. th.next \in Places
      BY <3>1 DEF Stops0, Places, Gates, InterruptNodes, Nodes
    <3> QED
      BY <1>5, <2>2, <3>1, <3>2, StopIs DEF Heading
  <2> QED
    BY <1>1, <2>1, <2>2
<1>7. Heading(p)'
  BY <1>1, <1>4, <1>5, <1>6 DEF Heading, CallbackLabels
<1> QED
  BY <1>1, <1>2, <1>4, <1>7, HeadingStep

\* The result says where the thread has arrived.
LEMMA ResultStep ==
    ASSUME Inv, HonourInv, NEW p \in Procs, GetState(p)
    PROVE  HonourInv'
<1>1. /\ pc[p] = "get_state" /\ UNCHANGED <<request, checkpoint>>
      /\ result' = [result EXCEPT ![p] = Observed(p)]
  BY DEF GetState
<1>2. PICK label \in {"publish", "update_status"} : pc' = [pc EXCEPT ![p] = label]
  BY DEF GetState
<1>3. Running(p)
  BY <1>1 DEF Running, InFlight, CreateLabels
<1>4. /\ pc'[p] = label /\ result'[p] = Observed(p)
      /\ \A q \in Procs : q # p => pc'[q] = pc[q] /\ result'[q] = result[q]
  BY <1>1, <1>2 DEF Inv, TypeInv, TypeOK
<1>5. TaskOf(p)' = TaskOf(p) /\ Goal(p)' = Goal(p) /\ Heading(p)
  BY <1>1 DEF TaskOf, Goal, Matched, HonourInv
<1>6. Observed(p) = Arrived(Goal(p))
  BY <1>1, <1>5 DEF Heading, Observed, Arrived
<1>7. Heading(p)'
  BY <1>4, <1>5, <1>6 DEF Heading, CallbackLabels
<1> QED
  BY <1>1, <1>3, <1>4, <1>7, HeadingStep

\* What is written afterwards changes neither the thread nor the result.
LEMMA WriteStep ==
    ASSUME Inv, HonourInv, NEW p \in Procs, Publish(p) \/ UpdateStatus(p) \/ UpdatePending(p)
    PROVE  HonourInv'
<1>1. pc[p] \in {"publish", "update_status", "update_pending"} /\ UNCHANGED <<request, checkpoint, result>>
  BY DEF Publish, UpdateStatus, UpdatePending
<1>2. PICK label \in {"update_status", "update_pending", "done"} : pc' = [pc EXCEPT ![p] = label]
  BY DEF Publish, UpdateStatus, UpdatePending
<1>3. Running(p)
  BY <1>1 DEF Running, InFlight, CreateLabels
<1>4. /\ pc'[p] = label
      /\ \A q \in Procs : q # p => pc'[q] = pc[q]
  BY <1>2 DEF Inv, TypeInv, TypeOK
<1>5. TaskOf(p)' = TaskOf(p) /\ Goal(p)' = Goal(p) /\ Heading(p)
  BY <1>1 DEF TaskOf, Goal, Matched, HonourInv
<1>6. Heading(p)'
  BY <1>1, <1>4, <1>5 DEF Heading, CallbackLabels
<1> QED
  BY <1>1, <1>3, <1>4, <1>6, HeadingStep

\* A task begins at the entry of its workflow.
LEMMA BeginStep ==
    ASSUME Inv, HonourInv, NEW t \in Tasks, Create(t)
    PROVE  HonourInv'
<1>1. t \in Procs /\ TaskOf(t) = t /\ TaskOf(t)' = t /\ t \notin Requests
      /\ Goal(t) = StopFrom[Config.entry] /\ Goal(t)' = Goal(t)
  BY NamesAssumption DEF Procs, TaskOf, Goal
<1>2. CASE CreateRow(t)
  <2>1. /\ pc'[t] = "stream" /\ UNCHANGED <<request, checkpoint, result>>
        /\ \A q \in Procs : q # t => pc'[q] = pc[q]
    BY <1>1, <1>2 DEF CreateRow, Inv, TypeInv, TypeOK
  <2>2. \A q \in Procs : q # t => Heading(q)'
    BY <2>1, HeadingKeeps DEF HonourInv
  <2>3. Heading(t)'
    BY <1>1, <2>1 DEF Heading
  <2> QED
    BY <2>1, <2>2, <2>3 DEF HonourInv
<1>3. CASE StartStream(t)
  <2>1. /\ pc[t] = "stream" /\ pc'[t] = "tick" /\ UNCHANGED <<request, result>>
        /\ checkpoint'[t] = Started(Config)
        /\ \A q \in Procs : q # t => pc'[q] = pc[q]
        /\ \A u \in Tasks : u # t => checkpoint'[u] = checkpoint[u]
    BY <1>1, <1>3 DEF StartStream, Inv, TypeInv, TypeOK
  <2>2. Running(t)
    BY <2>1 DEF Running, InFlight, CreateLabels
  <2>3. Heading(t)'
    BY <1>1, <2>1 DEF Heading, Started
  <2>4. Started(Config).next = Edge(Config, Started(Config).last, Started(Config).values)
    BY DEF Started, Edge
  <2> QED
    BY <1>1, <2>1, <2>2, <2>3, <2>4, HeadingStep
<1> QED
  BY <1>2, <1>3 DEF Create

\* A careful client answers the question of the gate its task is stopped at.
LEMMA AnswerStep ==
    ASSUME Inv, OrderInv', HonourInv, Client = "careful", NEW r \in Requests, Submit(r)
    PROVE  HonourInv'
<1>1. PICK t \in Tasks, e \in Events, n \in Gates \union {NoNode}, a \in Actions, valid \in BOOLEAN :
         /\ Permitted(t, e, n, a, valid)
         /\ request' = [request EXCEPT ![r] =
               [task |-> t, event |-> e, node |-> n, action |-> a, valid |-> valid]]
  BY DEF Submit
<1>2. /\ pc[r] = "idle" /\ pc'[r] = "is_consumed" /\ r \in Procs /\ r \notin Tasks
      /\ UNCHANGED <<row, checkpoint, result>>
      /\ \A q \in Procs : q # r => pc'[q] = pc[q]
  BY NamesAssumption DEF Submit, Procs, Inv, TypeInv, TypeOK
<1>3. /\ request'[r].task = t /\ request'[r].node = n
      /\ \A q \in Requests : q # r => request'[q] = request[q]
  BY <1>1 DEF Inv, TypeInv, TypeOK
<1>4. row[t].pending.node = n
  BY <1>1 DEF Permitted, ShownPending
<1>5. TaskOf(r)' = t
  BY <1>2, <1>3 DEF TaskOf
<1>6. Waiting(t)'
  BY <1>2, <1>5 DEF OrderInv, Asking
<1>7. checkpoint'[t].next = n /\ n \in Gates
  BY <1>2, <1>4, <1>6 DEF Waiting, StoppedAsShown
<1>8. Heading(r)'
  BY <1>2, <1>3, <1>5, <1>7 DEF Heading
<1>9. \A q \in Procs : q # r => Heading(q)'
  BY <1>2, <1>3, HeadingKeeps DEF HonourInv
<1> QED
  BY <1>2, <1>8, <1>9 DEF HonourInv

\* Nothing fails, nothing restarts.
LEMMA NoFault ==
    ASSUME Inv, MayFail = FALSE, MaxRestarts = 0
    PROVE  ~Fault
<1>1. ~Restart
  BY DEF Restart, Inv, TypeInv, TypeOK
<1> QED
  BY <1>1 DEF Fault, RaiseInGraph, Raise

\* Every process stays on its way, in a workflow that lets decisions lead on.
LEMMA HonourInvariant ==
    ASSUME Client = "careful", MayFail = FALSE, MaxRestarts = 0, DecisionsLeadOn(Values)
    PROVE  Spec => [](Inv /\ HonourInv)
<1>1. Init => HonourInv
  BY DEF Init, HonourInv, Heading, CallbackLabels
<1>2. Inv /\ Inv' /\ HonourInv /\ [Next]_vars => HonourInv'
  <2> SUFFICES ASSUME Inv, Inv', HonourInv, [Next]_vars PROVE HonourInv'
    OBVIOUS
  <2>1. ASSUME NEW t \in Tasks, Create(t) PROVE HonourInv'
    BY <2>1, BeginStep
  <2>2. ASSUME NEW r \in Requests, Submit(r) PROVE HonourInv'
    BY <2>2, AnswerStep DEF Inv
  <2>3. ASSUME NEW r \in Requests, Callback(r) PROVE HonourInv'
    BY <2>3, CheckStep, UpdateStep, LoadStep DEF Callback
  <2>4. ASSUME NEW p \in Procs, Executor(p) PROVE HonourInv'
    <3>1. ~PublishError(p)
      BY DEF PublishError, Inv, OrderInv
    <3> QED
      BY <2>4, <3>1, SuperstepStep, EndStep, ResultStep, WriteStep DEF Executor
  <2>5. ~Fault
    BY NoFault
  <2>6. CASE UNCHANGED vars
    <3>1. UNCHANGED <<request, checkpoint, result, pc>>
      BY <2>6 DEF vars
    <3> QED
      BY <3>1, HeadingKeeps DEF HonourInv
  <2> QED
    BY <2>1, <2>2, <2>3, <2>4, <2>5, <2>6 DEF Next
<1> QED
  BY <1>1, <1>2, TypeInvariant, OfferInvariant, OrderInvariant, PTL DEF Spec, Inv

\* A callback that resumed a workflow took it where the transition of its action
\* leads, in every workflow that lets decisions lead on.
THEOREM DecisionsAreHonoured ==
    ASSUME Client = "careful", MayFail = FALSE, MaxRestarts = 0, DecisionsLeadOn(Values)
    PROVE  Spec => []DecisionHonoured
<1>1. Inv /\ HonourInv => DecisionHonoured
  <2> SUFFICES ASSUME Inv, HonourInv, NEW r \in resumed,
                      pc[r] \in {"update_status", "update_pending", "done"}
               PROVE  result[r] = Arrived(StopFrom[Resolve(Config, Matched(r).target)])
    BY DEF DecisionHonoured, Arrived
  <2>1. r \in Requests /\ r \in Procs /\ r \notin Tasks
    BY NamesAssumption DEF Inv, TypeInv, TypeOK, Procs
  <2> QED
    BY <2>1 DEF HonourInv, Heading, Goal
<1> QED
  BY <1>1, HonourInvariant, PTL

------------------------------------------------------------------------------
(* The workflows shipped                                                   *)

\* Where two transitions route, and which of them an action names.
LEMMA TwoTransitions ==
    ASSUME NEW x, NEW y, NEW v
    PROVE  /\ Route(<<x, y>>, v) = IF EvaluateCondition(x, v) THEN x.target
                                   ELSE IF EvaluateCondition(y, v) THEN y.target
                                   ELSE x.target
           /\ \A a : (\E i \in DOMAIN <<x, y>> : FirstWithAction(<<x, y>>, a, i))
                        => x.action = a \/ y.action = a
           /\ \A a : LET tr == <<x, y>>[CHOOSE i \in DOMAIN <<x, y>> : FirstWithAction(<<x, y>>, a, i)]
                     IN /\ x.action = a => tr = x
                        /\ x.action # a /\ y.action = a => tr = y
<1> DEFINE ts == <<x, y>>
<1>1. DOMAIN ts = {1, 2} /\ ts[1] = x /\ ts[2] = y /\ 1..(1 - 1) = {} /\ 1..(2 - 1) = {1}
  OBVIOUS
<1> HIDE DEF ts
<1>2. /\ FirstMatch(ts, v, 1) <=> EvaluateCondition(x, v)
      /\ FirstMatch(ts, v, 2) <=> ~EvaluateCondition(x, v) /\ EvaluateCondition(y, v)
  BY <1>1 DEF FirstMatch
<1>3. Route(ts, v) = IF EvaluateCondition(x, v) THEN x.target
                     ELSE IF EvaluateCondition(y, v) THEN y.target ELSE x.target
  <2>1. CASE EvaluateCondition(x, v)
    <3>1. (CHOOSE i \in DOMAIN ts : FirstMatch(ts, v, i)) = 1
      BY <1>1, <1>2, <2>1
    <3> QED
      BY <1>1, <1>2, <2>1, <3>1 DEF Route
  <2>2. CASE ~EvaluateCondition(x, v) /\ EvaluateCondition(y, v)
    <3>1. (CHOOSE i \in DOMAIN ts : FirstMatch(ts, v, i)) = 2
      BY <1>1, <1>2, <2>2
    <3> QED
      BY <1>1, <1>2, <2>2, <3>1 DEF Route
  <2>3. CASE ~EvaluateCondition(x, v) /\ ~EvaluateCondition(y, v)
    BY <1>1, <1>2, <2>3 DEF Route
  <2> QED
    BY <2>1, <2>2, <2>3
<1>4. ASSUME NEW a
      PROVE  /\ FirstWithAction(ts, a, 1) <=> x.action = a
             /\ FirstWithAction(ts, a, 2) <=> x.action # a /\ y.action = a
  BY <1>1 DEF FirstWithAction
<1>5. ASSUME NEW a
      PROVE  /\ x.action = a => (CHOOSE i \in DOMAIN ts : FirstWithAction(ts, a, i)) = 1
             /\ x.action # a /\ y.action = a
                   => (CHOOSE i \in DOMAIN ts : FirstWithAction(ts, a, i)) = 2
  BY <1>1, <1>4
<1>6. \A a : (\E i \in DOMAIN ts : FirstWithAction(ts, a, i)) => x.action = a \/ y.action = a
  BY <1>1, <1>4
<1> QED
  BY <1>1, <1>3, <1>5, <1>6 DEF ts

\* An action a gate with two transitions has is matched to one of them.
LEMMA TwoActions ==
    ASSUME NEW x, NEW y, NEW n, Config.nodes[n].transitions = <<x, y>>,
           NEW a, HasAction(Config, n, a)
    PROVE  LET tr == MatchedTransition(Config, n, a)
           IN (tr = x /\ x.action = a) \/ (tr = y /\ y.action = a)
<1> DEFINE ts == <<x, y>>
           k == CHOOSE i \in DOMAIN ts : FirstWithAction(ts, a, i)
<1>1. x.action = a \/ y.action = a
  BY TwoTransitions DEF HasAction
<1>2. /\ x.action = a => ts[k] = x
      /\ x.action # a /\ y.action = a => ts[k] = y
  BY TwoTransitions
<1>3. MatchedTransition(Config, n, a) = ts[k]
  BY DEF MatchedTransition
<1> HIDE DEF ts, k
<1> QED
  BY <1>1, <1>2, <1>3

\* The purchase request lets every decision lead on: the finance audit is reached on
\* is_approved = true, and a rejection there sends the manager's edge to the end, which
\* is where it leads.
LEMMA PurchaseLeadsOn ==
    ASSUME Config = PurchaseRequest
    PROVE  DecisionsLeadOn(Values)
<1> DEFINE m == <<OnApproval("approve", "true", "finance_audit"), OnApproval("reject", "false", "rejected")>>
           f == <<OnApproval("approve", "true", "approved"), OnApproval("reject", "false", "rejected")>>
<1>1. /\ Nodes = {"submit", "manager_audit", "finance_audit", "approved", "rejected"}
      /\ Config.entry = "submit"
      /\ Config.nodes["submit"] = Action("manager_audit")
      /\ Config.nodes["manager_audit"] = Interrupt(m)
      /\ Config.nodes["finance_audit"] = Interrupt(f)
      /\ Config.nodes["approved"] = Terminal /\ Config.nodes["rejected"] = Terminal
  BY DEF PurchaseRequest, Nodes, NodeIds
<1>2. Gates = {"manager_audit", "finance_audit"}
  BY <1>1 DEF Gates, InterruptNodes, Nodes, Action, Interrupt, Terminal
<1>3. /\ Resolve(Config, "manager_audit") = "manager_audit"
      /\ Resolve(Config, "finance_audit") = "finance_audit"
      /\ Resolve(Config, "approved") = END /\ Resolve(Config, "rejected") = END
      /\ Resolve(Config, END) = END
  BY <1>1 DEF Resolve, IsTerminal, Nodes, Action, Interrupt, Terminal, END
<1>4. ASSUME NEW v
      PROVE  /\ Edge(Config, START, v) = "submit" /\ Edge(Config, "submit", v) = "manager_audit"
             /\ Edge(Config, "manager_audit", v)
                    = IF v["is_approved"] = "false" THEN END ELSE "finance_audit"
             /\ Edge(Config, "finance_audit", v) = END
             /\ Edge(Config, "approved", v) = END /\ Edge(Config, "rejected", v) = END
  <2>1. /\ Route(m, v) = IF v["is_approved"] = "false" THEN "rejected" ELSE "finance_audit"
        /\ Route(f, v) \in {"approved", "rejected"}
    BY TwoTransitions DEF OnApproval, EvaluateCondition, StateKeys
  <2>2. m # << >> /\ f # << >>
    OBVIOUS
  <2> HIDE DEF m, f
  <2>3. /\ Edge(Config, START, v) = "submit" /\ Edge(Config, "submit", v) = "manager_audit"
        /\ Edge(Config, "approved", v) = END /\ Edge(Config, "rejected", v) = END
    BY <1>1, <1>3 DEF Edge, Action, Terminal, START
  <2>4. /\ Edge(Config, "manager_audit", v) = Resolve(Config, Route(m, v))
        /\ Edge(Config, "finance_audit", v) = Resolve(Config, Route(f, v))
    BY <1>1, <2>2 DEF Edge, Interrupt, START
  <2> QED
    BY <1>3, <2>1, <2>3, <2>4
<1>5. StopFrom["finance_audit"] = "finance_audit" /\ StopFrom[END] = END
  BY <1>1, <1>2, StopIs DEF Places, Stops0
<1>6. ASSUME NEW n \in Gates, NEW a, HasAction(Config, n, a)
      PROVE  LET tr == MatchedTransition(Config, n, a)
             IN \/ /\ n = "manager_audit"
                   /\ tr \in {OnApproval("approve", "true", "finance_audit"),
                              OnApproval("reject", "false", "rejected")}
                \/ /\ n = "finance_audit"
                   /\ tr \in {OnApproval("approve", "true", "approved"),
                              OnApproval("reject", "false", "rejected")}
  <2>1. CASE n = "manager_audit"
    <3>1. Config.nodes[n].transitions = m
      BY <1>1, <2>1 DEF Interrupt
    <3> QED
      BY <1>6, <2>1, <3>1, TwoActions
  <2>2. CASE n = "finance_audit"
    <3>1. Config.nodes[n].transitions = f
      BY <1>1, <2>2 DEF Interrupt
    <3> QED
      BY <1>6, <2>2, <3>1, TwoActions
  <2> QED
    BY <1>2, <2>1, <2>2
<1> HIDE DEF m, f
<1> SUFFICES ASSUME NEW last \in Nodes \union {START}, NEW values \in [StateKeys -> Values],
                    NEW n \in Gates, NEW a \in Actions,
                    Edge(Config, last, values) = n, HasAction(Config, n, a)
             PROVE  LET tr == MatchedTransition(Config, n, a)
                        th == [last |-> last, next |-> n, values |-> values]
                    IN ResumeStop(Updated(Config, th, [tr.form EXCEPT !["action"] = a]))
                           = StopFrom[Resolve(Config, tr.target)]
  BY DEF DecisionsLeadOn
<1> DEFINE tr == MatchedTransition(Config, n, a)
           th == [last |-> last, next |-> n, values |-> values]
           u == [tr.form EXCEPT !["action"] = a]
           up == Updated(Config, th, u)
<1>7. \/ last = "submit" /\ n = "manager_audit"
      \/ last = "manager_audit" /\ n = "finance_audit"
  BY <1>1, <1>2, <1>4 DEF START, END
<1>8. /\ up.last = last /\ up.next = Edge(Config, last, up.values) /\ up.values = Merge(values, u)
  <2>1. th # NoThread /\ th.last = last /\ th.values = values
    BY <1>7 DEF NoThread, NoNode
  <2> QED
    BY <2>1 DEF Updated
<1>9. \/ tr.form["is_approved"] = "true" /\ tr.target \in {"finance_audit", "approved"}
         /\ (n = "manager_audit" <=> tr.target = "finance_audit")
      \/ tr.form["is_approved"] = "false" /\ tr.target = "rejected"
  BY <1>6 DEF OnApproval, EmptyState, StateKeys
<1>10. up.values["is_approved"] = tr.form["is_approved"]
  <2>1. tr.form \in [StateKeys -> {"true", "false", Unset}]
    BY <1>6 DEF OnApproval, EmptyState, StateKeys
  <2>2. u["is_approved"] = tr.form["is_approved"] /\ u["is_approved"] # Unset
    BY <1>9, <2>1 DEF StateKeys, Unset
  <2> QED
    BY <1>8, <2>2 DEF Merge, StateKeys
<1> HIDE DEF tr, up, th, u
<1>11. ResumeStop(up) = StopFrom[Resolve(Config, tr.target)]
  <2>1. CASE last = "submit"
    BY <1>3, <1>4, <1>5, <1>7, <1>8, <1>9, <1>10, <2>1 DEF ResumeStop, Executed, END
  <2>2. CASE last = "manager_audit"
    BY <1>3, <1>4, <1>5, <1>7, <1>8, <1>9, <1>10, <2>2 DEF ResumeStop, Executed, END
  <2> QED
    BY <1>7, <2>1, <2>2
<1> QED
  BY <1>11 DEF tr, up, th, u

\* The inquiry does too: its one gate is reached from send_inquiry only, whatever the
\* values, and chooses by the action itself.
LEMMA InquiryLeadsOn ==
    ASSUME Config = Inquiry
    PROVE  DecisionsLeadOn(Values)
<1> DEFINE q == <<OnAction("new_round", "send_inquiry"), OnAction("award", "push_to_erp")>>
<1>1. /\ Nodes = {"create_inquiry", "send_inquiry", "check_quotes", "push_to_erp", "completed"}
      /\ Config.entry = "create_inquiry"
      /\ Config.nodes["create_inquiry"] = Action("send_inquiry")
      /\ Config.nodes["send_inquiry"] = Action("check_quotes")
      /\ Config.nodes["check_quotes"] = Interrupt(q)
      /\ Config.nodes["push_to_erp"] = Action("completed")
      /\ Config.nodes["completed"] = Terminal
  BY DEF Inquiry, Nodes, NodeIds
<1>2. Gates = {"check_quotes"}
  BY <1>1 DEF Gates, InterruptNodes, Nodes, Action, Interrupt, Terminal
<1>3. /\ \A n \in Nodes \ {"completed"} : Resolve(Config, n) = n
      /\ Resolve(Config, "completed") = END
      /\ Resolve(Config, END) = END
  BY <1>1 DEF Resolve, IsTerminal, Nodes, Action, Interrupt, Terminal, END
<1>4. ASSUME NEW v
      PROVE  /\ Edge(Config, START, v) = "create_inquiry"
             /\ Edge(Config, "create_inquiry", v) = "send_inquiry"
             /\ Edge(Config, "send_inquiry", v) = "check_quotes"
             /\ Edge(Config, "check_quotes", v)
                    = IF v["action"] = "award" THEN "push_to_erp" ELSE "send_inquiry"
             /\ Edge(Config, "push_to_erp", v) = END /\ Edge(Config, "completed", v) = END
  <2>1. Route(q, v) = IF v["action"] = "award" THEN "push_to_erp" ELSE "send_inquiry"
    BY TwoTransitions DEF OnAction, EvaluateCondition, StateKeys
  <2>2. q # << >>
    OBVIOUS
  <2> HIDE DEF q
  <2>3. Edge(Config, "check_quotes", v) = Resolve(Config, Route(q, v))
    BY <1>1, <2>2 DEF Edge, Interrupt, START
  <2>4. /\ Edge(Config, START, v) = "create_inquiry"
        /\ Edge(Config, "create_inquiry", v) = Resolve(Config, "send_inquiry")
        /\ Edge(Config, "send_inquiry", v) = Resolve(Config, "check_quotes")
        /\ Edge(Config, "push_to_erp", v) = Resolve(Config, "completed")
        /\ Edge(Config, "completed", v) = Resolve(Config, END)
    BY <1>1 DEF Edge, Action, Terminal, START
  <2> QED
    BY <1>1, <1>3, <2>1, <2>3, <2>4
<1>5. ASSUME NEW a, HasAction(Config, "check_quotes", a)
      PROVE  LET tr == MatchedTransition(Config, "check_quotes", a)
             IN \/ a = "new_round" /\ tr = OnAction("new_round", "send_inquiry")
                \/ a = "award" /\ tr = OnAction("award", "push_to_erp")
  <2>1. Config.nodes["check_quotes"].transitions = q
    BY <1>1 DEF Interrupt
  <2>2. /\ OnAction("new_round", "send_inquiry").action = "new_round"
        /\ OnAction("award", "push_to_erp").action = "award"
    BY DEF OnAction
  <2> QED
    BY <1>5, <2>1, <2>2, TwoActions
<1> HIDE DEF q
<1> SUFFICES ASSUME NEW last \in Nodes \union {START}, NEW values \in [StateKeys -> Values],
                    NEW n \in Gates, NEW a \in Actions,
                    Edge(Config, last, values) = n, HasAction(Config, n, a)
             PROVE  LET tr == MatchedTransition(Config, n, a)
                        th == [last |-> last, next |-> n, values |-> values]
                    IN ResumeStop(Updated(Config, th, [tr.form EXCEPT !["action"] = a]))
                           = StopFrom[Resolve(Config, tr.target)]
  BY DEF DecisionsLeadOn
<1> DEFINE tr == MatchedTransition(Config, n, a)
           th == [last |-> last, next |-> n, values |-> values]
           u == [tr.form EXCEPT !["action"] = a]
           up == Updated(Config, th, u)
<1>6. last = "send_inquiry" /\ n = "check_quotes"
  BY <1>1, <1>2, <1>4 DEF START, END
<1>7. /\ up.last = last /\ up.next = Edge(Config, last, up.values) /\ up.values = Merge(values, u)
  <2>1. th # NoThread /\ th.last = last /\ th.values = values
    BY <1>6 DEF NoThread, NoNode
  <2> QED
    BY <2>1 DEF Updated
<1>8. (a = "new_round" /\ tr.target = "send_inquiry") \/ (a = "award" /\ tr.target = "push_to_erp")
  BY <1>5, <1>6 DEF OnAction
<1>9. up.values["action"] = a
  <2>1. tr.form = EmptyState
    BY <1>5, <1>6 DEF OnAction
  <2>2. u["action"] = a /\ a # Unset
    BY <1>8, <2>1 DEF EmptyState, StateKeys, Unset
  <2> QED
    BY <1>7, <2>2 DEF Merge, StateKeys
<1> HIDE DEF tr, up, th, u
<1>10. up.next = "check_quotes" /\ up.next # END
  BY <1>4, <1>6, <1>7 DEF END
<1>11. Executed(Config, up).next = tr.target
  BY <1>4, <1>8, <1>9, <1>10 DEF Executed
<1>12. Resolve(Config, tr.target) = tr.target
  BY <1>1, <1>3, <1>8
<1>13. ResumeStop(up) = StopFrom[Resolve(Config, tr.target)]
  BY <1>10, <1>11, <1>12 DEF ResumeStop
<1> QED
  BY <1>13 DEF tr, up, th, u

\* So it is in the purchase request and in the inquiry, for any number of tasks and
\* callbacks (config/purchase_request.yml, config/inquiry.yml).
THEOREM ShippedDecisionsAreHonoured ==
    ASSUME Client = "careful", MayFail = FALSE, MaxRestarts = 0,
           Config \in {PurchaseRequest, Inquiry}
    PROVE  Spec => []DecisionHonoured
<1>1. DecisionsLeadOn(Values)
  BY PurchaseLeadsOn, InquiryLeadsOn
<1> QED
  BY <1>1, DecisionsAreHonoured

------------------------------------------------------------------------------
(* The rows, while somebody is at work                                     *)

\* A step of the process at work on a task leaves the others where they are.
LEMMA StagedStep ==
    ASSUME Inv, StageInv, NEW p \in Procs, Running(p), UNCHANGED request,
           \A q \in Procs : q # p => pc'[q] = pc[q],
           \A u \in Tasks : u # TaskOf(p) => row'[u] = row[u],
           consumed \subseteq consumed', Staged(p)', row'[TaskOf(p)].status # "absent"
    PROVE  StageInv'
<1>1. ASSUME NEW q \in Procs, q # p PROVE Staged(q)'
  <2>1. TaskOf(q)' = TaskOf(q) /\ Staged(q) /\ pc'[q] = pc[q]
    BY <1>1 DEF TaskOf, StageInv
  <2>2. CASE Running(q)
    <3>1. TaskOf(q) # TaskOf(p) /\ TaskOf(q) \in Tasks
      BY <1>1, <2>2, RowIsThere DEF Inv, OrderInv
    <3> QED
      BY <2>1, <2>2, <3>1 DEF Staged, Running, OpenQuestion
  <2>3. CASE ~Running(q)
    BY <2>1, <2>3 DEF Staged, Running, InFlight, CallbackLabels
  <2> QED
    BY <2>2, <2>3
<1>2. \A r \in Requests : Running(r)' => Running(r)
  BY DEF Running, Procs
<1> QED
  BY <1>1, <1>2 DEF StageInv

\* A process that writes to no table keeps to its row.
LEMMA StillStaged ==
    ASSUME Inv, StageInv, NEW p \in Procs, Running(p), pc[p] # "update_pending",
           UNCHANGED <<request, row>>, consumed \subseteq consumed',
           \A q \in Procs : q # p => pc'[q] = pc[q],
           pc'[p] \notin {"validate", "clear"}
    PROVE  StageInv'
<1>1. TaskOf(p)' = TaskOf(p) /\ Staged(p)
  BY DEF TaskOf, StageInv
<1>2. Staged(p)'
  BY <1>1 DEF Staged, Running
<1>3. row'[TaskOf(p)].status # "absent"
  BY RowIsThere
<1> QED
  BY <1>2, <1>3, StagedStep

\* The labels of a step that moves only its process.
LEMMA Moves ==
    ASSUME Inv, NEW p \in Procs, NEW label, pc' = [pc EXCEPT ![p] = label]
    PROVE  pc'[p] = label /\ \A q \in Procs : q # p => pc'[q] = pc[q]
  BY DEF Inv, TypeInv, TypeOK

\* Steps between the tables.
LEMMA StagedMoves ==
    ASSUME Inv, StageInv, NEW p \in Procs,
           \/ p \in Tasks /\ StartStream(p)
           \/ p \in Requests /\ (IsConsumed(p) \/ UpdateState(p) \/ ResumeStream(p))
           \/ RunNode(p) \/ EndStream(p) \/ GetState(p) \/ Publish(p)
    PROVE  StageInv'
<1>1. /\ pc[p] \in {"stream", "is_consumed", "update", "tick", "resume", "get_state", "publish"}
      /\ UNCHANGED <<request, row, consumed>>
  BY DEF StartStream, IsConsumed, UpdateState, ResumeStream, RunNode, EndStream, GetState, Publish
<1>2. PICK label \in {"tick", "refused", "mark", "stream", "resume", "get_state", "publish",
                      "update_status"} : pc' = [pc EXCEPT ![p] = label]
  BY DEF StartStream, IsConsumed, UpdateState, ResumeStream, RunNode, EndStream, GetState, Publish
<1>3. Running(p)
  BY <1>1 DEF Running, InFlight, CreateLabels, CallbackLabels
<1> QED
  BY <1>1, <1>2, <1>3, Moves, StillStaged

\* Steps that write to a table.
LEMMA StagedWrites ==
    ASSUME Inv, StageInv, NEW p \in Procs,
           \/ p \in Requests /\ (MarkConsumed(p) \/ Validate(p) \/ ClearPending(p))
           \/ UpdateStatus(p) \/ UpdatePending(p)
    PROVE  StageInv'
<1> DEFINE t == TaskOf(p)
<1>1. /\ pc[p] \in {"mark", "validate", "clear", "update_status", "update_pending"}
      /\ UNCHANGED request
  BY DEF MarkConsumed, Validate, ClearPending, UpdateStatus, UpdatePending
<1>2. Running(p) /\ t \in Tasks /\ row[t].status # "absent" /\ TaskOf(p)' = t
  <2>1. Running(p)
    BY <1>1 DEF Running, InFlight, CreateLabels, CallbackLabels
  <2> QED
    BY <1>1, <2>1, RowIsThere DEF TaskOf
<1>3. Staged(p) /\ Asking(p)
  BY DEF StageInv, Inv, OrderInv
<1>4. CASE p \in Requests /\ MarkConsumed(p)
  <2>1. /\ pc'[p] = "validate" /\ UNCHANGED row /\ consumed' = consumed \union {request[p].event}
        /\ \A q \in Procs : q # p => pc'[q] = pc[q]
    BY <1>4, Moves DEF MarkConsumed
  <2>2. request[p].event = row[t].pending.event
    BY <1>3, <1>4 DEF Asking, MarkConsumed
  <2>3. OpenQuestion(t)' = None
    BY <1>2, <2>1, <2>2 DEF OpenQuestion
  <2>4. Staged(p)'
    BY <1>1, <1>2, <1>3, <1>4, <2>1, <2>3 DEF Staged, MarkConsumed
  <2> QED
    BY <1>1, <1>2, <2>1, <2>4, StagedStep
<1>5. CASE p \in Requests /\ Validate(p)
  <2>1. PICK label \in {"clear", "refused"} : pc' = [pc EXCEPT ![p] = label]
    BY <1>5 DEF Validate
  <2>2. /\ pc'[p] = label /\ UNCHANGED <<row, consumed>>
        /\ \A q \in Procs : q # p => pc'[q] = pc[q]
    BY <1>5, <2>1, Moves DEF Validate
  <2>3. OpenQuestion(t) = None /\ OpenQuestion(t)' = OpenQuestion(t)
    BY <1>2, <1>3, <1>5, <2>2 DEF OpenQuestion, Staged, Validate
  <2>4. Staged(p)'
    BY <1>1, <1>2, <1>3, <1>5, <2>2, <2>3 DEF Staged, Validate
  <2> QED
    BY <1>1, <1>2, <2>2, <2>4, StagedStep
<1>6. CASE p \in Requests /\ ClearPending(p)
  <2>1. /\ pc'[p] = "update" /\ UNCHANGED consumed
        /\ \A q \in Procs : q # p => pc'[q] = pc[q]
    BY <1>6, Moves DEF ClearPending
  <2>2. request[p].task = t
    BY <1>6, NamesAssumption DEF TaskOf
  <2>3. /\ row'[t].status = row[t].status /\ row'[t].at = row[t].at
        /\ \A u \in Tasks : u # t => row'[u] = row[u]
    BY <1>2, <1>6, <2>2 DEF ClearPending, Inv, TypeInv, TypeOK, Rows
  <2>4. Staged(p)'
    BY <1>1, <1>2, <1>3, <1>6, <2>1, <2>3 DEF Staged, ClearPending
  <2> QED
    BY <1>1, <1>2, <2>1, <2>3, <2>4, StagedStep
<1>7. CASE UpdateStatus(p) \/ UpdatePending(p)
  <2>1. PICK label \in {"update_pending", "done"} : pc' = [pc EXCEPT ![p] = label]
    BY <1>7 DEF UpdateStatus, UpdatePending
  <2>2. /\ pc'[p] = label /\ UNCHANGED consumed
        /\ \A q \in Procs : q # p => pc'[q] = pc[q]
    BY <1>7, <2>1, Moves DEF UpdateStatus, UpdatePending
  <2>3. /\ row'[t].status # "absent"
        /\ \A u \in Tasks : u # t => row'[u] = row[u]
    <3>1. pc[p] = "update_status" => DerivedStatus(p).status \in {"awaiting", "completed", "error"}
      BY DEF Inv, TypeInv, LabelInv, DerivedStatus
    <3> QED
      BY <1>2, <1>7, <3>1 DEF UpdateStatus, UpdatePending, Inv, TypeInv, TypeOK, Rows
  <2>4. Staged(p)'
    BY <2>2 DEF Staged, Running, InFlight, CreateLabels, CallbackLabels
  <2> QED
    BY <1>1, <1>2, <2>2, <2>3, <2>4, StagedStep
<1> QED
  BY <1>4, <1>5, <1>6, <1>7

\* A row is created as the creator finds it, with nobody else at work.
LEMMA StagedCreate ==
    ASSUME Inv, StageInv, NEW t \in Tasks, CreateRow(t)
    PROVE  StageInv'
<1>1. t \in Procs /\ TaskOf(t) = t /\ TaskOf(t)' = t /\ UNCHANGED <<request, consumed>>
  BY DEF Procs, TaskOf, CreateRow
<1>2. /\ pc'[t] = "stream" /\ \A q \in Procs : q # t => pc'[q] = pc[q]
  BY <1>1, Moves DEF CreateRow
<1>3. /\ row'[t].status = "pending" /\ row'[t].at = NoNode
      /\ \A u \in Tasks : u # t => row'[u] = row[u]
  BY DEF CreateRow, AbsentRow, Inv, TypeInv, TypeOK
<1>4. row[t].status = "absent"
  BY DEF CreateRow, Inv, OrderInv
<1>5. ASSUME NEW q \in Procs, q # t PROVE Staged(q)'
  <2>1. TaskOf(q)' = TaskOf(q) /\ Staged(q) /\ pc'[q] = pc[q]
    BY <1>1, <1>2, <1>5 DEF TaskOf, StageInv
  <2>2. CASE Running(q)
    <3>1. TaskOf(q) # t /\ TaskOf(q) \in Tasks
      BY <1>4, <2>2, RowIsThere
    <3> QED
      BY <1>1, <1>3, <2>1, <2>2, <3>1 DEF Staged, Running, OpenQuestion
  <2>3. CASE ~Running(q)
    BY <2>1, <2>3 DEF Staged, Running, InFlight, CallbackLabels
  <2> QED
    BY <2>2, <2>3
<1>6. Staged(t)'
  BY <1>1, <1>2, <1>3 DEF Staged
<1>7. \A r \in Requests : Running(r)' => Running(r)
  BY <1>2, NamesAssumption DEF Running, Procs
<1> QED
  BY <1>1, <1>3, <1>5, <1>6, <1>7 DEF StageInv

\* The callback of a careful client names the gate its row awaits.
LEMMA StagedSubmit ==
    ASSUME Inv, OrderInv', HonourInv', StageInv, NEW r \in Requests, Submit(r)
    PROVE  StageInv'
<1>1. /\ r \in Procs /\ r \notin Tasks /\ UNCHANGED <<row, consumed>>
      /\ pc'[r] = "is_consumed" /\ \A q \in Procs : q # r => pc'[q] = pc[q]
      /\ \A q \in Requests : q # r => request'[q] = request[q]
  <2>1. r \in Procs /\ r \notin Tasks
    BY NamesAssumption DEF Procs
  <2>2. /\ pc' = [pc EXCEPT ![r] = "is_consumed"] /\ UNCHANGED <<row, consumed>>
        /\ \E x : request' = [request EXCEPT ![r] = x]
    BY DEF Submit
  <2> QED
    BY <2>1, <2>2, Moves DEF Inv, TypeInv, TypeOK
<1>2. Staged(r)'
  <2>1. Waiting(TaskOf(r))' /\ Heading(r)'
    BY <1>1 DEF OrderInv, Asking, HonourInv
  <2>2. row'[TaskOf(r)'].status = "awaiting" /\ row'[TaskOf(r)'].at = request'[r].node
    BY <1>1, <2>1 DEF Waiting, StoppedAsShown, Heading, CallbackLabels
  <2> QED
    BY <1>1, <2>2 DEF Staged
<1>3. ASSUME NEW q \in Procs, q # r PROVE Staged(q)'
  <2>1. Staged(q) /\ pc'[q] = pc[q] /\ TaskOf(q)' = TaskOf(q)
    BY <1>1, <1>3 DEF StageInv, TaskOf, Procs
  <2> QED
    BY <1>1, <1>3, <2>1 DEF Staged, Running, OpenQuestion, Procs
<1>4. request'[r].node \in Gates /\ HasAction(Config, request'[r].node, request'[r].action)
  <2>1. Asking(r)' /\ Heading(r)'
    BY <1>1 DEF OrderInv, HonourInv
  <2> QED
    BY <1>1, <2>1 DEF Asking, Heading, CallbackLabels, Decides
<1>5. \A q \in Requests : q # r /\ Running(q)' => Running(q)
  BY <1>1 DEF Running, Procs
<1> QED
  BY <1>1, <1>2, <1>3, <1>4, <1>5 DEF StageInv

\* The rows tell how far a task is while somebody works on it.
LEMMA StageInvariant ==
    ASSUME Client = "careful", MayFail = FALSE, MaxRestarts = 0, DecisionsLeadOn(Values)
    PROVE  Spec => [](Inv /\ HonourInv /\ StageInv)
<1>1. Init => StageInv
  BY DEF Init, StageInv, Staged, Procs, Running, InFlight, CreateLabels, CallbackLabels
<1>2. Inv /\ Inv' /\ HonourInv' /\ StageInv /\ [Next]_vars => StageInv'
  <2> SUFFICES ASSUME Inv, Inv', HonourInv', StageInv, [Next]_vars PROVE StageInv'
    OBVIOUS
  <2>1. ASSUME NEW t \in Tasks, Create(t) PROVE StageInv'
    BY <2>1, StagedCreate, StagedMoves DEF Create, Procs
  <2>2. ASSUME NEW r \in Requests, Submit(r) PROVE StageInv'
    BY <2>2, StagedSubmit DEF Inv
  <2>3. ASSUME NEW r \in Requests, Callback(r) PROVE StageInv'
    BY <2>3, StagedMoves, StagedWrites DEF Callback, Procs
  <2>4. ASSUME NEW p \in Procs, Executor(p) PROVE StageInv'
    <3>1. ~PublishError(p)
      BY DEF PublishError, Inv, OrderInv
    <3> QED
      BY <2>4, <3>1, StagedMoves, StagedWrites DEF Executor
  <2>5. ~Fault
    BY NoFault
  <2>6. CASE UNCHANGED vars
    <3>1. UNCHANGED <<request, row, pc, consumed>>
      BY <2>6 DEF vars
    <3> QED
      BY <3>1 DEF StageInv, Staged, TaskOf, Running, OpenQuestion
  <2> QED
    BY <2>1, <2>2, <2>3, <2>4, <2>5, <2>6 DEF Next
<1> QED
  BY <1>1, <1>2, HonourInvariant, PTL DEF Spec

------------------------------------------------------------------------------
(* The human in the loop                                                   *)

\* What a step of p changes of what a client sees is of the task of p.
LEMMA Frame ==
    ASSUME Inv, NEW p \in Procs, NEW t \in Tasks, TaskOf(p) = t, UNCHANGED request,
           \A q \in Procs : q # p => pc'[q] = pc[q],
           \A u \in Tasks : u # t => row'[u] = row[u],
           consumed \subseteq consumed',
           \A e \in consumed' : e \in consumed \/ event[e].task = t
    PROVE  /\ [u \in Tasks |-> Stage(u)]' = [[u \in Tasks |-> Stage(u)] EXCEPT ![t] = Stage(t)']
           /\ [u \in Tasks |-> LastStop(u)]'
                  = [[u \in Tasks |-> LastStop(u)] EXCEPT ![t] = LastStop(t)']
           /\ [u \in Tasks |-> OpenQuestion(u)]'
                  = [[u \in Tasks |-> OpenQuestion(u)] EXCEPT ![t] = OpenQuestion(t)']
<1> SUFFICES ASSUME NEW u \in Tasks, u # t
             PROVE  /\ Stage(u)' = Stage(u) /\ LastStop(u)' = LastStop(u)
                    /\ OpenQuestion(u)' = OpenQuestion(u)
  OBVIOUS
<1>1. Working(u)' <=> Working(u)
  <2>1. \A r \in Requests : request[r].task = u => r # p
    BY NamesAssumption DEF TaskOf
  <2> QED
    BY <2>1 DEF Working, Procs
<1>2. Stage(u)' = Stage(u) /\ LastStop(u)' = LastStop(u)
  BY <1>1 DEF Stage, LastStop
<1>3. OpenQuestion(u)' = OpenQuestion(u)
  <2>1. CASE row[u].pending = NoPending
    BY <2>1 DEF OpenQuestion, NoPending
  <2>2. CASE row[u].pending # NoPending
    <3>1. event[row[u].pending.event].task = u
      <4>1. event[row[u].pending.event] = Interrupted(u, row[u].pending.node)
        BY <2>2 DEF Inv, OfferInv
      <4> QED
        BY <4>1 DEF Interrupted
    <3> QED
      BY <3>1 DEF OpenQuestion
  <2> QED
    BY <2>1, <2>2
<1> QED
  BY <1>2, <1>3

\* Whether a task is being worked on is up to the one process that is not at rest.
LEMMA WorkOf ==
    ASSUME NEW p \in Procs, NEW t \in Tasks, TaskOf(p) = t, UNCHANGED request,
           \A q \in Procs : q # p => pc'[q] = pc[q],
           \A q \in Procs : q # p /\ Running(q) => TaskOf(q) # t
    PROVE  /\ Working(t) <=> p \in Requests /\ pc[p] \in WorkLabels
           /\ Working(t)' <=> p \in Requests /\ pc'[p] \in WorkLabels
<1>1. \A r \in Requests : r \in Procs /\ TaskOf(r) = request[r].task
  BY NamesAssumption DEF Procs, TaskOf
<1>2. \A r \in Procs : pc[r] \in WorkLabels => Running(r)
  BY DEF WorkLabels, Running
<1> QED
  BY <1>1, <1>2 DEF Working

\* Nobody sees a step between the tables.
LEMMA HiddenStep ==
    ASSUME Inv, NEW p \in Procs, Running(p), UNCHANGED <<request, row, consumed>>,
           \A q \in Procs : q # p => pc'[q] = pc[q],
           pc'[p] \in WorkLabels <=> pc[p] \in WorkLabels
    PROVE  UNCHANGED Promise!vars
<1>1. PICK t \in Tasks : /\ TaskOf(p) = t
                         /\ \A q \in Procs : q # p /\ Running(q) => TaskOf(q) # t
  BY RowIsThere DEF Inv, OrderInv
<1>2. Working(t)' <=> Working(t)
  BY <1>1, WorkOf
<1>3. /\ Stage(t)' = Stage(t) /\ LastStop(t)' = LastStop(t) /\ OpenQuestion(t)' = OpenQuestion(t)
  BY <1>2 DEF Stage, LastStop, OpenQuestion
<1>4. /\ [u \in Tasks |-> Stage(u)]' = [[u \in Tasks |-> Stage(u)] EXCEPT ![t] = Stage(t)']
      /\ [u \in Tasks |-> LastStop(u)]'
             = [[u \in Tasks |-> LastStop(u)] EXCEPT ![t] = LastStop(t)']
      /\ [u \in Tasks |-> OpenQuestion(u)]'
             = [[u \in Tasks |-> OpenQuestion(u)] EXCEPT ![t] = OpenQuestion(t)']
  BY <1>1, Frame
<1> QED
  BY <1>1, <1>3, <1>4 DEF Promise!vars

\* The steps that write to no table.
LEMMA HiddenMoves ==
    ASSUME Inv, Inv', NEW p \in Procs,
           \/ p \in Tasks /\ StartStream(p)
           \/ p \in Requests /\ (IsConsumed(p) \/ Validate(p) \/ UpdateState(p) \/ ResumeStream(p))
           \/ RunNode(p) \/ EndStream(p) \/ GetState(p) \/ Publish(p)
    PROVE  UNCHANGED Promise!vars
<1>1. UNCHANGED <<request, row, consumed>>
  BY DEF StartStream, IsConsumed, Validate, UpdateState, ResumeStream, RunNode, EndStream,
         GetState, Publish
<1>2. PICK label : /\ pc' = [pc EXCEPT ![p] = label]
                   /\ \/ pc[p] = "is_consumed" /\ label \in {"mark", "refused"}
                      \/ pc[p] = "validate" /\ label \in {"clear", "refused"}
                      \/ /\ pc[p] \in {"stream", "update", "tick", "resume", "get_state", "publish"}
                         /\ label \in {"tick", "stream", "resume", "get_state", "publish",
                                       "update_status"}
  BY DEF StartStream, IsConsumed, Validate, UpdateState, ResumeStream, RunNode, EndStream,
         GetState, Publish
<1>3. /\ pc'[p] = label
      /\ \A q \in Procs : q # p => pc'[q] = pc[q]
  BY <1>2, Moves
<1>4. Running(p)
  BY <1>2 DEF Running, InFlight, CreateLabels, CallbackLabels
<1>5. label # "refused"
  BY <1>3 DEF Inv, OrderInv
<1>6. pc'[p] \in WorkLabels <=> pc[p] \in WorkLabels
  BY <1>2, <1>3, <1>5 DEF WorkLabels, InFlight, CreateLabels, CallbackLabels
<1> QED
  BY <1>1, <1>3, <1>4, <1>6, HiddenStep

\* Nobody sees a callback before it has consumed its event.
LEMMA HiddenSubmit ==
    ASSUME Inv, NEW r \in Requests, Submit(r)
    PROVE  UNCHANGED Promise!vars
<1>1. /\ pc[r] = "idle" /\ UNCHANGED <<row, consumed>> /\ r \in Procs
      /\ pc' = [pc EXCEPT ![r] = "is_consumed"]
      /\ \E x : request' = [request EXCEPT ![r] = x]
  BY DEF Submit, Procs
<1>2. /\ pc'[r] = "is_consumed"
      /\ \A q \in Requests : q # r => pc'[q] = pc[q] /\ request'[q] = request[q]
  BY <1>1, Moves DEF Inv, TypeInv, TypeOK, Procs
<1>3. ASSUME NEW u \in Tasks PROVE Working(u)' <=> Working(u)
  <2>1. \A q \in Requests : q # r => (request'[q].task = u /\ pc'[q] \in WorkLabels
                                        <=> request[q].task = u /\ pc[q] \in WorkLabels)
    BY <1>2
  <2>2. pc[r] \notin WorkLabels /\ pc'[r] \notin WorkLabels
    BY <1>1, <1>2 DEF WorkLabels, InFlight, CreateLabels, CallbackLabels
  <2> QED
    BY <2>1, <2>2 DEF Working
<1>4. \A u \in Tasks : /\ Stage(u)' = Stage(u) /\ LastStop(u)' = LastStop(u)
                       /\ OpenQuestion(u)' = OpenQuestion(u)
  BY <1>1, <1>3 DEF Stage, LastStop, OpenQuestion
<1> QED
  BY <1>1, <1>4 DEF Promise!vars

\* A row is opened.
LEMMA OpenStep ==
    ASSUME Inv, StageInv, NEW t \in Tasks, CreateRow(t)
    PROVE  Promise!Open(t)
<1>1. t \in Procs /\ TaskOf(t) = t /\ UNCHANGED <<request, consumed>>
  BY DEF Procs, TaskOf, CreateRow
<1>2. \A q \in Procs : q # t => pc'[q] = pc[q]
  BY <1>1, Moves DEF CreateRow
<1>3. /\ row'[t] = [AbsentRow EXCEPT !.status = "pending"]
      /\ \A u \in Tasks : u # t => row'[u] = row[u]
  BY DEF CreateRow, Inv, TypeInv, TypeOK
<1>4. row[t] = AbsentRow
  BY DEF CreateRow, Inv, OrderInv, StageInv
<1>5. /\ row[t].status = "absent" /\ row'[t].status = "pending"
      /\ row'[t].at = row[t].at /\ row'[t].pending = row[t].pending
  BY <1>3, <1>4 DEF AbsentRow
<1>6. \A q \in Procs : q # t /\ Running(q) => TaskOf(q) # t
  BY <1>5, RowIsThere
<1>7. ~Working(t) /\ ~Working(t)'
  BY <1>1, <1>2, <1>6, NamesAssumption, WorkOf
<1>8. /\ Stage(t) = "absent" /\ Stage(t)' = "running" /\ LastStop(t)' = LastStop(t)
      /\ OpenQuestion(t)' = OpenQuestion(t)
  BY <1>1, <1>5, <1>7 DEF Stage, StageOf, LastStop, OpenQuestion
<1>9. /\ [u \in Tasks |-> Stage(u)]' = [[u \in Tasks |-> Stage(u)] EXCEPT ![t] = Stage(t)']
      /\ [u \in Tasks |-> LastStop(u)]'
             = [[u \in Tasks |-> LastStop(u)] EXCEPT ![t] = LastStop(t)']
      /\ [u \in Tasks |-> OpenQuestion(u)]'
             = [[u \in Tasks |-> OpenQuestion(u)] EXCEPT ![t] = OpenQuestion(t)']
  BY <1>1, <1>2, <1>3, Frame
<1> QED
  BY <1>1, <1>8, <1>9 DEF Promise!Open

\* Marking the event consumed is the answer to the question.
LEMMA MarkStep ==
    ASSUME Inv, StageInv, NEW r \in Requests, MarkConsumed(r)
    PROVE  \E t \in Tasks : Promise!Answer(t)
<1>1. /\ r \in Procs /\ pc[r] = "mark" /\ Running(r) /\ UNCHANGED <<request, row, event>>
      /\ consumed' = consumed \union {request[r].event}
  BY DEF MarkConsumed, Procs, Running, InFlight, CallbackLabels
<1>2. PICK t \in Tasks : /\ TaskOf(r) = t
                         /\ \A q \in Procs : q # r /\ Running(q) => TaskOf(q) # t
  BY <1>1, RowIsThere DEF Inv, OrderInv
<1>3. /\ pc'[r] = "validate"
      /\ \A q \in Procs : q # r => pc'[q] = pc[q]
  BY <1>1, Moves DEF MarkConsumed
<1>4. Waiting(t) /\ request[r].event = row[t].pending.event
  BY <1>1, <1>2 DEF Inv, OrderInv, Asking
<1>5. ~Working(t) /\ Working(t)'
  BY <1>1, <1>2, <1>3, WorkOf DEF WorkLabels, InFlight, CallbackLabels
<1>6. row[t].status = "awaiting" /\ row[t].pending # NoPending /\ row[t].pending.event \notin consumed
  BY <1>4 DEF Waiting, StoppedAsShown
<1>7. row[t].pending.event \in Procs /\ event[row[t].pending.event].task = t
  <2>1. /\ row[t].pending.event \in Procs
        /\ event[row[t].pending.event] = Interrupted(t, row[t].pending.node)
    BY <1>6 DEF Inv, OfferInv
  <2> QED
    BY <2>1 DEF Interrupted
<1>8. /\ Stage(t) = "stopped" /\ Stage(t)' = "running" /\ LastStop(t)' = LastStop(t)
      /\ OpenQuestion(t) = request[r].event /\ OpenQuestion(t) # None /\ OpenQuestion(t)' = None
  BY <1>1, <1>4, <1>5, <1>6, <1>7, NamesAssumption
     DEF Stage, StageOf, LastStop, OpenQuestion, Events
<1>9. /\ [u \in Tasks |-> Stage(u)]' = [[u \in Tasks |-> Stage(u)] EXCEPT ![t] = Stage(t)']
      /\ [u \in Tasks |-> LastStop(u)]'
             = [[u \in Tasks |-> LastStop(u)] EXCEPT ![t] = LastStop(t)']
      /\ [u \in Tasks |-> OpenQuestion(u)]'
             = [[u \in Tasks |-> OpenQuestion(u)] EXCEPT ![t] = OpenQuestion(t)']
  <2>1. /\ TaskOf(r) = t /\ consumed \subseteq consumed'
        /\ \A e \in consumed' : e \in consumed \/ event[e].task = t
        /\ \A u \in Tasks : u # t => row'[u] = row[u]
    BY <1>1, <1>2, <1>4, <1>7
  <2> QED
    BY <1>1, <1>3, <2>1, Frame
<1> QED
  BY <1>1, <1>2, <1>8, <1>9 DEF Promise!Answer

\* Clearing the pending callback hides a question that is answered already.
LEMMA ClearStep ==
    ASSUME Inv, StageInv, NEW r \in Requests, ClearPending(r)
    PROVE  UNCHANGED Promise!vars
<1>1. r \in Procs /\ pc[r] = "clear" /\ Running(r) /\ UNCHANGED <<request, consumed>>
  BY DEF ClearPending, Procs, Running, InFlight, CallbackLabels
<1>2. PICK t \in Tasks : /\ TaskOf(r) = t
                         /\ \A q \in Procs : q # r /\ Running(q) => TaskOf(q) # t
  BY <1>1, RowIsThere DEF Inv, OrderInv
<1>3. /\ pc'[r] = "update"
      /\ \A q \in Procs : q # r => pc'[q] = pc[q]
  BY <1>1, Moves DEF ClearPending
<1>4. request[r].task = t
  BY <1>2, NamesAssumption DEF TaskOf
<1>5. /\ row'[t].status = row[t].status /\ row'[t].at = row[t].at /\ row'[t].pending = NoPending
      /\ \A u \in Tasks : u # t => row'[u] = row[u]
  BY <1>4 DEF ClearPending, Inv, TypeInv, TypeOK, Rows
<1>6. Working(t) /\ Working(t)'
  BY <1>1, <1>2, <1>3, WorkOf DEF WorkLabels, InFlight, CallbackLabels
<1>7. OpenQuestion(t) = None
  BY <1>1, <1>2 DEF StageInv, Staged
<1>8. /\ Stage(t)' = Stage(t) /\ LastStop(t)' = LastStop(t) /\ OpenQuestion(t)' = OpenQuestion(t)
  BY <1>5, <1>6, <1>7 DEF Stage, LastStop, OpenQuestion, NoPending
<1>9. /\ [u \in Tasks |-> Stage(u)]' = [[u \in Tasks |-> Stage(u)] EXCEPT ![t] = Stage(t)']
      /\ [u \in Tasks |-> LastStop(u)]'
             = [[u \in Tasks |-> LastStop(u)] EXCEPT ![t] = LastStop(t)']
      /\ [u \in Tasks |-> OpenQuestion(u)]'
             = [[u \in Tasks |-> OpenQuestion(u)] EXCEPT ![t] = OpenQuestion(t)']
  BY <1>1, <1>2, <1>3, <1>5, Frame
<1> QED
  BY <1>1, <1>8, <1>9 DEF Promise!vars

\* A transition a gate has is one of those that lead on from it.
LEMMA MatchedLeads ==
    ASSUME NEW n, NEW a, HasAction(Config, n, a)
    PROVE  StopFrom[Resolve(Config, MatchedTransition(Config, n, a).target)] \in StopsAfter(n)
<1> DEFINE ts == Config.nodes[n].transitions
           k == CHOOSE i \in DOMAIN ts : FirstWithAction(ts, a, i)
<1>1. k \in DOMAIN ts
  BY DEF HasAction
<1>2. ts[k] \in Range(ts)
  BY <1>1 DEF Range
<1> QED
  BY <1>2 DEF StopsAfter, MatchedTransition

\* The new status is the next stop.
LEMMA StopStep ==
    ASSUME Inv, HonourInv, StageInv, NEW p \in Procs, UpdateStatus(p)
    PROVE  \E t \in Tasks : Promise!Stop(t)
<1>1. /\ pc[p] = "update_status" /\ Running(p) /\ UNCHANGED <<request, consumed>>
  BY DEF UpdateStatus, Running, InFlight, CreateLabels
<1>2. PICK t \in Tasks : /\ TaskOf(p) = t
                         /\ \A q \in Procs : q # p /\ Running(q) => TaskOf(q) # t
  BY <1>1, RowIsThere DEF Inv, OrderInv
<1>3. PICK label \in {"update_pending", "done"} : pc' = [pc EXCEPT ![p] = label]
  BY DEF UpdateStatus
<1>4. /\ pc'[p] = label
      /\ \A q \in Procs : q # p => pc'[q] = pc[q]
  BY <1>3, Moves
<1>5. /\ row'[t].status = DerivedStatus(p).status /\ row'[t].at = DerivedStatus(p).at
      /\ row'[t].pending = row[t].pending
      /\ \A u \in Tasks : u # t => row'[u] = row[u]
  BY <1>2 DEF UpdateStatus, Inv, TypeInv, TypeOK, Rows
<1>6. /\ Working(t) <=> p \in Requests
      /\ ~Working(t)'
  BY <1>1, <1>2, <1>4, WorkOf DEF WorkLabels, InFlight, CreateLabels, CallbackLabels
<1>7. result[p] = Arrived(Goal(p))
  BY <1>1 DEF HonourInv, Heading
<1>8. /\ row'[t].status = IF Goal(p) = END THEN "completed" ELSE "awaiting"
      /\ row'[t].at = IF Goal(p) = END THEN NoNode ELSE Goal(p)
  BY <1>5, <1>7 DEF DerivedStatus, Arrived, Result
<1>9. /\ Stage(t)' = (IF Goal(p) = END THEN "over" ELSE "stopped")
      /\ LastStop(t)' = Goal(p)
      /\ OpenQuestion(t)' = OpenQuestion(t)
  BY <1>1, <1>5, <1>6, <1>8 DEF Stage, StageOf, LastStop, OpenQuestion
<1>10. Staged(p)
  BY DEF StageInv
<1>11. /\ Stage(t) = "running" /\ LastStop(t) \in Gates \union {NoNode}
       /\ Goal(p) \in IF LastStop(t) = NoNode THEN {StopFrom[Config.entry]}
                      ELSE StopsAfter(LastStop(t))
  <2>1. CASE p \in Tasks
    <3>1. row[t].status = "pending" /\ row[t].at = NoNode /\ Goal(p) = StopFrom[Config.entry]
      BY <1>1, <1>2, <1>10, <2>1 DEF Staged, Goal
    <3> QED
      BY <3>1 DEF Stage, StageOf, LastStop
  <2>2. CASE p \in Requests
    <3>1. /\ row[t].status = "awaiting" /\ row[t].at = request[p].node
          /\ request[p].node \in Gates /\ HasAction(Config, request[p].node, request[p].action)
          /\ Goal(p) = StopFrom[Resolve(Config, Matched(p).target)]
      BY <1>1, <1>2, <1>10, <2>2, NamesAssumption DEF Staged, Goal, StageInv
    <3>2. Goal(p) \in StopsAfter(request[p].node)
      BY <3>1, MatchedLeads DEF Matched
    <3>3. request[p].node # NoNode
      BY <3>1, ConfigAssumption DEF WellFormed, Gates, InterruptNodes
    <3> QED
      BY <1>6, <2>2, <3>1, <3>2, <3>3 DEF Stage, LastStop
  <2> QED
    BY <2>1, <2>2 DEF Procs
<1>12. /\ [u \in Tasks |-> Stage(u)]' = [[u \in Tasks |-> Stage(u)] EXCEPT ![t] = Stage(t)']
       /\ [u \in Tasks |-> LastStop(u)]'
              = [[u \in Tasks |-> LastStop(u)] EXCEPT ![t] = LastStop(t)']
       /\ [u \in Tasks |-> OpenQuestion(u)]'
              = [[u \in Tasks |-> OpenQuestion(u)] EXCEPT ![t] = OpenQuestion(t)']
  BY <1>1, <1>2, <1>4, <1>5, Frame
<1> QED
  BY <1>1, <1>9, <1>11, <1>12 DEF Promise!Stop

\* Offering the pending callback is the question, which nobody was asked before.
LEMMA OfferStep ==
    ASSUME Inv, StageInv, NEW p \in Procs, UpdatePending(p)
    PROVE  \E t \in Tasks : Promise!Ask(t)
<1>1. /\ pc[p] = "update_pending" /\ Running(p) /\ UNCHANGED <<request, consumed>>
  BY DEF UpdatePending, Running, InFlight, CreateLabels
<1>2. PICK t \in Tasks : /\ TaskOf(p) = t
                         /\ \A q \in Procs : q # p /\ Running(q) => TaskOf(q) # t
  BY <1>1, RowIsThere DEF Inv, OrderInv
<1>3. /\ pc'[p] = "done"
      /\ \A q \in Procs : q # p => pc'[q] = pc[q]
  BY Moves DEF UpdatePending
<1>4. /\ row'[t].status = row[t].status /\ row'[t].at = row[t].at
      /\ row'[t].pending = Offer(p)
      /\ \A u \in Tasks : u # t => row'[u] = row[u]
  BY <1>2 DEF UpdatePending, Inv, TypeInv, TypeOK, Rows
<1>5. row'[t].pending.event = p
  BY <1>4 DEF Offer
<1>6. ~Working(t) /\ ~Working(t)'
  BY <1>1, <1>2, <1>3, WorkOf DEF WorkLabels, InFlight, CreateLabels, CallbackLabels
<1>7. row[t].pending = NoPending /\ row[t].status = "awaiting"
  <2>1. Executing(p)
    BY DEF Inv, OrderInv
  <2> QED
    BY <1>1, <1>2, <2>1 DEF Executing, CreateLabels
<1>8. p \notin consumed /\ p # None
  BY <1>1, NamesAssumption DEF Inv, OrderInv, Events
<1>9. ASSUME NEW u \in Tasks PROVE OpenQuestion(u) # p
  <2>1. row[u].pending # NoPending => pc[row[u].pending.event] = "done"
    BY DEF Inv, OfferInv
  <2>2. row[u].pending = NoPending => row[u].pending.event = None
    BY DEF NoPending
  <2> QED
    BY <1>1, <1>8, <2>1, <2>2 DEF OpenQuestion
<1>10. /\ Stage(t) = "stopped" /\ Stage(t)' = "stopped" /\ LastStop(t)' = LastStop(t)
       /\ OpenQuestion(t) = None /\ OpenQuestion(t)' = p
  BY <1>1, <1>4, <1>5, <1>6, <1>7, <1>8
     DEF Stage, StageOf, LastStop, OpenQuestion, NoPending
<1>11. /\ [u \in Tasks |-> Stage(u)]' = [[u \in Tasks |-> Stage(u)] EXCEPT ![t] = Stage(t)']
       /\ [u \in Tasks |-> LastStop(u)]'
              = [[u \in Tasks |-> LastStop(u)] EXCEPT ![t] = LastStop(t)']
       /\ [u \in Tasks |-> OpenQuestion(u)]'
              = [[u \in Tasks |-> OpenQuestion(u)] EXCEPT ![t] = OpenQuestion(t)']
  BY <1>1, <1>2, <1>3, <1>4, Frame
<1>12. UNCHANGED <<[u \in Tasks |-> Stage(u)], [u \in Tasks |-> LastStop(u)], consumed>>
  BY <1>1, <1>10, <1>11
<1>13. [u \in Tasks |-> OpenQuestion(u)]' = [[u \in Tasks |-> OpenQuestion(u)] EXCEPT ![t] = p]
  BY <1>10, <1>11
<1>14. p \in Procs \ consumed /\ \A u \in Tasks : [v \in Tasks |-> OpenQuestion(v)][u] # p
  BY <1>8, <1>9
<1> QED
  BY <1>10, <1>12, <1>13, <1>14 DEF Promise!Ask

\* For clients that answer what GET shows, and as long as nothing fails, in a workflow
\* that lets decisions lead on, the rows of tasks and the replay table do what the
\* abstract human in the loop does and nothing else: a task stops only where the entry
\* or a decision at its last gate leads, asks one question there that was never asked
\* before, and moves on only after that question is answered (task_service.py:83-287).
THEOREM PromiseKept ==
    ASSUME Client = "careful", MayFail = FALSE, MaxRestarts = 0, DecisionsLeadOn(Values)
    PROVE  Spec => Promise!Safe
<1>1. Init => Promise!Init
  <2> SUFFICES ASSUME Init PROVE Promise!Init
    OBVIOUS
  <2>1. ASSUME NEW t \in Tasks
        PROVE  Stage(t) = "absent" /\ LastStop(t) = NoNode /\ OpenQuestion(t) = None
    <3>1. row[t] = AbsentRow /\ consumed = {} /\ ~Working(t)
      BY DEF Init, Working, WorkLabels, InFlight, CreateLabels, CallbackLabels, Procs
    <3> QED
      BY <3>1 DEF Stage, StageOf, LastStop, OpenQuestion, AbsentRow, NoPending
  <2> QED
    BY <2>1 DEF Promise!Init, Init
<1>2. Inv /\ Inv' /\ HonourInv /\ StageInv /\ [Next]_vars => [Promise!Next]_(Promise!vars)
  <2> SUFFICES ASSUME Inv, Inv', HonourInv, StageInv, [Next]_vars
               PROVE  Promise!Next \/ UNCHANGED Promise!vars
    OBVIOUS
  <2>1. ASSUME NEW t \in Tasks, Create(t) PROVE Promise!Next \/ UNCHANGED Promise!vars
    <3>1. CASE CreateRow(t)
      BY <3>1, OpenStep DEF Promise!Next
    <3>2. CASE StartStream(t)
      BY <3>2, HiddenMoves DEF Procs
    <3> QED
      BY <2>1, <3>1, <3>2 DEF Create
  <2>2. ASSUME NEW r \in Requests, Submit(r) PROVE UNCHANGED Promise!vars
    BY <2>2, HiddenSubmit
  <2>3. ASSUME NEW r \in Requests, Callback(r) PROVE Promise!Next \/ UNCHANGED Promise!vars
    <3>1. CASE MarkConsumed(r)
      BY <3>1, MarkStep DEF Promise!Next
    <3>2. CASE ClearPending(r)
      BY <3>2, ClearStep
    <3>3. CASE IsConsumed(r) \/ Validate(r) \/ UpdateState(r) \/ ResumeStream(r)
      BY <3>3, HiddenMoves DEF Procs
    <3> QED
      BY <2>3, <3>1, <3>2, <3>3 DEF Callback
  <2>4. ASSUME NEW p \in Procs, Executor(p) PROVE Promise!Next \/ UNCHANGED Promise!vars
    <3>1. CASE UpdateStatus(p)
      BY <3>1, StopStep DEF Promise!Next
    <3>2. CASE UpdatePending(p)
      BY <3>2, OfferStep DEF Promise!Next
    <3>3. CASE RunNode(p) \/ EndStream(p) \/ GetState(p) \/ Publish(p)
      BY <3>3, HiddenMoves
    <3>4. ~PublishError(p)
      BY DEF PublishError, Inv, OrderInv
    <3> QED
      BY <2>4, <3>1, <3>2, <3>3, <3>4 DEF Executor
  <2>5. ~Fault
    BY NoFault
  <2>6. CASE UNCHANGED vars
    <3>1. UNCHANGED <<row, consumed, pc, request>>
      BY <2>6 DEF vars
    <3> QED
      BY <3>1 DEF Promise!vars, Stage, Working, LastStop, OpenQuestion
  <2> QED
    BY <2>1, <2>2, <2>3, <2>4, <2>5, <2>6 DEF Next
<1> QED
  BY <1>1, <1>2, StageInvariant, PTL DEF Spec, Promise!Safe

\* So do the rows of the purchase requests and inquiries that the repository ships.
THEOREM ShippedPromiseKept ==
    ASSUME Client = "careful", MayFail = FALSE, MaxRestarts = 0,
           Config \in {PurchaseRequest, Inquiry}
    PROVE  Spec => Promise!Safe
<1>1. DecisionsLeadOn(Values)
  BY PurchaseLeadsOn, InquiryLeadsOn
<1> QED
  BY <1>1, PromiseKept

=============================================================================
