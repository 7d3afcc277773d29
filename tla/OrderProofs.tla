----------------------------- MODULE OrderProofs -----------------------------
(***************************************************************************)
(* Proofs, for every workflow, number of tasks and of requests, of what a  *)
(* client that answers what GET shows can rely on as long as nothing fails.*)
(***************************************************************************)
EXTENDS TaskServiceProofs

Unhappy == {"failed", "refused", "publish_error"}

Inv == TypeInv /\ OfferInv /\ OrderInv

\* A process at work has a task, whose row is there.
LEMMA RowIsThere ==
    ASSUME Inv, NEW p \in Procs, Running(p)
    PROVE  TaskOf(p) \in Tasks /\ row[TaskOf(p)].status # "absent" /\ pc[TaskOf(p)] # "idle"
<1> USE DEF Inv, TypeInv, TypeOK, Running, InFlight, CreateLabels, CallbackLabels
<1>1. TaskOf(p) \in Tasks
  BY DEF TaskOf, Procs
<1>2. Asking(p) /\ Executing(p)
  BY DEF OrderInv
<1>3. row[TaskOf(p)].status # "absent"
  <2>1. CASE pc[p] \in {"is_consumed", "mark", "validate", "clear"}
    BY <1>2, <2>1 DEF Asking, Waiting, StoppedAsShown
  <2>2. CASE pc[p] \notin {"is_consumed", "mark", "validate", "clear"}
    BY <1>2, <2>2 DEF Executing
  <2> QED
    BY <2>1, <2>2
<1> QED
  BY <1>1, <1>3 DEF OrderInv

\* A step of the process at work on a task concerns that task only.
LEMMA StepOf ==
    ASSUME Inv, NEW p \in Procs, NEW label, Running(p),
           pc' = [pc EXCEPT ![p] = label], label \notin Unhappy, label # "idle",
           UNCHANGED <<request, event>>,
           \A u \in Tasks : u # TaskOf(p) => row'[u] = row[u] /\ checkpoint'[u] = checkpoint[u],
           \A q \in Procs : q # p => loop'[q] = loop[q] /\ result'[q] = result[q],
           \A e \in consumed' \ consumed :
               e \in Procs /\ pc[e] = "done" /\ event[e].task = TaskOf(p),
           Asking(p)', Executing(p)',
           row'[TaskOf(p)].status # "absent",
           row'[TaskOf(p)].pending # NoPending => row'[TaskOf(p)].status = "awaiting",
           \A u \in Tasks : u = TaskOf(p) /\ label \notin InFlight => Waiting(u)' \/ IsOver(u)'
    PROVE  OrderInv'
<1> USE DEF Inv, TypeInv, TypeOK
<1> DEFINE t == TaskOf(p)
<1>1. \A q \in Procs : TaskOf(q)' = TaskOf(q)
  BY DEF TaskOf
<1>2. \A q \in Procs : pc'[q] = IF q = p THEN label ELSE pc[q]
  OBVIOUS
<1>3. \A q \in Procs : TaskOf(q) = t /\ q # p => ~Running(q)
  BY DEF OrderInv
<1>4. \A u \in Tasks : u # t /\ Waiting(u) => Waiting(u)'
  <2> SUFFICES ASSUME NEW u \in Tasks, u # t, Waiting(u) PROVE Waiting(u)'
    OBVIOUS
  <2>1. event[row[u].pending.event].task = u
    <3>1. event[row[u].pending.event] = Interrupted(u, row[u].pending.node)
      BY DEF Waiting, OfferInv
    <3> QED
      BY <3>1 DEF Interrupted
  <2>2. row[u].pending.event \notin consumed'
    BY <2>1 DEF Waiting
  <2> QED
    BY <2>2 DEF Waiting, StoppedAsShown
<1>5. \A q, r \in Procs : Running(q)' /\ Running(r)' /\ TaskOf(q)' = TaskOf(r)' => q = r
  BY <1>1, <1>2 DEF OrderInv, Running
<1>6. \A q \in Procs : Asking(q)' /\ Executing(q)' /\ pc'[q] \notin Unhappy
  <2> SUFFICES ASSUME NEW q \in Procs, q # p
               PROVE  Asking(q)' /\ Executing(q)' /\ pc'[q] \notin Unhappy
    BY <1>2
  <2>1. pc'[q] = pc[q] /\ pc[q] \notin Unhappy /\ Asking(q) /\ Executing(q)
    BY <1>2 DEF OrderInv, Unhappy
  <2>2. CASE ~Running(q)
    BY <2>1, <2>2 DEF Running, Asking, Executing, InFlight, CreateLabels, CallbackLabels
  <2>3. CASE Running(q)
    <3>1. TaskOf(q) # t /\ TaskOf(q)' = TaskOf(q)
      BY <1>1, <1>3, <2>3
    <3>2. TaskOf(q) \in Tasks
      BY <2>3 DEF TaskOf, Running, Procs, InFlight, CreateLabels, CallbackLabels
    <3>3. row'[TaskOf(q)] = row[TaskOf(q)] /\ checkpoint'[TaskOf(q)] = checkpoint[TaskOf(q)]
      BY <3>1, <3>2
    <3>4. Asking(q)'
      BY <1>4, <2>1, <3>1, <3>2, <3>3 DEF Asking, StoppedAsShown
    <3>5. Executing(q)'
      BY <2>1, <3>1, <3>3 DEF Executing, Observed
    <3> QED
      BY <2>1, <3>4, <3>5
  <2> QED
    BY <2>2, <2>3
<1>7. \A e \in consumed' : e \in Procs /\ pc'[e] = "done"
  BY <1>2 DEF OrderInv, Running, InFlight, CreateLabels, CallbackLabels
<1>8. \A u \in Tasks : pc'[u] = "idle" => row'[u].status = "absent"
  BY <1>2, RowIsThere DEF OrderInv, Procs
<1>9. \A u \in Tasks : row'[u].pending # NoPending => row'[u].status = "awaiting"
  BY DEF OrderInv
<1>10. \A u \in Tasks : Quiet(u)' /\ row'[u].status # "absent" => Waiting(u)' \/ IsOver(u)'
  <2> SUFFICES ASSUME NEW u \in Tasks, Quiet(u)', row'[u].status # "absent"
               PROVE  Waiting(u)' \/ IsOver(u)'
    OBVIOUS
  <2>1. CASE u = t
    <3>1. label \notin InFlight
      BY <1>1, <1>2, <2>1 DEF Quiet, Running
    <3> QED
      BY <2>1, <3>1
  <2>2. CASE u # t
    <3>1. Quiet(u)
      BY <1>1, <1>2, <2>2 DEF Quiet, Running
    <3>2. Waiting(u) \/ IsOver(u)
      BY <2>2, <3>1 DEF OrderInv
    <3> QED
      BY <1>4, <2>2, <3>2 DEF IsOver
  <2> QED
    BY <2>1, <2>2
<1> QED
  BY <1>5, <1>6, <1>7, <1>8, <1>9, <1>10 DEF OrderInv, Unhappy

------------------------------------------------------------------------------
(* The callback, up to the resume                                          *)

USE DEF Goto, tables, memory, history

\* A careful client submits only when nobody is at work on the task, so the new
\* callback finds the question it answers open.
LEMMA SubmitStep ==
    ASSUME Inv, Client = "careful", NEW r \in Requests, Submit(r)
    PROVE  OrderInv'
<1> USE NamesAssumption DEF Inv, TypeInv, TypeOK, Procs
<1>1. PICK t \in Tasks, e \in Events, n \in Gates \union {NoNode}, a \in Actions, valid \in BOOLEAN :
         /\ ShownPending(t, e, n) /\ Decides(n, a, valid)
         /\ request' = [request EXCEPT ![r] =
               [task |-> t, event |-> e, node |-> n, action |-> a, valid |-> valid]]
  <2>1. PICK t \in Tasks, e \in Events, n \in Gates \union {NoNode}, a \in Actions, valid \in BOOLEAN :
           /\ Permitted(t, e, n, a, valid)
           /\ request' = [request EXCEPT ![r] =
                 [task |-> t, event |-> e, node |-> n, action |-> a, valid |-> valid]]
    BY DEF Submit
  <2>2. ShownPending(t, e, n) /\ Decides(n, a, valid)
    BY <2>1 DEF Permitted
  <2> QED
    BY <2>1, <2>2
<1>2. /\ pc[r] = "idle" /\ pc' = [pc EXCEPT ![r] = "is_consumed"]
      /\ UNCHANGED <<tables, memory, result>>
  BY DEF Submit
<1>3. /\ request'[r].task = t /\ request'[r].event = e /\ request'[r].node = n
      /\ request'[r].action = a /\ request'[r].valid = valid
      /\ \A q \in Requests : q # r => request'[q] = request[q]
  BY <1>1
<1>4. /\ \A q \in Procs : q # r => TaskOf(q)' = TaskOf(q)
      /\ TaskOf(r)' = t
  BY <1>3 DEF TaskOf
<1>5. row[t].pending # NoPending /\ row[t].pending.event = e /\ row[t].status = "awaiting"
  <2>1. row[t].pending = [event |-> e, node |-> n] /\ e # None
    BY <1>1 DEF ShownPending, Events
  <2> QED
    BY <2>1 DEF NoPending, OrderInv
<1>6. Quiet(t)
  <2>1. \A q \in Requests : TaskOf(q) = t => ~Running(q)
    BY <1>1 DEF ShownPending
  <2>2. ~Running(t)
    <3>1. TaskOf(t) = t /\ pc[t] \notin CallbackLabels /\ Executing(t)
      BY DEF TaskOf, OrderInv
    <3> QED
      BY <1>5, <3>1 DEF Executing, Running, InFlight
  <2> QED
    BY <2>1, <2>2 DEF Quiet, TaskOf
<1>7. Waiting(t)
  BY <1>5, <1>6 DEF OrderInv, IsOver
<1>8. \A u \in Tasks : Waiting(u)' = Waiting(u) /\ IsOver(u)' = IsOver(u)
                      /\ StoppedAsShown(u)' = StoppedAsShown(u)
  BY <1>2 DEF Waiting, IsOver, StoppedAsShown
<1>9. \A q \in Procs : pc'[q] = IF q = r THEN "is_consumed" ELSE pc[q]
  BY <1>2
<1>10. \A p, q \in Procs : Running(p)' /\ Running(q)' /\ TaskOf(p)' = TaskOf(q)' => p = q
  BY <1>4, <1>6, <1>9 DEF Quiet, Running, OrderInv
<1>11. \A q \in Procs : Asking(q)' /\ Executing(q)' /\ pc'[q] \notin Unhappy
  <2>1. Asking(r)'
    BY <1>1, <1>3, <1>4, <1>5, <1>7, <1>8, <1>9, <1>2 DEF Asking
  <2>2. Executing(r)'
    BY <1>9 DEF Executing, CreateLabels
  <2>3. ASSUME NEW q \in Procs, q # r PROVE Asking(q)' /\ Executing(q)'
    <3>1. Asking(q) /\ Executing(q) /\ pc'[q] = pc[q] /\ TaskOf(q)' = TaskOf(q)
      BY <1>4, <1>9, <2>3 DEF OrderInv
    <3>2. CASE ~Running(q)
      BY <3>1, <3>2 DEF Asking, Executing, Running, InFlight, CreateLabels, CallbackLabels
    <3>3. CASE Running(q)
      <4>1. TaskOf(q) \in Tasks
        BY <3>3, RowIsThere
      <4>2. pc[q] \in CallbackLabels => request'[q] = request[q]
        BY <1>3, <2>3 DEF CallbackLabels
      <4>3. Asking(q)'
        BY <1>2, <1>8, <3>1, <4>1, <4>2 DEF Asking, CallbackLabels
      <4>4. Executing(q)'
        BY <1>2, <3>1, <4>1 DEF Executing, Observed
      <4> QED
        BY <4>3, <4>4
    <3> QED
      BY <3>2, <3>3
  <2> QED
    BY <1>9, <2>1, <2>2, <2>3 DEF OrderInv, Unhappy
<1>12. \A u \in Tasks : Quiet(u)' => Quiet(u)
  BY <1>2, <1>4, <1>9 DEF Quiet, Running, InFlight, CreateLabels, CallbackLabels
<1> QED
  BY <1>2, <1>8, <1>9, <1>10, <1>11, <1>12 DEF OrderInv, Unhappy

\* The event of an open question is not consumed: the callback is not refused.
LEMMA IsConsumedStep ==
    ASSUME Inv, NEW r \in Requests, IsConsumed(r)
    PROVE  OrderInv'
<1> USE DEF IsConsumed, Inv, TypeInv, TypeOK, InFlight, CreateLabels, CallbackLabels, Unhappy
<1>1. r \in Procs /\ Running(r) /\ TaskOf(r) = request[r].task /\ TaskOf(r)' = TaskOf(r)
  BY NamesAssumption DEF Running, Procs, TaskOf
<1>2. Asking(r) /\ Waiting(TaskOf(r)) /\ row[TaskOf(r)].status = "awaiting"
  BY <1>1 DEF OrderInv, Asking, Waiting, StoppedAsShown
<1>3. pc' = [pc EXCEPT ![r] = "mark"]
  BY <1>1, <1>2 DEF Asking, Waiting
<1>4. Waiting(TaskOf(r))'
  BY <1>1, <1>2 DEF Waiting, StoppedAsShown
<1>5. Asking(r)'
  BY <1>1, <1>2, <1>3, <1>4 DEF Asking
<1>6. Executing(r)'
  BY <1>1, <1>3 DEF Executing
<1> QED
  BY <1>1, <1>2, <1>3, <1>5, <1>6, StepOf

\* The mark consumes the event of this task's question and of no other task's.
LEMMA MarkConsumedStep ==
    ASSUME Inv, NEW r \in Requests, MarkConsumed(r)
    PROVE  OrderInv'
<1> USE DEF MarkConsumed, Inv, TypeInv, TypeOK, InFlight, CreateLabels, CallbackLabels, Unhappy
<1>1. r \in Procs /\ Running(r) /\ TaskOf(r) = request[r].task /\ TaskOf(r)' = TaskOf(r)
  BY NamesAssumption DEF Running, Procs, TaskOf
<1>2. Asking(r) /\ Waiting(TaskOf(r)) /\ row[TaskOf(r)].status = "awaiting"
  BY <1>1 DEF OrderInv, Asking, Waiting, StoppedAsShown
<1>3. /\ request[r].event \in Procs /\ pc[request[r].event] = "done"
      /\ event[request[r].event].task = TaskOf(r)
  <2>1. request[r].event = row[TaskOf(r)].pending.event
    BY <1>2 DEF Asking
  <2>2. event[request[r].event] = Interrupted(TaskOf(r), row[TaskOf(r)].pending.node)
    BY <1>1, <1>2, <2>1 DEF Waiting, OfferInv
  <2> QED
    BY <1>1, <1>2, <2>1, <2>2 DEF Waiting, OfferInv, Interrupted
<1>4. Asking(r)'
  BY <1>1, <1>2 DEF Asking, Waiting, StoppedAsShown
<1>5. Executing(r)'
  BY <1>1 DEF Executing
<1> QED
  BY <1>1, <1>2, <1>3, <1>4, <1>5, StepOf

\* The decision of a careful client names the gate and fits it: it is accepted.
LEMMA ValidateStep ==
    ASSUME Inv, NEW r \in Requests, Validate(r)
    PROVE  OrderInv'
<1> USE DEF Validate, Inv, TypeInv, TypeOK, InFlight, CreateLabels, CallbackLabels, Unhappy
<1>1. r \in Procs /\ Running(r) /\ TaskOf(r) = request[r].task /\ TaskOf(r)' = TaskOf(r)
  BY NamesAssumption DEF Running, Procs, TaskOf
<1>2. Asking(r) /\ StoppedAsShown(TaskOf(r)) /\ row[TaskOf(r)].status = "awaiting"
  BY <1>1 DEF OrderInv, Asking, StoppedAsShown
<1>3. pc' = [pc EXCEPT ![r] = "clear"]
  BY <1>1, <1>2 DEF Asking, Accepts
<1>4. Asking(r)'
  BY <1>1, <1>2, <1>3 DEF Asking, StoppedAsShown
<1>5. Executing(r)'
  BY <1>1, <1>3 DEF Executing
<1> QED
  BY <1>1, <1>2, <1>3, <1>4, <1>5, StepOf

\* Clearing leaves the task awaiting with nothing shown.
LEMMA ClearPendingStep ==
    ASSUME Inv, NEW r \in Requests, ClearPending(r)
    PROVE  OrderInv'
<1> USE DEF ClearPending, Inv, TypeInv, TypeOK, InFlight, CreateLabels, CallbackLabels, Unhappy
<1>1. r \in Procs /\ Running(r) /\ TaskOf(r) = request[r].task /\ TaskOf(r)' = TaskOf(r)
  BY NamesAssumption DEF Running, Procs, TaskOf
<1>2. Asking(r) /\ row[TaskOf(r)].status = "awaiting" /\ TaskOf(r) \in Tasks
  BY <1>1 DEF OrderInv, Asking, StoppedAsShown
<1>3. /\ row'[TaskOf(r)].pending = NoPending /\ row'[TaskOf(r)].status = "awaiting"
      /\ \A u \in Tasks : u # TaskOf(r) => row'[u] = row[u]
  BY <1>1, <1>2 DEF Rows
<1>4. Asking(r)'
  BY <1>1, <1>2 DEF Asking
<1>5. Executing(r)'
  BY <1>1, <1>3 DEF Executing
<1> QED
  BY <1>1, <1>2, <1>3, <1>4, <1>5, StepOf

\* Writing the decision to the thread moves no row.
LEMMA UpdateStateStep ==
    ASSUME Inv, NEW r \in Requests, UpdateState(r)
    PROVE  OrderInv'
<1> USE DEF UpdateState, Inv, TypeInv, TypeOK, InFlight, CreateLabels, CallbackLabels, Unhappy
<1>1. r \in Procs /\ Running(r) /\ TaskOf(r) = request[r].task /\ TaskOf(r)' = TaskOf(r)
  BY NamesAssumption DEF Running, Procs, TaskOf
<1>2. Executing(r) /\ row[TaskOf(r)].pending = NoPending /\ row[TaskOf(r)].status # "absent"
  BY <1>1 DEF OrderInv, Executing
<1>3. Asking(r)'
  BY <1>1 DEF Asking
<1>4. Executing(r)'
  BY <1>1, <1>2 DEF Executing
<1> QED
  BY <1>1, <1>2, <1>3, <1>4, StepOf

\* The resumed executor starts from the checkpoint.
LEMMA ResumeStreamStep ==
    ASSUME Inv, NEW r \in Requests, ResumeStream(r)
    PROVE  OrderInv'
<1> USE DEF ResumeStream, Inv, TypeInv, TypeOK, InFlight, CreateLabels, CallbackLabels, Unhappy
<1>1. r \in Procs /\ Running(r) /\ TaskOf(r) = request[r].task /\ TaskOf(r)' = TaskOf(r)
  BY NamesAssumption DEF Running, Procs, TaskOf
<1>2. Executing(r) /\ row[TaskOf(r)].pending = NoPending /\ row[TaskOf(r)].status # "absent"
  BY <1>1 DEF OrderInv, Executing
<1>3. Asking(r)'
  BY <1>1 DEF Asking
<1>4. Executing(r)'
  BY <1>1, <1>2 DEF Executing
<1> QED
  BY <1>1, <1>2, <1>3, <1>4, StepOf

------------------------------------------------------------------------------
(* The creation                                                            *)

\* Nobody is at work on a task that does not exist.
LEMMA CreateRowStep ==
    ASSUME Inv, NEW t \in Tasks, CreateRow(t)
    PROVE  OrderInv'
<1> USE DEF CreateRow, Inv, TypeInv, TypeOK, InFlight, CreateLabels, CallbackLabels, Unhappy
<1>1. t \in Procs /\ TaskOf(t) = t /\ \A q \in Procs : TaskOf(q)' = TaskOf(q)
  BY DEF Procs, TaskOf
<1>2. /\ row'[t].status = "pending" /\ row'[t].pending = NoPending
      /\ \A u \in Tasks : u # t => row'[u] = row[u]
  BY DEF AbsentRow
<1>3. \A q \in Procs : pc'[q] = IF q = t THEN "stream" ELSE pc[q]
  BY <1>1
<1>4. \A q \in Procs : TaskOf(q) = t => ~Running(q)
  BY RowIsThere
<1>5. \A p, q \in Procs : Running(p)' /\ Running(q)' /\ TaskOf(p)' = TaskOf(q)' => p = q
  BY <1>1, <1>3, <1>4 DEF OrderInv, Running
<1>6. \A q \in Procs : Asking(q)' /\ Executing(q)' /\ pc'[q] \notin Unhappy
  <2>1. Asking(t)' /\ Executing(t)'
    BY <1>1, <1>2, <1>3 DEF Asking, Executing
  <2>2. ASSUME NEW q \in Procs, q # t PROVE Asking(q)' /\ Executing(q)'
    <3>1. Asking(q) /\ Executing(q) /\ pc'[q] = pc[q] /\ TaskOf(q)' = TaskOf(q)
      BY <1>1, <1>3, <2>2 DEF OrderInv
    <3>2. CASE ~Running(q)
      BY <3>1, <3>2 DEF Asking, Executing, Running
    <3>3. CASE Running(q)
      <4>1. TaskOf(q) \in Tasks /\ TaskOf(q) # t
        BY <1>4, <3>3, RowIsThere
      <4>2. row'[TaskOf(q)] = row[TaskOf(q)]
        BY <1>2, <4>1
      <4>3. /\ Waiting(TaskOf(q)) => Waiting(TaskOf(q))'
            /\ StoppedAsShown(TaskOf(q)) => StoppedAsShown(TaskOf(q))'
        BY <3>1, <4>2 DEF Waiting, StoppedAsShown, AbsentRow
      <4>4. Asking(q)'
        <5>1. request' = request /\ row'[TaskOf(q)'] = row[TaskOf(q)]
          BY <3>1, <4>2
        <5> QED
          BY <3>1, <4>3, <5>1 DEF Asking, AbsentRow
      <4>5. Executing(q)'
        BY <3>1, <4>2 DEF Executing, Observed
      <4> QED
        BY <4>4, <4>5
    <3> QED
      BY <3>2, <3>3
  <2> QED
    BY <1>3, <2>1, <2>2 DEF OrderInv
<1>7. \A u \in Tasks : Quiet(u)' /\ row'[u].status # "absent" => Waiting(u)' \/ IsOver(u)'
  <2> SUFFICES ASSUME NEW u \in Tasks, Quiet(u)', row'[u].status # "absent"
               PROVE  Waiting(u)' \/ IsOver(u)'
    OBVIOUS
  <2>1. u # t
    BY <1>1, <1>3 DEF Quiet, Running
  <2>2. Quiet(u)
    BY <1>1, <1>3, <2>1 DEF Quiet, Running
  <2> QED
    BY <1>2, <2>1, <2>2 DEF OrderInv, Waiting, IsOver, StoppedAsShown
<1>8. \A e \in consumed : e \in Procs /\ pc'[e] = "done"
  BY <1>3 DEF OrderInv
<1>9. \A u \in Tasks : pc'[u] = "idle" => row'[u].status = "absent"
  BY <1>2, <1>3 DEF OrderInv, Procs
<1>10. \A u \in Tasks : row'[u].pending # NoPending => row'[u].status = "awaiting"
  BY <1>2 DEF OrderInv
<1> QED
  BY <1>5, <1>6, <1>7, <1>8, <1>9, <1>10 DEF OrderInv

\* The executor of a new task starts from the entry node.
LEMMA StartStreamStep ==
    ASSUME Inv, NEW t \in Tasks, StartStream(t)
    PROVE  OrderInv'
<1> USE DEF StartStream, Inv, TypeInv, TypeOK, InFlight, CreateLabels, CallbackLabels, Unhappy
<1>1. t \in Procs /\ Running(t) /\ TaskOf(t) = t /\ TaskOf(t)' = t
  BY DEF Running, Procs, TaskOf
<1>2. Executing(t) /\ row[TaskOf(t)].pending = NoPending /\ row[TaskOf(t)].status # "absent"
  BY <1>1 DEF OrderInv, Executing
<1>3. Asking(t)'
  BY <1>1 DEF Asking
<1>4. Executing(t)'
  BY <1>1, <1>2 DEF Executing
<1> QED
  BY <1>1, <1>2, <1>3, <1>4, StepOf

------------------------------------------------------------------------------
(* The executor and the rows written after it                              *)

\* What the process finds when it is past the replay check and the clearing.
LEMMA AtWork ==
    ASSUME Inv, NEW p \in Procs, pc[p] \in CreateLabels \union {"resume"}
    PROVE  /\ Running(p) /\ TaskOf(p) \in Tasks /\ Executing(p)
           /\ row[TaskOf(p)].pending = NoPending /\ row[TaskOf(p)].status # "absent"
<1>1. Running(p)
  BY DEF Running, InFlight, CallbackLabels
<1>2. Executing(p)
  BY DEF Inv, OrderInv
<1> QED
  BY <1>1, <1>2, RowIsThere DEF Executing

\* A node that runs moves the checkpoint and the loop together.
LEMMA RunNodeStep ==
    ASSUME Inv, NEW p \in Procs, RunNode(p)
    PROVE  OrderInv'
<1> USE DEF RunNode, Inv, TypeInv, TypeOK, InFlight, CreateLabels, CallbackLabels, Unhappy
<1>1. /\ Running(p) /\ TaskOf(p) \in Tasks /\ Executing(p)
      /\ row[TaskOf(p)].pending = NoPending /\ row[TaskOf(p)].status # "absent"
  BY AtWork
<1>2. TaskOf(p)' = TaskOf(p)
  BY DEF TaskOf
<1>3. Asking(p)'
  BY DEF Asking
<1>4. Executing(p)'
  BY <1>1, <1>2 DEF Executing
<1> QED
  BY <1>1, <1>3, <1>4, StepOf

\* The stream ends where the thread is stopped: before a gate, or at the end.
LEMMA EndStreamStep ==
    ASSUME Inv, NEW p \in Procs, EndStream(p)
    PROVE  OrderInv'
<1> USE DEF EndStream, Inv, TypeInv, TypeOK, InFlight, CreateLabels, CallbackLabels, Unhappy
<1>1. /\ Running(p) /\ TaskOf(p) \in Tasks /\ Executing(p)
      /\ row[TaskOf(p)].pending = NoPending /\ row[TaskOf(p)].status # "absent"
  BY AtWork
<1>2. TaskOf(p)' = TaskOf(p)
  BY DEF TaskOf
<1>3. checkpoint[TaskOf(p)].next \in Gates \union {END}
  BY <1>1 DEF Executing, Stops
<1>4. Asking(p)'
  BY DEF Asking
<1>5. Executing(p)'
  BY <1>1, <1>2, <1>3 DEF Executing
<1> QED
  BY <1>1, <1>4, <1>5, StepOf

\* The executor's result is read from the checkpoint it has just written.
LEMMA GetStateStep ==
    ASSUME Inv, NEW p \in Procs, GetState(p)
    PROVE  OrderInv'
<1> USE DEF GetState, Inv, TypeInv, TypeOK, InFlight, CreateLabels, CallbackLabels, Unhappy
<1>1. /\ Running(p) /\ TaskOf(p) \in Tasks /\ Executing(p)
      /\ row[TaskOf(p)].pending = NoPending /\ row[TaskOf(p)].status # "absent"
  BY AtWork
<1>2. TaskOf(p)' = TaskOf(p)
  BY DEF TaskOf
<1>3. result'[p] = Observed(p) /\ Observed(p)' = Observed(p)
  BY <1>2 DEF Observed
<1>4. checkpoint[TaskOf(p)].next \in Gates \union {END}
  BY <1>1 DEF Executing
<1>5. PICK label \in {"publish", "update_status"} : pc' = [pc EXCEPT ![p] = label]
  OBVIOUS
<1>6. Asking(p)'
  BY <1>5 DEF Asking
<1>7. Executing(p)'
  BY <1>1, <1>2, <1>3, <1>4, <1>5 DEF Executing
<1> QED
  BY <1>1, <1>5, <1>6, <1>7, StepOf

\* The new event is nobody's offer yet, so nothing of OrderInv depends on it.
LEMMA PublishStep ==
    ASSUME Inv, NEW p \in Procs, Publish(p)
    PROVE  OrderInv'
<1> USE DEF Publish, Inv, TypeInv, TypeOK, InFlight, CreateLabels, CallbackLabels, Unhappy
<1>1. Running(p) /\ \A q \in Procs : TaskOf(q)' = TaskOf(q)
  BY DEF Running, TaskOf
<1>2. \A q \in Procs : pc'[q] = IF q = p THEN "update_status" ELSE pc[q]
  OBVIOUS
<1>3. \A q \in Procs : Running(q)' <=> Running(q)
  BY <1>1, <1>2 DEF Running
<1>4. \A u \in Tasks : Quiet(u)' /\ row'[u].status # "absent" => Waiting(u)' \/ IsOver(u)'
  <2> SUFFICES ASSUME NEW u \in Tasks, Quiet(u)', row'[u].status # "absent"
               PROVE  Waiting(u)' \/ IsOver(u)'
    OBVIOUS
  <2>1. Quiet(u)
    BY <1>1, <1>3 DEF Quiet
  <2> QED
    BY <2>1 DEF OrderInv, Waiting, IsOver, StoppedAsShown
<1>5. \A q \in Procs : Asking(q)' /\ Executing(q)' /\ pc'[q] \notin Unhappy
  <2>1. Asking(p)' /\ Executing(p)'
    <3>1. Executing(p)
      BY DEF OrderInv
    <3> QED
      BY <1>1, <1>2, <3>1 DEF Asking, Executing, Observed
  <2>2. ASSUME NEW q \in Procs, q # p PROVE Asking(q)' /\ Executing(q)'
    <3>1. Asking(q) /\ Executing(q) /\ pc'[q] = pc[q] /\ TaskOf(q)' = TaskOf(q)
      BY <1>1, <1>2, <2>2 DEF OrderInv
    <3> QED
      BY <3>1 DEF Asking, Executing, Observed, Waiting, StoppedAsShown
  <2> QED
    BY <1>2, <2>1, <2>2 DEF OrderInv
<1>6. \A e \in consumed : e \in Procs /\ pc'[e] = "done"
  BY <1>2 DEF OrderInv
<1>7. \A u \in Tasks : pc'[u] = "idle" => row'[u].status = "absent"
  BY <1>2 DEF OrderInv, Procs
<1>8. \A q, r \in Procs : Running(q)' /\ Running(r)' /\ TaskOf(q)' = TaskOf(r)' => q = r
  BY <1>1, <1>3 DEF OrderInv
<1>9. \A u \in Tasks : row'[u].pending # NoPending => row'[u].status = "awaiting"
  BY DEF OrderInv
<1> QED
  BY <1>4, <1>5, <1>6, <1>7, <1>8, <1>9 DEF OrderInv, Unhappy

\* A workflow that ended is over; one that is interrupted awaits its node.
\* The row takes the status of the result: over, or awaiting its gate.
LEMMA UpdateStatusStep ==
    ASSUME Inv, NEW p \in Procs, UpdateStatus(p)
    PROVE  OrderInv'
<1> USE DEF UpdateStatus, Inv, TypeInv, TypeOK, InFlight, CreateLabels, CallbackLabels, Unhappy
<1> DEFINE t == TaskOf(p)
<1>1. /\ Running(p) /\ t \in Tasks /\ Executing(p)
      /\ row[t].pending = NoPending /\ row[t].status # "absent"
  BY AtWork
<1>2. TaskOf(p)' = t
  BY DEF TaskOf
<1>3. result[p] = Observed(p) /\ checkpoint[t].next \in Gates \union {END}
  BY <1>1 DEF Executing
<1>4. /\ row'[t].pending = NoPending
      /\ row'[t].status = DerivedStatus(p).status
      /\ row'[t].at = DerivedStatus(p).at
      /\ \A u \in Tasks : u # t => row'[u] = row[u]
  BY <1>1 DEF Rows
<1>5. Asking(p)'
  BY DEF Asking
<1>6. CASE result[p].status = "interrupted"
  <2>1. row'[t].status = "awaiting" /\ row'[t].at = result[p].node /\ pc' = [pc EXCEPT ![p] = "update_pending"]
    BY <1>4, <1>6 DEF DerivedStatus
  <2>2. Executing(p)'
    BY <1>1, <1>2, <1>3, <1>4, <2>1 DEF Executing, Observed
  <2> QED
    BY <1>1, <1>4, <1>5, <2>1, <2>2, StepOf
<1>7. CASE result[p].status # "interrupted"
  <2>1. result[p].status = "completed" /\ checkpoint[t].next = END
    BY <1>3, <1>7 DEF Observed, Result
  <2>2. row'[t].status = "completed" /\ pc' = [pc EXCEPT ![p] = "done"]
    BY <1>4, <1>7, <2>1 DEF DerivedStatus
  <2>3. Executing(p)'
    BY <2>2 DEF Executing
  <2>4. \A u \in Tasks : u = t => IsOver(u)'
    BY <1>4, <2>1, <2>2 DEF IsOver
  <2> QED
    BY <1>1, <1>4, <1>5, <2>2, <2>3, <2>4, StepOf
<1> QED
  BY <1>6, <1>7

\* The last step of a process opens its own event, which nobody has consumed.
LEMMA UpdatePendingStep ==
    ASSUME Inv, NEW p \in Procs, UpdatePending(p)
    PROVE  OrderInv'
<1> USE DEF UpdatePending, Inv, TypeInv, TypeOK, InFlight, CreateLabels, CallbackLabels, Unhappy
<1> DEFINE t == TaskOf(p)
<1>1. /\ Running(p) /\ t \in Tasks /\ Executing(p)
      /\ row[t].pending = NoPending /\ row[t].status # "absent"
  BY AtWork
<1>2. TaskOf(p)' = t
  BY DEF TaskOf
<1>3. /\ result[p] = Observed(p) /\ result[p].status = "interrupted"
      /\ row[t].status = "awaiting" /\ row[t].at = result[p].node
      /\ checkpoint[t].next \in Gates \union {END}
  BY <1>1 DEF Executing, LabelInv
<1>4. result[p].node \in Gates /\ result[p].node = checkpoint[t].next
  BY <1>3 DEF Observed, Result
<1>5. /\ row'[t].pending = [event |-> p, node |-> result[p].node]
      /\ row'[t].status = row[t].status /\ row'[t].at = row[t].at
      /\ \A u \in Tasks : u # t => row'[u] = row[u]
  BY <1>1 DEF Rows, Offer
<1>6. p \notin consumed /\ p # None
  BY NamesAssumption DEF OrderInv, Events
<1>7. \A u \in Tasks : u = t => Waiting(u)'
  BY <1>3, <1>4, <1>5, <1>6 DEF Waiting, StoppedAsShown, NoPending
<1>8. Asking(p)' /\ Executing(p)'
  BY DEF Asking, Executing
<1> QED
  BY <1>1, <1>3, <1>5, <1>7, <1>8, StepOf

------------------------------------------------------------------------------

\* Every step keeps the invariant, when a client is careful and nothing fails.
LEMMA OrderInvariant ==
    ASSUME Client = "careful", MayFail = FALSE, MaxRestarts = 0
    PROVE  Spec => []OrderInv
<1>1. Init => OrderInv
  BY DEF Init, OrderInv, Asking, Executing, Running, InFlight, CreateLabels, CallbackLabels,
         AbsentRow, Procs
<1>2. Inv /\ [Next]_vars => OrderInv'
  <2> SUFFICES ASSUME Inv, [Next]_vars PROVE OrderInv'
    OBVIOUS
  <2>1. ASSUME NEW t \in Tasks, Create(t) PROVE OrderInv'
    BY <2>1, CreateRowStep, StartStreamStep DEF Create
  <2>2. ASSUME NEW r \in Requests, Submit(r) PROVE OrderInv'
    BY <2>2, SubmitStep
  <2>3. ASSUME NEW r \in Requests, Callback(r) PROVE OrderInv'
    BY <2>3, IsConsumedStep, MarkConsumedStep, ValidateStep, ClearPendingStep, UpdateStateStep,
       ResumeStreamStep DEF Callback
  <2>4. ASSUME NEW p \in Procs, Executor(p) PROVE OrderInv'
    <3>1. ~PublishError(p)
      BY DEF PublishError, Inv, OrderInv
    <3> QED
      BY <2>4, <3>1, RunNodeStep, EndStreamStep, GetStateStep, PublishStep, UpdateStatusStep,
         UpdatePendingStep DEF Executor
  <2>5. ~Fault
    <3>1. ~Restart
      BY DEF Restart, Inv, TypeInv, TypeOK
    <3> QED
      BY <3>1 DEF Fault, RaiseInGraph, Raise
  <2>6. CASE UNCHANGED vars
    BY <2>6 DEF Inv, OrderInv, vars, Asking, Executing, Waiting, IsOver, StoppedAsShown, Quiet,
                Running, TaskOf, Observed
  <2> QED
    BY <2>1, <2>2, <2>3, <2>4, <2>5, <2>6 DEF Next
<1> QED
  BY <1>1, <1>2, TypeInvariant, OfferInvariant, PTL DEF Spec, Inv

\* As long as nothing fails and clients answer what GET shows, one answer at a time:
\* whenever nobody works on a task, its row names the gate its thread is stopped at,
\* or says completed and the thread has ended.
THEOREM RowsAreTrue ==
    ASSUME Client = "careful", MayFail = FALSE, MaxRestarts = 0
    PROVE  Spec => []RowMatchesThread
<1>1. OrderInv => RowMatchesThread
  BY DEF OrderInv, RowMatchesThread, Waiting, IsOver, StoppedAsShown
<1> QED
  BY <1>1, OrderInvariant, PTL

\* For the same clients a pending callback is shown only while its task awaits somebody.
THEOREM OffersOnlyWhileAwaiting ==
    ASSUME Client = "careful", MayFail = FALSE, MaxRestarts = 0
    PROVE  Spec => []PendingOnlyWhenAwaiting
<1>1. OrderInv => PendingOnlyWhenAwaiting
  BY DEF OrderInv, PendingOnlyWhenAwaiting
<1> QED
  BY <1>1, OrderInvariant, PTL

\* For the same clients a task that awaits a node, and that nobody works on, shows a
\* callback for that node whose event has not been used.
THEOREM OffersStayOpen ==
    ASSUME Client = "careful", MayFail = FALSE, MaxRestarts = 0
    PROVE  Spec => []OfferIsOpen
<1>1. OrderInv => OfferIsOpen
  BY DEF OrderInv, OfferIsOpen, Waiting, IsOver, StoppedAsShown
<1> QED
  BY <1>1, OrderInvariant, PTL

=============================================================================
