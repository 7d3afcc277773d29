----------------------------- MODULE TaskService -----------------------------
(***************************************************************************)
(* The life of tasks: app/service/task_service.py, the executor it drives  *)
(* (app/workflow/executor.py) and the rows it keeps in SQLite.             *)
(*                                                                         *)
(* A process is one HTTP request.  The POST /v1/tasks that creates a task  *)
(* is named after the task; the POST .../callback requests are Requests.   *)
(* Every process is a coroutine of one event loop and can be suspended at  *)
(* every await, so an action is what runs between two awaits that touch    *)
(* shared state: one storage transaction, one superstep, one publication.  *)
(*                                                                         *)
(* A process publishes at most one event, under a fresh uuid: the event is *)
(* named after the process that publishes it.                              *)
(***************************************************************************)
EXTENDS LangGraph, Functions

CONSTANTS
    Tasks,          \* tasks, each with the request that creates it
    Requests,       \* callback requests
    UnknownEvents,  \* event ids nobody has published
    None,           \* no event (NULL in the row)
    Config,         \* the workflow the tasks are pinned to
    Client,         \* how clients choose what they send, see Permitted
    MayFail,        \* storage calls and the graph may raise
    MaxRestarts     \* how often the server process is killed and started

Procs == Tasks \union Requests
Events == Procs \union UnknownEvents

ASSUME NamesAssumption ==
    /\ Tasks \cap Requests = {}
    /\ Procs \cap UnknownEvents = {}
    /\ None \notin Events

ASSUME ConfigAssumption == WellFormed(Config)

ASSUME EnvironmentAssumption ==
    /\ Client \in {"careful", "push", "any"}
    /\ MayFail \in BOOLEAN
    /\ MaxRestarts \in Nat

VARIABLES
    row,         \* tasks table: status, node it awaits, pending_callback, and the
                 \* callbacks whose user_input the data is merged from
    event,       \* events table: what each process has published
    consumed,    \* event ids with consumed = 1
    checkpoint,  \* MemorySaver: the newest checkpoint of each task's thread
    pc,          \* where each process is
    request,     \* body of each callback request
    loop,        \* the thread as a running astream() holds it in memory
    result,      \* ExecutionResult of each process
    restarts,    \* number of restarts so far
    late,        \* history: requests sent after their event resumed a workflow
    resumed,     \* history: requests that have resumed the workflow
    gates        \* history: <<p, n>> when process p has run interrupt node n

tables == <<row, event, consumed>>
memory == <<checkpoint, loop>>
history == <<late, resumed, gates>>

vars == <<tables, memory, pc, request, result, restarts, history>>

Gates == InterruptNodes(Config)
Nodes == NodeIds(Config)

Actions == UNION {{tr.action : tr \in Range(Config.nodes[n].transitions)} : n \in Nodes}

TaskOf(p) == IF p \in Tasks THEN p ELSE request[p].task

\* Where a process can be; a label names the call it makes next.
CreateLabels == {"stream", "tick", "get_state", "publish", "publish_error",
                 "update_status", "update_pending"}
CallbackLabels == {"is_consumed", "mark", "validate", "clear", "update", "resume"}
InFlight == CreateLabels \union CallbackLabels
Answered == {"done", "refused", "failed"}

Running(p) == pc[p] \in InFlight
Goto(p, label) == pc' = [pc EXCEPT ![p] = label]

------------------------------------------------------------------------------

NoPending == [event |-> None, node |-> NoNode]
AbsentRow == [status |-> "absent", at |-> NoNode, pending |-> NoPending, inputs |-> {}]
NoEvent == [status |-> "none", task |-> None, node |-> NoNode]
NoRequest == [task |-> None, event |-> None, node |-> NoNode, action |-> Unset,
              valid |-> FALSE]
Result(status, node) == [status |-> status, node |-> node]
NoResult == Result("none", NoNode)

Init ==
    /\ row = [t \in Tasks |-> AbsentRow]
    /\ event = [p \in Procs |-> NoEvent]
    /\ consumed = {}
    /\ checkpoint = [t \in Tasks |-> NoThread]
    /\ pc = [p \in Procs |-> "idle"]
    /\ request = [r \in Requests |-> NoRequest]
    /\ loop = [p \in Procs |-> NoThread]
    /\ result = [p \in Procs |-> NoResult]
    /\ restarts = 0
    /\ late = {}
    /\ resumed = {}
    /\ gates = {}

------------------------------------------------------------------------------
(* Clients                                                                 *)

\* What POST /v1/tasks/{t}/callback may carry.
\*   careful  a client that polls GET /v1/tasks/{t}, answers the pending
\*            callback it is shown with a valid decision, and waits
\*   push     clients that answer, validly, any interrupt event published
\*            so far; several may answer the same one
\*   any      any body with a published event id, of this task or another, or an
\*            unknown one; the bodies that the validation refuses are one, a node
\*            outside the workflow
Decides(n, a, valid) == HasAction(Config, n, a) /\ valid

ShownPending(t, e, n) ==
    /\ row[t].pending = [event |-> e, node |-> n]
    /\ \A r \in Requests : TaskOf(r) = t => ~Running(r)

Interrupted(t, n) == [status |-> "interrupted", task |-> t, node |-> n]

Published(t, e, n) == e \in Procs /\ event[e] = Interrupted(t, n)

Permitted(t, e, n, a, valid) ==
    \/ Client = "careful" /\ ShownPending(t, e, n) /\ Decides(n, a, valid)
    \/ Client = "push" /\ Published(t, e, n) /\ Decides(n, a, valid)
    \/ /\ Client = "any"
       /\ e \in UnknownEvents \union {p \in Procs : event[p].status = "interrupted"}
       /\ Decides(n, a, valid) \/ (n = NoNode /\ ~valid /\ a = CHOOSE x \in Actions : TRUE)

Submit(r) ==
    /\ pc[r] = "idle"
    /\ \E t \in Tasks, e \in Events, n \in Gates \union {NoNode},
          a \in Actions, valid \in BOOLEAN :
          /\ Permitted(t, e, n, a, valid)
          /\ request' = [request EXCEPT ![r] =
                [task |-> t, event |-> e, node |-> n, action |-> a, valid |-> valid]]
    /\ late' = late \union {q \in {r} : \E o \in resumed : request[o].event = request'[q].event}
    /\ Goto(r, "is_consumed")
    /\ UNCHANGED <<tables, memory, result, restarts, resumed, gates>>

------------------------------------------------------------------------------
(* POST /v1/tasks                                                          *)

\* get_active, then the INSERT of the row.
CreateRow(t) ==
    /\ pc[t] = "idle"
    /\ row' = [row EXCEPT ![t] = [AbsentRow EXCEPT !.status = "pending"]]
    /\ Goto(t, "stream")
    /\ UNCHANGED <<event, consumed, memory, request, result, restarts, history>>

\* execute: astream(initial_data) reads the input and checkpoints it.
StartStream(t) ==
    /\ pc[t] = "stream"
    /\ loop' = [loop EXCEPT ![t] = Started(Config)]
    /\ checkpoint' = [checkpoint EXCEPT ![t] = Started(Config)]
    /\ Goto(t, "tick")
    /\ UNCHANGED <<tables, request, result, restarts, history>>

------------------------------------------------------------------------------
(* POST /v1/tasks/{task_id}/callback                                       *)

\* Mutant: a replayed event is let through.
UncheckedReplay(r) ==
    /\ pc[r] = "is_consumed"
    /\ Goto(r, "mark")
    /\ UNCHANGED <<tables, memory, request, result, restarts, history>>

IsConsumed(r) ==
    /\ pc[r] = "is_consumed"
    /\ Goto(r, IF request[r].event \in consumed THEN "refused" ELSE "mark")
    /\ UNCHANGED <<tables, memory, request, result, restarts, history>>

\* Mutant: the event is not marked.
UnmarkedConsumed(r) ==
    /\ pc[r] = "mark"
    /\ Goto(r, "validate")
    /\ UNCHANGED <<tables, memory, request, result, restarts, history>>

\* mark_consumed inserts or updates the row; the service drops what it returns.
MarkConsumed(r) ==
    /\ pc[r] = "mark"
    /\ consumed' = consumed \union {request[r].event}
    /\ Goto(r, "validate")
    /\ UNCHANGED <<row, event, memory, request, result, restarts, history>>

Matched(r) == MatchedTransition(Config, request[r].node, request[r].action)

Accepts(r) ==
    /\ row[request[r].task].status # "absent"
    /\ Decides(request[r].node, request[r].action, request[r].valid)

\* get, get_by_version, then the checks of the node, the action and the form.
Validate(r) ==
    /\ pc[r] = "validate"
    /\ Goto(r, IF Accepts(r) THEN "clear" ELSE "refused")
    /\ UNCHANGED <<tables, memory, request, result, restarts, history>>

\* Mutant: the pending callback stays.
KeepPending(r) ==
    /\ pc[r] = "clear"
    /\ Goto(r, "update")
    /\ UNCHANGED <<tables, memory, request, result, restarts, history>>

ClearPending(r) ==
    /\ pc[r] = "clear"
    /\ row' = [row EXCEPT ![request[r].task].pending = NoPending]
    /\ Goto(r, "update")
    /\ UNCHANGED <<event, consumed, memory, request, result, restarts, history>>

\* Mutant: the user's input is left out of what the graph is resumed with.
ActionOnly(r) == [EmptyState EXCEPT !["action"] = request[r].action]

\* resume_data: what the form pins, and the action.
ResumeData(r) == [Matched(r).form EXCEPT !["action"] = request[r].action]

\* resume: aupdate_state(config, user_input).
UpdateState(r) ==
    /\ pc[r] = "update"
    /\ LET t == request[r].task
       IN checkpoint' = [checkpoint EXCEPT ![t] = Updated(Config, @, ResumeData(r))]
    /\ resumed' = resumed \union {r}
    /\ Goto(r, "stream")
    /\ UNCHANGED <<tables, loop, request, result, restarts, late, gates>>

\* resume: astream(None) loads the checkpoint; the interrupt it resumes from
\* does not stop it again.
ResumeStream(r) ==
    /\ pc[r] = "stream"
    /\ loop' = [loop EXCEPT ![r] = checkpoint[request[r].task]]
    /\ Goto(r, "resume")
    /\ UNCHANGED <<tables, checkpoint, request, result, restarts, history>>

------------------------------------------------------------------------------
(* The executor, for both kinds of requests                                *)

\* Mutant: the graph is compiled without interrupt_before.
StopsAtEnd(p) == loop[p].next = END

\* interrupt_before: the stream stops here, or at END.
Stops(p) ==
    \/ loop[p].next = END
    \/ pc[p] = "tick" /\ loop[p].next \in Gates

\* One superstep: the node runs and the checkpoint is saved.
RunNode(p) ==
    /\ pc[p] \in {"tick", "resume"}
    /\ ~Stops(p)
    /\ LET after == Executed(Config, loop[p])
       IN /\ loop' = [loop EXCEPT ![p] = after]
          /\ checkpoint' = [checkpoint EXCEPT ![TaskOf(p)] = after]
    /\ gates' = gates \union ({p} \X ({loop[p].next} \intersect Gates))
    /\ Goto(p, "tick")
    /\ UNCHANGED <<tables, request, result, restarts, late, resumed>>

EndStream(p) ==
    /\ pc[p] \in {"tick", "resume"}
    /\ Stops(p)
    /\ loop' = [loop EXCEPT ![p] = NoThread]
    /\ Goto(p, "get_state")
    /\ UNCHANGED <<tables, checkpoint, request, result, restarts, history>>

\* Mutant: state.next is taken without looking whether there is one.
AlwaysInterrupted(p) == Result("interrupted", checkpoint[TaskOf(p)].next)

\* Mutant: a stream that has ended without an exception is a workflow that has ended.
NeverInterrupted(p) == Result("completed", NoNode)

\* What aget_state finds: the newest checkpoint of the thread, whoever saved it.
Observed(p) ==
    LET next == checkpoint[TaskOf(p)].next
    IN IF next = END THEN Result("completed", NoNode) ELSE Result("interrupted", next)

GetState(p) ==
    /\ pc[p] = "get_state"
    /\ result' = [result EXCEPT ![p] = Observed(p)]
    /\ Goto(p, IF Observed(p).status = "interrupted" THEN "publish" ELSE "update_status")
    /\ UNCHANGED <<tables, memory, request, restarts, history>>

\* Mutant: a bus that fails is ignored, as Kafka is.
LostPublish(p) ==
    /\ pc[p] = "publish"
    /\ Goto(p, "update_status")
    /\ UNCHANGED <<tables, memory, request, result, restarts, history>>

\* _handle_interrupt.
Publish(p) ==
    /\ pc[p] = "publish"
    /\ event' = [event EXCEPT ![p] = Interrupted(TaskOf(p), result[p].node)]
    /\ Goto(p, "update_status")
    /\ UNCHANGED <<row, consumed, memory, request, result, restarts, history>>

\* The except clause of execute and resume.
PublishError(p) ==
    /\ pc[p] = "publish_error"
    /\ event' = [event EXCEPT ![p] =
          [status |-> "error", task |-> TaskOf(p),
           node |-> IF p \in Tasks THEN NoNode ELSE request[p].node]]
    /\ Goto(p, "update_status")
    /\ UNCHANGED <<row, consumed, memory, request, result, restarts, history>>

\* Mutant: a callback names the node it answers in the status.
AnsweredStatus(p) ==
    IF result[p].status = "interrupted" /\ p \in Requests
      THEN [status |-> "awaiting", at |-> request[p].node]
      ELSE [status |-> result[p].status, at |-> NoNode]

\* _derive_status: awaiting_<node>, or the status of the result.
DerivedStatus(p) ==
    IF result[p].status = "interrupted"
      THEN [status |-> "awaiting", at |-> result[p].node]
      ELSE [status |-> result[p].status, at |-> NoNode]

\* Mutant: the caller's data replaces the data of the row.
OwnInputs(p) == {p} \intersect Requests

\* update_status merges in one transaction; create_task passes no data.
MergedInputs(p) == row[TaskOf(p)].inputs \union ({p} \intersect Requests)

UpdateStatus(p) ==
    /\ pc[p] = "update_status"
    /\ row' = [row EXCEPT ![TaskOf(p)].status = DerivedStatus(p).status,
                          ![TaskOf(p)].at = DerivedStatus(p).at,
                          ![TaskOf(p)].inputs = MergedInputs(p)]
    /\ Goto(p, IF result[p].status = "interrupted" THEN "update_pending" ELSE "done")
    /\ UNCHANGED <<event, consumed, memory, request, result, restarts, history>>

\* Mutant: a callback offers the event and node of its own body again.
AnsweredOffer(p) ==
    IF p \in Tasks THEN [event |-> p, node |-> result[p].node]
    ELSE [event |-> request[p].event, node |-> request[p].node]

\* Mutant: only create_task stores the pending callback.
FirstOfferOnly(p) ==
    IF p \in Tasks THEN [event |-> p, node |-> result[p].node] ELSE NoPending

Offer(p) == [event |-> p, node |-> result[p].node]

UpdatePending(p) ==
    /\ pc[p] = "update_pending"
    /\ row' = [row EXCEPT ![TaskOf(p)].pending = Offer(p)]
    /\ Goto(p, "done")
    /\ UNCHANGED <<event, consumed, memory, request, result, restarts, history>>

------------------------------------------------------------------------------
(* Failures                                                                *)

\* A call inside the try of execute or resume raises.
RaiseInGraph(p) ==
    /\ MayFail
    /\ pc[p] \in {"stream", "update", "tick", "resume", "get_state", "publish"}
    /\ loop' = [loop EXCEPT ![p] = NoThread]
    /\ result' = [result EXCEPT ![p] = Result("error", NoNode)]
    /\ Goto(p, "publish_error")
    /\ UNCHANGED <<tables, checkpoint, request, restarts, history>>

\* A call outside that try raises (a locked database, a graph that cannot be
\* built): the request is answered with an error and leaves what it has written.
Raise(p) ==
    /\ MayFail
    /\ \/ pc[p] \in {"is_consumed", "mark", "validate", "clear", "update",
                     "publish_error", "update_status", "update_pending"}
       \/ pc[p] = "stream" /\ p \in Tasks
    /\ Goto(p, "failed")
    /\ UNCHANGED <<tables, memory, request, result, restarts, history>>

\* Mutant: the replay table is kept in memory too.
ForgetfulRestart ==
    /\ restarts < MaxRestarts
    /\ restarts' = restarts + 1
    /\ pc' = [p \in Procs |-> IF Running(p) THEN "failed" ELSE pc[p]]
    /\ loop' = [p \in Procs |-> NoThread]
    /\ checkpoint' = [t \in Tasks |-> NoThread]
    /\ consumed' = {}
    /\ UNCHANGED <<row, event, request, result, history>>

\* The server process dies, at any await, and lifespan() starts a new one: the
\* tables survive, the requests in flight and the MemorySaver do not.
Restart ==
    /\ restarts < MaxRestarts
    /\ restarts' = restarts + 1
    /\ pc' = [p \in Procs |-> IF Running(p) THEN "failed" ELSE pc[p]]
    /\ loop' = [p \in Procs |-> NoThread]
    /\ checkpoint' = [t \in Tasks |-> NoThread]
    /\ UNCHANGED <<tables, request, result, history>>

------------------------------------------------------------------------------

\* One step of the code of process p that does not fail.
Executor(p) == \/ RunNode(p) \/ EndStream(p) \/ GetState(p) \/ Publish(p)
               \/ PublishError(p) \/ UpdateStatus(p) \/ UpdatePending(p)

Create(t) == CreateRow(t) \/ StartStream(t)

Callback(r) == \/ IsConsumed(r) \/ MarkConsumed(r) \/ Validate(r) \/ ClearPending(r)
               \/ UpdateState(r) \/ ResumeStream(r)

Fault == \/ \E p \in Procs : RaiseInGraph(p) \/ Raise(p)
         \/ Restart

Next ==
    \/ \E t \in Tasks : Create(t)
    \/ \E r \in Requests : Submit(r) \/ Callback(r)
    \/ \E p \in Procs : Executor(p)
    \/ Fault

Spec == Init /\ [][Next]_vars

=============================================================================
