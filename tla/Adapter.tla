------------------------------- MODULE Adapter -------------------------------
(***************************************************************************)
(* JerehPilot's view of the service: app/api/adapter.py in front of        *)
(* TaskService, and the Kafka topic the executor announces its results on  *)
(* (app/infrastructure/kafka_producer.py).                                 *)
(*                                                                         *)
(* A device learns of an interrupt from the topic and sends a word of      *)
(* decision with the event's id.  decide() finds node and action by itself *)
(* and then makes the same call as POST .../callback: the request becomes  *)
(* one of TaskService's Requests.                                          *)
(***************************************************************************)
EXTENDS TaskServiceProperties

CONSTANT
    Waits     \* the device waits for its answer before it repeats a decision; if not,
              \* it has a timeout of its own and may repeat it while the call runs

ASSUME DeviceAssumption == Waits \in BOOLEAN

VARIABLES
    kafka,    \* processes whose interrupt has been announced on the topic
    decide    \* calls of decide() that have not reached the callback yet

device == <<kafka, decide>>
adapterVars == <<vars, device>>

NoDecision == [step |-> "none", event |-> None, node |-> NoNode]

AdapterInit ==
    /\ Init
    /\ kafka = {}
    /\ decide = [r \in Requests |-> NoDecision]

Free(r) == pc[r] = "idle" /\ decide[r] = NoDecision

\* A call about event e on its way: being decided, or in the callback.
Asked(e) == \E r \in Requests :
                \/ decide[r].event = e
                \/ Running(r) /\ request[r].event = e

\* The device may repeat a decision after any answer, and after none when the server
\* died; if it does not wait, at any time: neither decide() nor callback() looks
\* whether another call is under way.  Requests are interchangeable: it takes one
\* that is free.
Decide(r) ==
    /\ Free(r)
    /\ r = CHOOSE q \in Requests : Free(q)
    /\ \E e \in kafka :
          /\ Waits => ~Asked(e)
          /\ decide' = [decide EXCEPT ![r] = [NoDecision EXCEPT !.step = "get_task", !.event = e]]
    /\ UNCHANGED <<vars, kafka>>

Thread(r) == event[decide[r].event].task

\* Mutant: without a pending callback the node of the event is taken.
EagerGetTask(r) ==
    /\ decide[r].step = "get_task"
    /\ LET node == event[decide[r].event].node
       IN decide' = [decide EXCEPT ![r].step = "map", ![r].node = node]
    /\ UNCHANGED <<vars, kafka>>

\* get_task: 404 without a row, 400 without a pending callback; the device may
\* try again.  Otherwise the node is the one that is pending now.
GetTask(r) ==
    /\ decide[r].step = "get_task"
    /\ LET pending == row[Thread(r)].pending
       IN decide' = [decide EXCEPT ![r] =
             IF pending = NoPending THEN NoDecision
             ELSE [@ EXCEPT !.step = "map", !.node = pending.node]]
    /\ UNCHANGED <<vars, kafka>>

\* A word of approval is the first transition's action, any other word the last's.
MappedAction(node, approve) ==
    LET ts == Config.nodes[node].transitions
    IN IF approve THEN ts[1].action ELSE ts[Len(ts)].action

\* _map_decision_to_action, with any word and input, then callback().  A body that
\* callback() will refuse is the one Permitted names.
MapDecision(r) ==
    /\ decide[r].step = "map"
    /\ Submit(r)
    /\ LET node == decide[r].node
           sent == request'[r]
       IN /\ sent.event = decide[r].event
          /\ sent.task = Thread(r)
          /\ sent.valid => /\ sent.node = node
                           /\ \E approve \in BOOLEAN : sent.action = MappedAction(node, approve)
    /\ decide' = [decide EXCEPT ![r] = NoDecision]
    /\ UNCHANGED kafka

\* get_task or get_by_version raises: 500, and nothing is changed.
DecideFails(r) ==
    /\ MayFail
    /\ decide[r].step \in {"get_task", "map"}
    /\ decide' = [decide EXCEPT ![r] = NoDecision]
    /\ UNCHANGED <<vars, kafka>>

\* _publish_to_kafka after the bus; a failure is swallowed.
Announce(p) ==
    /\ Publish(p)
    /\ kafka' \in {kafka, kafka \union {p}}
    /\ UNCHANGED decide

\* The connections die with the server.
AdapterRestart ==
    /\ Restart
    /\ decide' = [r \in Requests |-> NoDecision]
    /\ UNCHANGED kafka

Serve(p) ==
    /\ \/ p \in Tasks /\ Create(p)
       \/ p \in Requests /\ Callback(p)
       \/ pc[p] # "publish" /\ Executor(p)
       \/ RaiseInGraph(p)
       \/ Raise(p)
    /\ UNCHANGED device

AdapterNext ==
    \/ \E r \in Requests : Decide(r) \/ GetTask(r) \/ MapDecision(r) \/ DecideFails(r)
    \/ \E p \in Procs : Serve(p) \/ Announce(p)
    \/ AdapterRestart

AdapterSpec == AdapterInit /\ [][AdapterNext]_adapterVars

------------------------------------------------------------------------------
(* Fairness: the event loop runs every coroutine that can run; the device  *)
(* repeats its decision until it has an answer, and not every read of the  *)
(* database fails.                                                         *)

FairAdapter ==
    /\ AdapterSpec
    /\ \A p \in Procs : WF_adapterVars((Work(p) /\ UNCHANGED device) \/ Announce(p))
    /\ \A r \in Requests : SF_adapterVars(GetTask(r)) /\ SF_adapterVars(MapDecision(r))
    /\ WF_adapterVars(\E r \in Requests : Decide(r))

------------------------------------------------------------------------------
(* For a device that waits for its answers.  Of one that does not, two     *)
(* calls for one event can be let through (ExactlyOnce): then two          *)
(* processes work on one task, and each may take away the other's offer.   *)

\* decide() takes the node from the row and the event from the device.  A decision
\* that resumes a workflow does so at the node its event asked about, however often
\* it was repeated after an answer, a failure or a restart (adapter.py:100-128).
AnswersItsQuestion ==
    \A r \in resumed : event[request[r].event] = Interrupted(request[r].task, request[r].node)

\* Processes that run a task's graph or write its row.
Writers(t) == {p \in Procs : TaskOf(p) = t /\ pc[p] \in InFlight \ {"is_consumed", "mark", "validate"}}

\* While the device waits for its answers no two processes work on one task: a
\* decision gets past decide() only when the process that asked for it has written
\* its last row (adapter.py:107-112), and one repeated after its answer finds its
\* event consumed (task_service.py:161).
OneWriter == \A t \in Tasks, p, q \in Procs : {p, q} \subseteq Writers(t) => p = q

\* A process of task t failed or died, or no request is left to answer with.
GaveUp(t) ==
    \/ \E p \in Procs : TaskOf(p) = t /\ (pc[p] \in {"failed", "refused"} \/ result[p].status = "error")
    \/ \A r \in Requests : pc[r] # "idle"

\* A decision sent too early, before the offer is stored, is turned away without
\* using up its event: an announced interrupt is eventually answered.
DecisionsGetThrough ==
    \A e \in Procs : e \in kafka ~>
        (\E r \in resumed : request[r].event = e) \/ GaveUp(TaskOf(e))

------------------------------------------------------------------------------
(* Why they hold: the inductive invariants                                 *)

Holding == InFlight \ {"is_consumed", "mark"}

\* What entitles a process to work on task t: it is past the mark, or it has been
\* announced and nobody has used its event yet.
Holder(t) == {p \in Procs : TaskOf(p) = t /\ (pc[p] \in Holding \/ (p \in kafka /\ p \notin consumed))}

\* The right to work on a task passes from one process to the next.
OneHolder == \A t \in Tasks : \A p, q \in Holder(t) : p = q

Finished == {"done", "failed"}

\* Past clearing the pending callback it was sent for.
Busy == Holding \ {"validate", "clear"}

\* What is announced has been published; a request that was sent answers what a
\* process that has ended asked.
SentInv ==
    /\ \A p \in kafka : /\ p \in Procs
                        /\ pc[p] \in {"update_status", "update_pending"} \union Finished
                        /\ event[p].status = "interrupted"
                        /\ event[p].task = TaskOf(p)
    /\ \A r \in Requests : pc[r] # "idle" =>
          /\ request[r].event \in kafka
          /\ pc[request[r].event] \in Finished
          /\ event[request[r].event].task = request[r].task
          /\ pc[request[r].task] # "idle"

\* decide() gets past get_task only for what a process that has ended asked.
DecideInv ==
    /\ decide \in [Requests -> [step : {"none", "get_task", "map"}, event : Procs \union {None},
                               node : Nodes \union {NoNode}]]
    /\ \A r \in Requests : decide[r].step # "none" =>
          /\ pc[r] = "idle"
          /\ decide[r].event \in kafka
          /\ decide[r].step = "map" => pc[decide[r].event] \in Finished

\* The device waits: no two calls about one event; so one that is about to mark its
\* event is the first.
AskedInv ==
    /\ \A r, q \in Requests : r # q =>
          /\ Running(r) /\ Running(q) => request[r].event # request[q].event
          /\ Running(r) /\ decide[q].step # "none" => request[r].event # decide[q].event
          /\ decide[r].step # "none" /\ decide[q].step # "none" => decide[r].event # decide[q].event
    /\ \A r \in Requests : pc[r] = "mark" => request[r].event \notin consumed

\* While a callback is offered nobody is past clearing the last one, and no other
\* announced event of the task is unused.
OfferedInv ==
    \A t \in Tasks : row[t].pending # NoPending =>
        /\ \A p \in Procs : TaskOf(p) = t => pc[p] \notin Busy
        /\ \A p \in kafka : TaskOf(p) = t /\ p \notin consumed => p = row[t].pending.event

\* The node of a decision is the node of its event, or the event has been used.
NodeInv ==
    /\ \A r \in Requests : decide[r].step = "map" =>
          \/ decide[r].event \in consumed
          \/ event[decide[r].event].node = decide[r].node
    /\ \A r \in Requests : pc[r] \in {"is_consumed", "mark", "validate"} /\ request[r].valid =>
          \/ pc[r] # "validate" /\ request[r].event \in consumed
          \/ event[request[r].event].node = request[r].node
    /\ \A r \in Requests : pc[r] \in {"clear", "update"} \/ r \in resumed =>
          event[request[r].event].node = request[r].node

AdapterInv == OneHolder /\ SentInv /\ DecideInv /\ AskedInv /\ OfferedInv /\ NodeInv

=============================================================================
