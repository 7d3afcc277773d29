------------------------ MODULE TaskServiceProperties ------------------------
(***************************************************************************)
(* What is checked and proved of TaskService.                              *)
(***************************************************************************)
EXTENDS TaskService

Labels == {"idle"} \union InFlight \union Answered
Rows == [status : {"absent", "pending", "awaiting", "completed", "error"},
         at : Nodes \union {NoNode},
         pending : [event : Procs \union {None}, node : Nodes \union {NoNode}],
         inputs : SUBSET Requests]
EventRows == [status : {"none", "interrupted", "error"}, task : Tasks \union {None},
              node : Nodes \union {NoNode}]
Bodies == [task : Tasks \union {None}, event : Events \union {None},
           node : Nodes \union {NoNode}, action : Values, valid : BOOLEAN]
Results == [status : {"none", "interrupted", "completed", "error"},
            node : Nodes \union {NoNode}]

\* Types of the variables; a callback process that has been sent names a task,
\* and only creating processes and callbacks go through their own labels.
TypeOK ==
    /\ row \in [Tasks -> Rows]
    /\ event \in [Procs -> EventRows]
    /\ consumed \subseteq Events
    /\ checkpoint \in [Tasks -> Threads(Config)]
    /\ pc \in [Procs -> Labels]
    /\ request \in [Requests -> Bodies]
    /\ loop \in [Procs -> Threads(Config)]
    /\ result \in [Procs -> Results]
    /\ restarts \in 0..MaxRestarts
    /\ late \subseteq Requests
    /\ resumed \subseteq Requests
    /\ gates \subseteq Procs \X Nodes
    /\ \A t \in Tasks : pc[t] \notin CallbackLabels
    /\ \A r \in Requests : pc[r] # "idle" => request[r].task \in Tasks /\ request[r].event # None

\* What a process has established when it makes the call its label names: the
\* decision was accepted, the result has the status that leads there.
LabelInv ==
    /\ \A r \in Requests : pc[r] \in {"clear", "update"} =>
          HasAction(Config, request[r].node, request[r].action)
    /\ \A p \in Procs :
          /\ pc[p] \in {"publish", "update_pending"} => result[p].status = "interrupted"
          /\ pc[p] = "publish_error" => result[p].status = "error"
          /\ pc[p] = "update_status" => result[p].status \in {"interrupted", "completed", "error"}

TypeInv == TypeOK /\ LabelInv

------------------------------------------------------------------------------
(* Whatever clients send, whatever fails, across restarts                  *)

\* A request sent after another one has resumed a workflow with the same event
\* never resumes one (task_service.py:161, event_store.py:26), however often the
\* server restarts between the two.
ReplayRefused == late \intersect resumed = {}

\* The pending callback GET shows is an interrupt event that was published for
\* this very task and node: what a client answers can be found on the bus
\* (executor.py:290 before task_service.py:104 and 243).
PendingIsPublished ==
    \A t \in Tasks : row[t].pending # NoPending =>
        Published(t, row[t].pending.event, row[t].pending.node)

\* The data of a task is merged from the input of every callback that was answered
\* with success: no concurrent callback's read and write of the data loses one
\* (sqlite_repository.py:133-170; a later input may still overwrite its keys).
InputsKept ==
    \A r \in Requests : pc[r] = "done" => r \in row[request[r].task].inputs

\* An interrupt node runs only inside a callback that resumed the workflow, and
\* one callback runs at most one: no process walks through a second gate on the
\* strength of one decision (executor.py:107-110, 184-197).
GateNeedsDecision ==
    /\ \A g \in gates : g[1] \in resumed
    /\ \A g, h \in gates : g[1] = h[1] => g = h

\* A task is completed only if some callback resumed it: when the process that
\* creates a task never runs past a gate, neither does the task.
NobodyCompletesAlone ==
    \A t \in Tasks : row[t].status = "completed" =>
        \E r \in resumed : request[r].task = t

------------------------------------------------------------------------------
(* Why they hold: the inductive invariants                                 *)

Resuming == {"stream", "resume", "tick"}
Resumed == Resuming \union {"get_state", "publish", "publish_error", "update_status",
                            "update_pending", "done", "failed"}

\* The event of a callback that is past the mark stays consumed; so a late request
\* is stopped at the replay check.
Marked == {"validate", "clear", "update"}

ReplayInv ==
    /\ \A r \in Requests : pc[r] \in Marked \/ r \in resumed => request[r].event \in consumed
    /\ \A r \in late : /\ pc[r] \in {"is_consumed", "refused", "failed"}
                       /\ request[r].event \in consumed
                       /\ r \notin resumed
    /\ \A r \in resumed : pc[r] \in Resumed

\* A process about to offer its event has published it; an offered event is one
\* of a process that has done all its work, so it never changes again.
OfferInv ==
    /\ \A p \in Procs :
          \/ pc[p] = "update_pending"
          \/ pc[p] = "update_status" /\ result[p].status = "interrupted"
          => event[p] = Interrupted(TaskOf(p), result[p].node)
    /\ \A t \in Tasks : row[t].pending # NoPending =>
          /\ row[t].pending.event \in Procs
          /\ pc[row[t].pending.event] = "done"
          /\ event[row[t].pending.event] = Interrupted(t, row[t].pending.node)

\* A callback past its validation works on a row that exists, so the INSERT of
\* create_task never replaces inputs.
Accepted == {"clear", "update"} \union (Resumed \ {"failed"})

InputsInv ==
    /\ \A t \in Tasks : pc[t] = "idle" => row[t].status = "absent"
    /\ \A r \in Requests :
          /\ pc[r] \in Accepted => row[request[r].task].status # "absent"
          /\ pc[r] \in {"update_pending", "done"} => r \in row[request[r].task].inputs

\* The process that runs a node without stopping is a callback that has resumed;
\* once it has run a gate it is past the step that may run one.
GateInv ==
    /\ \A r \in Requests : pc[r] \in Resuming => r \in resumed
    /\ \A r \in resumed : pc[r] \in Resumed
    /\ \A t \in Tasks : pc[t] # "resume"
    /\ \A g \in gates : g[1] \in resumed /\ pc[g[1]] \in Resumed \ {"stream", "resume"}
    /\ \A g, h \in gates : g[1] = h[1] => g = h

\* G holds the entry node and is left only through a gate: no run from the entry
\* ends before one.
GuardedBy(G) ==
    /\ G \subseteq Nodes
    /\ Config.entry \in G
    /\ \A n \in G \ Gates : Resolve(Config, Config.nodes[n].target) \in G

\* Until somebody has resumed a task, its thread has not left G.
AloneInv(G) ==
    /\ \A r \in Requests : pc[r] = "get_state" \/ result[r].status = "completed" => r \in resumed
    /\ \A t \in Tasks : (\A r \in resumed : request[r].task # t) =>
          /\ pc[t] \in {"tick", "get_state"} => checkpoint[t].next \in G
          /\ pc[t] = "tick" => loop[t].next \in G
          /\ result[t].status # "completed"
          /\ row[t].status # "completed"

------------------------------------------------------------------------------
(* For clients that answer what GET shows, one at a time, without failures *)

Quiet(t) == \A p \in Procs : TaskOf(p) = t => ~Running(p)

\* When nobody works on a task, its row tells where its thread is: awaiting_n
\* when the thread is stopped before gate n, completed when it has ended.
RowMatchesThread ==
    \A t \in Tasks : Quiet(t) /\ row[t].status # "absent" =>
        \/ /\ row[t].status = "awaiting"
           /\ row[t].at \in Gates
           /\ checkpoint[t].next = row[t].at
        \/ row[t].status = "completed" /\ checkpoint[t].next = END

\* A pending callback is shown only while its task awaits somebody.
PendingOnlyWhenAwaiting ==
    \A t \in Tasks : row[t].pending # NoPending => row[t].status = "awaiting"

\* When nobody works on a task that awaits a node, GET shows a pending callback
\* for that node and a decision sent for it will not be refused as a replay.
OfferIsOpen ==
    \A t \in Tasks : Quiet(t) /\ row[t].status = "awaiting" =>
        /\ row[t].pending # NoPending
        /\ row[t].pending.node = row[t].at
        /\ row[t].pending.event \notin consumed

\* The three above follow from what holds of a task at every moment.  Its thread is
\* stopped where the row says; it is so and the callback shown is open; it is over.
StoppedAsShown(t) ==
    /\ row[t].status = "awaiting"
    /\ row[t].at \in Gates
    /\ checkpoint[t].next = row[t].at

Waiting(t) ==
    /\ StoppedAsShown(t)
    /\ row[t].pending # NoPending
    /\ row[t].pending.node = row[t].at
    /\ row[t].pending.event \notin consumed

IsOver(t) ==
    /\ row[t].status = "completed"
    /\ checkpoint[t].next = END
    /\ row[t].pending = NoPending

\* What the process at work on its task relies on, before the workflow is resumed
\* and after.
Asking(p) ==
    LET t == TaskOf(p)
    IN /\ pc[p] \in {"is_consumed", "mark"} =>
             Waiting(t) /\ request[p].event = row[t].pending.event
       /\ pc[p] \in {"validate", "clear"} => StoppedAsShown(t)
       /\ pc[p] \in CallbackLabels \ {"resume"} =>
             Decides(request[p].node, request[p].action, request[p].valid)

Executing(p) ==
    LET t == TaskOf(p)
    IN /\ pc[p] \in CreateLabels \union {"update", "resume"} =>
             row[t].pending = NoPending /\ row[t].status # "absent"
       /\ pc[p] \in {"resume", "tick"} => loop[p] = checkpoint[t]
       /\ pc[p] \in {"get_state", "publish", "update_status", "update_pending"} =>
             checkpoint[t].next \in Gates \union {END}
       /\ pc[p] \in {"publish", "update_status", "update_pending"} => result[p] = Observed(p)
       /\ pc[p] = "update_pending" => row[t].status = "awaiting" /\ row[t].at = result[p].node

OrderInv ==
    /\ \A p, q \in Procs : Running(p) /\ Running(q) /\ TaskOf(p) = TaskOf(q) => p = q
    /\ \A p \in Procs : Asking(p) /\ Executing(p) /\ pc[p] \notin {"failed", "refused", "publish_error"}
    /\ \A e \in consumed : e \in Procs /\ pc[e] = "done"
    /\ \A t \in Tasks : pc[t] = "idle" => row[t].status = "absent"
    /\ \A t \in Tasks : row[t].pending # NoPending => row[t].status = "awaiting"
    /\ \A t \in Tasks : Quiet(t) /\ row[t].status # "absent" => Waiting(t) \/ IsOver(t)

\* The first stop at or after node n: a gate, or END.
StopFrom[n \in Nodes \union {END}] ==
    IF n \in Gates \union {END} THEN n ELSE StopFrom[Resolve(Config, Config.nodes[n].target)]

StopsAfter(n) == {StopFrom[Resolve(Config, tr.target)] :
                    tr \in Range(Config.nodes[n].transitions)}

\* A callback that resumed the workflow took it where the transition of its
\* action leads: to the next gate on that way, or to the end.
DecisionHonoured ==
    \A r \in resumed :
        pc[r] \in {"update_status", "update_pending", "done"} /\ result[r].status # "error" =>
            LET stop == StopFrom[Resolve(Config, Matched(r).target)]
            IN result[r] = IF stop = END THEN Result("completed", NoNode)
                           ELSE Result("interrupted", stop)

\* Where the thread th is taken by a stream that does not stop at its next node.
ResumeStop(th) == IF th.next = END THEN END ELSE StopFrom[Executed(Config, th).next]

\* The workflow lets every decision lead on: when a thread stopped before gate n is
\* updated, as if the node before the gate had written it, and resumed, it gets to
\* where the transition of the decision leads.
DecisionsLeadOn(vals) ==
    \A last \in Nodes \union {START}, values \in [StateKeys -> vals], n \in Gates, a \in Actions :
        Edge(Config, last, values) = n /\ HasAction(Config, n, a) =>
            LET tr == MatchedTransition(Config, n, a)
                th == [last |-> last, next |-> n, values |-> values]
            IN ResumeStop(Updated(Config, th, [tr.form EXCEPT !["action"] = a]))
                   = StopFrom[Resolve(Config, tr.target)]

\* Where the run of a process ends, and the result that says so.
Goal(p) == IF p \in Tasks THEN StopFrom[Config.entry]
           ELSE StopFrom[Resolve(Config, Matched(p).target)]

Arrived(stop) == IF stop = END THEN Result("completed", NoNode) ELSE Result("interrupted", stop)

\* A process is on its way to its goal.
Heading(p) ==
    LET th == checkpoint[TaskOf(p)]
    IN /\ p \in Requests /\ pc[p] \in CallbackLabels \ {"resume"} =>
             th.next = request[p].node /\ request[p].node \in Gates
       /\ p \in Requests /\ pc[p] \in {"stream", "resume"} => ResumeStop(th) = Goal(p)
       /\ pc[p] = "tick" => StopFrom[th.next] = Goal(p)
       /\ pc[p] = "get_state" => th.next = Goal(p)
       /\ pc[p] \in {"publish", "update_status", "update_pending", "done"} =>
             result[p] = Arrived(Goal(p))

HonourInv ==
    /\ \A t \in Tasks : checkpoint[t] # NoThread =>
          checkpoint[t].next = Edge(Config, checkpoint[t].last, checkpoint[t].values)
    /\ \A p \in Procs : Heading(p)

\* Requests that have consumed their event and not yet written the new status.
WorkLabels == InFlight \ {"is_consumed", "mark", "update_pending"}

Working(t) == \E r \in Requests : request[r].task = t /\ pc[r] \in WorkLabels

StageOf == [absent |-> "absent", pending |-> "running", awaiting |-> "stopped",
            completed |-> "over", error |-> "over"]

Stage(t) == IF Working(t) THEN "running" ELSE StageOf[row[t].status]

LastStop(t) == IF row[t].status = "completed" THEN END ELSE row[t].at

OpenQuestion(t) ==
    IF row[t].pending.event \in consumed THEN None ELSE row[t].pending.event

\* Until a process writes the new status the row stays what it was: pending for the
\* creator; awaiting the answered gate, with no open question, for a callback.
Staged(p) ==
    LET t == TaskOf(p)
    IN /\ Running(p) /\ pc[p] # "update_pending" =>
             IF p \in Tasks THEN row[t].status = "pending" /\ row[t].at = NoNode
             ELSE row[t].status = "awaiting" /\ row[t].at = request[p].node
       /\ pc[p] \in {"validate", "clear"} => OpenQuestion(t) = None

StageInv ==
    /\ \A p \in Procs : Staged(p)
    /\ \A r \in Requests : Running(r) =>
          request[r].node \in Gates /\ HasAction(Config, request[r].node, request[r].action)
    /\ \A t \in Tasks : row[t].status = "absent" => row[t] = AbsentRow

\* The rows that GET shows implement the abstract specification.
Promise == INSTANCE HumanInTheLoop WITH
    Questions <- Procs,
    Nowhere <- NoNode,
    Over <- END,
    Leads <- [n \in Gates \union {NoNode} |->
                IF n = NoNode THEN {StopFrom[Config.entry]} ELSE StopsAfter(n)],
    stage <- [t \in Tasks |-> Stage(t)],
    at <- [t \in Tasks |-> LastStop(t)],
    question <- [t \in Tasks |-> OpenQuestion(t)],
    answered <- consumed

\* What a client sees of a task is a human in the loop: fresh questions, one
\* answer each, no gate passed without one, and no stop or question forgotten.
KeepsPromise == Promise!Spec

------------------------------------------------------------------------------
(* What the repository says and the code does not do                       *)

\* "event_id goes through the event store for exactly-once processing": two
\* callbacks never resume the workflow with the same event.
ExactlyOnce ==
    \A r, q \in resumed : request[r].event = request[q].event => r = q

------------------------------------------------------------------------------
(* Liveness                                                                *)

\* The event loop runs every coroutine that can run.
Work(p) == Executor(p) \/ (p \in Tasks /\ StartStream(p)) \/ (p \in Requests /\ Callback(p))
FairSpec == Spec /\ \A p \in Procs : WF_vars(Work(p))

\* People answer what they are shown.
ServedSpec == FairSpec /\ WF_vars(\E r \in Requests : Submit(r))

\* Every HTTP request is answered: no call to the service runs for ever.
EveryCallAnswered == \A p \in Procs : []<>~Running(p)

\* No created task is for ever on its way or waiting, when people answer what GET
\* shows: it is over in the end, row and thread alike.  The one status the code writes
\* for that is "completed", whichever terminal node the decisions led to: terminal
\* nodes are not run, and the status a YAML file gives them (purchase_request.yml:118
\* has "rejected") reaches no row.
TasksEnd ==
    \A t \in Tasks : []<>(row[t].status = "absent" \/ IsOver(t))

=============================================================================
