---------------------------- MODULE AdapterProofs ----------------------------
(***************************************************************************)
(* Proofs, for every value of the constants, that the adapter is a client  *)
(* of the task service like any other, and of what a device gains that     *)
(* waits for its answers: decisions that meet their question, with nobody  *)
(* else at work on the task.                                               *)
(***************************************************************************)
EXTENDS Adapter, TaskServiceProofs

\* Every step of the adapter's system is a step of the service, or none: what is
\* proved of the service holds behind the adapter.
THEOREM AdapterIsAClient == AdapterSpec => Spec
<1>1. AdapterInit => Init
  BY DEF AdapterInit
<1>2. [AdapterNext]_adapterVars => [Next]_vars
  BY DEF AdapterNext, adapterVars, Decide, GetTask, MapDecision, DecideFails, Serve, Announce,
         AdapterRestart, Next, Executor, Fault, device
<1> QED
  BY <1>1, <1>2, PTL DEF AdapterSpec, Spec

------------------------------------------------------------------------------
(* Steps that change no more than where a process is                       *)

Inv == TypeInv /\ GateInv /\ OfferInv /\ AdapterInv

\* A process that goes on working, or ends, disturbs nothing.
LEMMA QuietStep ==
    ASSUME Inv, NEW p \in Procs, NEW label,
           pc' = [pc EXCEPT ![p] = label], pc[p] \in InFlight,
           \/ label \in Finished
           \/ label = "refused" /\ pc[p] \notin Busy
           \/ label \in Busy \ {"update"} /\ pc[p] \in Busy,
           pc[p] = "update_status" => label \in {"update_pending"} \union Finished,
           pc[p] = "update_pending" => label \in Finished,
           UNCHANGED <<consumed, event, request, resumed, device>>,
           \A t \in Tasks : row'[t].pending = row[t].pending
    PROVE  AdapterInv'
<1> USE DEF Inv, AdapterInv, TypeInv, TypeOK, InFlight, CreateLabels, CallbackLabels,
            Holding, Busy, Finished, device
<1>1. \A q \in Procs : TaskOf(q)' = TaskOf(q)
  BY DEF TaskOf
<1>2. \A q \in Procs : pc'[q] = IF q = p THEN label ELSE pc[q]
  OBVIOUS
<1>3. OneHolder'
  BY <1>1, <1>2 DEF OneHolder, Holder
<1>4. SentInv'
  BY <1>1, <1>2 DEF SentInv, Procs
<1>5. DecideInv'
  BY <1>2 DEF DecideInv, SentInv, Procs
<1>6. AskedInv'
  BY <1>2 DEF AskedInv, Running, Procs
<1>7. OfferedInv'
  <2> SUFFICES ASSUME NEW t \in Tasks, row'[t].pending # NoPending
               PROVE  /\ \A q \in Procs : TaskOf(q)' = t => pc'[q] \notin Busy
                      /\ \A q \in kafka : TaskOf(q)' = t /\ q \notin consumed => q = row'[t].pending.event
    BY DEF OfferedInv
  <2>1. row[t].pending # NoPending /\ row'[t].pending = row[t].pending
    OBVIOUS
  <2>2. \A q \in Procs : TaskOf(q) = t => pc[q] \notin Busy
    BY <2>1 DEF OfferedInv
  <2>3. \A q \in kafka : TaskOf(q) = t /\ q \notin consumed => q = row[t].pending.event
    BY <2>1 DEF OfferedInv
  <2>4. kafka \subseteq Procs
    BY DEF SentInv
  <2> QED
    BY <1>1, <1>2, <2>1, <2>2, <2>3, <2>4
<1>8. NodeInv'
  BY <1>2 DEF NodeInv, Procs
<1> QED
  BY <1>3, <1>4, <1>5, <1>6, <1>7, <1>8

------------------------------------------------------------------------------
(* Steps of the service                                                    *)

\* The labels of the invariants, spelled out.
USE DEF Inv, AdapterInv, TypeInv, TypeOK, InFlight, CreateLabels, CallbackLabels, Holding,
        Busy, Finished, device, Goto, tables, memory, history

\* While nobody gets to work on a task whose row offers a callback, the offer stays
\* the only question.
LEMMA OfferedStep ==
    ASSUME Inv, kafka' = kafka, consumed \subseteq consumed',
           \A t \in Tasks : row'[t].pending \in {NoPending, row[t].pending},
           \A q \in Procs : TaskOf(q)' = TaskOf(q),
           \A q \in Procs, t \in Tasks :
               TaskOf(q) = t /\ pc'[q] \in Busy => pc[q] \in Busy \/ row'[t].pending = NoPending
    PROVE  OfferedInv'
<1> HIDE DEF Busy, Holding
<1> SUFFICES ASSUME NEW t \in Tasks, row'[t].pending # NoPending
             PROVE  /\ \A q \in Procs : TaskOf(q)' = t => pc'[q] \notin Busy
                    /\ \A q \in kafka : TaskOf(q)' = t /\ q \notin consumed' => q = row'[t].pending.event
  BY DEF OfferedInv
<1>1. row[t].pending # NoPending /\ row'[t].pending = row[t].pending
  OBVIOUS
<1>2. \A q \in Procs : TaskOf(q) = t => pc[q] \notin Busy
  BY <1>1 DEF OfferedInv
<1>3. \A q \in kafka : TaskOf(q) = t /\ q \notin consumed => q = row[t].pending.event
  BY <1>1 DEF OfferedInv
<1>4. kafka \subseteq Procs
  BY DEF SentInv
<1> QED
  BY <1>1, <1>2, <1>3, <1>4

\* The first process of a task: nobody can have a decision for it yet.
LEMMA CreateRowStep ==
    ASSUME Inv, NEW t \in Tasks, CreateRow(t), UNCHANGED device
    PROVE  AdapterInv'
<1> USE NamesAssumption DEF CreateRow, Procs
<1>1. \A q \in Procs : TaskOf(q)' = TaskOf(q)
  BY DEF TaskOf
<1>2. \A q \in Procs : TaskOf(q) = t /\ q # t => pc[q] = "idle" /\ q \notin kafka
  BY DEF TaskOf, SentInv
<1>3. OneHolder'
  <2>1. TaskOf(t) = t
    BY DEF TaskOf
  <2>2. Holder(t)' \subseteq {t}
    BY <1>1, <1>2 DEF Holder
  <2>3. \A u \in Tasks : u # t => Holder(u)' \subseteq Holder(u)
    BY <1>1, <2>1 DEF Holder
  <2> QED
    BY <2>2, <2>3 DEF OneHolder
<1>4. SentInv'
  BY <1>1 DEF SentInv
<1>5. DecideInv'
  BY DEF DecideInv, SentInv
<1>6. AskedInv'
  BY DEF AskedInv, Running
<1>7. OfferedInv'
  <2>1. \A u \in Tasks : row'[u].pending = IF u = t THEN NoPending ELSE row[u].pending
    BY DEF AbsentRow
  <2>2. TaskOf(t) = t
    BY DEF TaskOf
  <2> QED
    BY <1>1, <2>1, <2>2, OfferedStep
<1>8. NodeInv'
  BY DEF NodeInv
<1> QED
  BY <1>3, <1>4, <1>5, <1>6, <1>7, <1>8

\* The replay check lets an unused event pass.
LEMMA IsConsumedStep ==
    ASSUME Inv, NEW r \in Requests, IsConsumed(r), UNCHANGED device
    PROVE  AdapterInv'
<1> USE DEF IsConsumed, Procs
<1>1. CASE request[r].event \in consumed
  BY <1>1, QuietStep
<1>2. CASE request[r].event \notin consumed
  <2> USE <1>2
  <2>1. \A q \in Procs : TaskOf(q)' = TaskOf(q)
    BY DEF TaskOf
  <2>2. OneHolder'
    BY <2>1 DEF OneHolder, Holder
  <2>3. SentInv'
    BY <2>1 DEF SentInv
  <2>4. DecideInv'
    BY DEF DecideInv, SentInv
  <2>5. AskedInv'
    BY DEF AskedInv, Running
  <2>6. OfferedInv'
    BY <2>1, OfferedStep
  <2>7. NodeInv'
    BY DEF NodeInv
  <2> QED
    BY <2>2, <2>3, <2>4, <2>5, <2>6, <2>7
<1> QED
  BY <1>1, <1>2

\* The mark hands the right to work from the event to the callback that uses it.
LEMMA MarkConsumedStep ==
    ASSUME Inv, NEW r \in Requests, MarkConsumed(r), UNCHANGED device
    PROVE  AdapterInv'
<1> USE DEF MarkConsumed, Procs
<1> DEFINE e == request[r].event
<1>1. \A q \in Procs : TaskOf(q)' = TaskOf(q)
  BY DEF TaskOf
<1>2. /\ e \in kafka /\ e \in Procs /\ e \notin consumed /\ pc[e] \in Finished
      /\ TaskOf(e) = request[r].task
  BY DEF SentInv, AskedInv
<1>3. TaskOf(r) = request[r].task
  BY NamesAssumption DEF TaskOf
<1>4. OneHolder'
  <2>1. Holder(request[r].task) \subseteq {e}
    BY <1>2, <1>3 DEF OneHolder, Holder
  <2>2. \A t \in Tasks : Holder(t)' \subseteq (Holder(t) \ {e}) \union {r}
    BY <1>1, <1>2 DEF Holder
  <2>3. \A t \in Tasks : r \in Holder(t)' => t = request[r].task
    BY <1>1, <1>3 DEF Holder
  <2>4. \A t \in Tasks : t # request[r].task => Holder(t)' \subseteq Holder(t)
    BY <2>2, <2>3
  <2>5. \A t \in Tasks : t = request[r].task => Holder(t)' \subseteq {r}
    BY <2>1, <2>2
  <2> QED
    BY <2>4, <2>5 DEF OneHolder
<1>5. SentInv'
  BY <1>1 DEF SentInv
<1>6. DecideInv'
  BY DEF DecideInv, SentInv
<1>7. AskedInv'
  BY DEF AskedInv, Running
<1>8. OfferedInv'
  BY <1>1, OfferedStep
<1>9. NodeInv'
  BY <1>2 DEF NodeInv
<1> QED
  BY <1>4, <1>5, <1>6, <1>7, <1>8, <1>9

\* An accepted decision is valid: it names the node of its event.
LEMMA ValidateStep ==
    ASSUME Inv, NEW r \in Requests, Validate(r), UNCHANGED device
    PROVE  AdapterInv'
<1> USE DEF Validate, Procs
<1>1. CASE ~Accepts(r)
  BY <1>1, QuietStep
<1>2. CASE Accepts(r)
  <2> USE <1>2
  <2>1. \A q \in Procs : TaskOf(q)' = TaskOf(q)
    BY DEF TaskOf
  <2>2. request[r].valid
    BY DEF Accepts, Decides
  <2>3. OneHolder'
    BY <2>1 DEF OneHolder, Holder
  <2>4. SentInv'
    BY <2>1 DEF SentInv
  <2>5. DecideInv'
    BY DEF DecideInv, SentInv
  <2>6. AskedInv'
    BY DEF AskedInv, Running
  <2>7. OfferedInv'
    BY <2>1, OfferedStep
  <2>8. NodeInv'
    BY <2>2 DEF NodeInv
  <2> QED
    BY <2>3, <2>4, <2>5, <2>6, <2>7, <2>8
<1> QED
  BY <1>1, <1>2

\* From the clearing on, nothing is offered.
LEMMA ClearPendingStep ==
    ASSUME Inv, NEW r \in Requests, ClearPending(r), UNCHANGED device
    PROVE  AdapterInv'
<1> USE DEF ClearPending, Procs
<1>1. \A q \in Procs : TaskOf(q)' = TaskOf(q)
  BY DEF TaskOf
<1>2. TaskOf(r) = request[r].task /\ request[r].task \in Tasks
  BY NamesAssumption DEF TaskOf
<1>3. OneHolder'
  BY <1>1 DEF OneHolder, Holder
<1>4. SentInv'
  BY <1>1 DEF SentInv
<1>5. DecideInv'
  BY DEF DecideInv, SentInv
<1>6. AskedInv'
  BY DEF AskedInv, Running
<1>7. OfferedInv'
  <2>1. \A t \in Tasks : row'[t].pending = IF t = request[r].task THEN NoPending ELSE row[t].pending
    BY <1>2 DEF Rows
  <2> QED
    BY <1>1, <1>2, <2>1, OfferedStep
<1>8. NodeInv'
  BY DEF NodeInv
<1> QED
  BY <1>3, <1>4, <1>5, <1>6, <1>7, <1>8

\* The workflow is resumed at the node of the event.
LEMMA UpdateStateStep ==
    ASSUME Inv, NEW r \in Requests, UpdateState(r), UNCHANGED device
    PROVE  AdapterInv'
<1> USE DEF UpdateState, Procs
<1>1. \A q \in Procs : TaskOf(q)' = TaskOf(q)
  BY DEF TaskOf
<1>2. OneHolder'
  BY <1>1 DEF OneHolder, Holder
<1>3. SentInv'
  BY <1>1 DEF SentInv
<1>4. DecideInv'
  BY DEF DecideInv, SentInv
<1>5. AskedInv'
  BY DEF AskedInv, Running
<1>6. OfferedInv'
  BY <1>1, OfferedStep
<1>7. NodeInv'
  BY DEF NodeInv
<1> QED
  BY <1>2, <1>3, <1>4, <1>5, <1>6, <1>7

\* An error event is not announced.
LEMMA PublishErrorStep ==
    ASSUME Inv, NEW p \in Procs, PublishError(p), UNCHANGED device
    PROVE  AdapterInv'
<1> USE DEF PublishError, Procs
<1>1. \A q \in Procs : TaskOf(q)' = TaskOf(q)
  BY DEF TaskOf
<1>2. p \notin kafka /\ \A q \in Procs : q # p => event'[q] = event[q]
  BY DEF SentInv
<1>3. OneHolder'
  BY <1>1 DEF OneHolder, Holder
<1>4. SentInv'
  BY <1>1, <1>2 DEF SentInv
<1>5. DecideInv'
  BY DEF DecideInv, SentInv
<1>6. AskedInv'
  BY DEF AskedInv, Running
<1>7. OfferedInv'
  BY <1>1, OfferedStep
<1>8. NodeInv'
  <2>1. \A r \in Requests : pc[r] # "idle" => request[r].event # p /\ request[r].event \in Procs
    BY DEF SentInv
  <2>2. \A r \in Requests : decide[r].step = "map" => decide[r].event # p /\ decide[r].event \in Procs
    BY DEF DecideInv, SentInv
  <2>3. \A r \in resumed : pc[r] # "idle"
    BY DEF GateInv, Resumed, Resuming
  <2> QED
    BY <1>2, <2>1, <2>2, <2>3 DEF NodeInv
<1> QED
  BY <1>3, <1>4, <1>5, <1>6, <1>7, <1>8

\* An announced interrupt takes over the right to work from its process.
LEMMA AnnounceStep ==
    ASSUME Inv, NEW p \in Procs, Announce(p)
    PROVE  AdapterInv'
<1> USE DEF Announce, Publish, Procs, Interrupted
<1>1. \A q \in Procs : TaskOf(q)' = TaskOf(q)
  BY DEF TaskOf
<1>2. p \notin kafka /\ \A q \in Procs : q # p => event'[q] = event[q]
  BY DEF SentInv
<1>3. TaskOf(p) \in Tasks
  BY DEF TaskOf
<1>4. OneHolder'
  BY <1>1 DEF OneHolder, Holder
<1>5. SentInv'
  BY <1>1, <1>2 DEF SentInv
<1>6. DecideInv'
  BY DEF DecideInv, SentInv
<1>7. AskedInv'
  BY DEF AskedInv, Running
<1>8. OfferedInv'
  <2>1. row[TaskOf(p)].pending = NoPending
    BY <1>3 DEF OfferedInv
  <2>2. \A q \in kafka' : q \in kafka \/ q = p
    OBVIOUS
  <2>3. \A q \in Procs : pc'[q] \in Busy => pc[q] \in Busy
    OBVIOUS
  <2>4. kafka \subseteq Procs
    BY DEF SentInv
  <2> HIDE DEF Busy
  <2> QED
    BY <1>1, <2>1, <2>2, <2>3, <2>4 DEF OfferedInv
<1>9. NodeInv'
  <2>1. \A r \in Requests : pc[r] # "idle" => request[r].event # p /\ request[r].event \in Procs
    BY DEF SentInv
  <2>2. \A r \in Requests : decide[r].step = "map" => decide[r].event # p /\ decide[r].event \in Procs
    BY DEF DecideInv, SentInv
  <2>3. \A r \in resumed : pc[r] # "idle"
    BY DEF GateInv, Resumed, Resuming
  <2> QED
    BY <1>2, <2>1, <2>2, <2>3 DEF NodeInv
<1> QED
  BY <1>4, <1>5, <1>6, <1>7, <1>8, <1>9

\* The offer is stored last, by the only process at work.
LEMMA UpdatePendingStep ==
    ASSUME Inv, NEW p \in Procs, UpdatePending(p), UNCHANGED device
    PROVE  AdapterInv'
<1> USE DEF UpdatePending, Procs
<1>1. \A q \in Procs : TaskOf(q)' = TaskOf(q)
  BY DEF TaskOf
<1>2. TaskOf(p) \in Tasks
  BY DEF TaskOf
<1>3. Holder(TaskOf(p)) \subseteq {p}
  BY <1>2 DEF OneHolder, Holder
<1>4. OneHolder'
  BY <1>1 DEF OneHolder, Holder
<1>5. SentInv'
  BY <1>1 DEF SentInv
<1>6. DecideInv'
  BY DEF DecideInv, SentInv
<1>7. AskedInv'
  BY DEF AskedInv, Running
<1>8. OfferedInv'
  <2>1. \A t \in Tasks : t # TaskOf(p) => row'[t].pending = row[t].pending
    OBVIOUS
  <2>2. row'[TaskOf(p)].pending = Offer(p) /\ Offer(p).event = p
    BY <1>2 DEF Rows, Offer
  <2>3. \A q \in Procs : q # p => pc'[q] = pc[q]
    OBVIOUS
  <2>4. pc'[p] \notin Busy
    OBVIOUS
  <2>5. \A q \in Procs : TaskOf(q) = TaskOf(p) /\ q # p => pc[q] \notin Busy /\ (q \in kafka => q \in consumed)
    BY <1>3 DEF Holder
  <2>6. kafka \subseteq Procs
    BY DEF SentInv
  <2> HIDE DEF Busy
  <2> SUFFICES ASSUME NEW t \in Tasks, row'[t].pending # NoPending
               PROVE  /\ \A q \in Procs : TaskOf(q)' = t => pc'[q] \notin Busy
                      /\ \A q \in kafka' : TaskOf(q)' = t /\ q \notin consumed' => q = row'[t].pending.event
    BY DEF OfferedInv
  <2>7. CASE t = TaskOf(p)
    BY <1>1, <2>2, <2>3, <2>4, <2>5, <2>6, <2>7
  <2>8. CASE t # TaskOf(p)
    BY <1>1, <2>1, <2>3, <2>4, <2>6, <2>8 DEF OfferedInv
  <2> QED
    BY <2>7, <2>8
<1>9. NodeInv'
  BY DEF NodeInv
<1> QED
  BY <1>4, <1>5, <1>6, <1>7, <1>8, <1>9

\* A new server has no request in flight and no decision under way.
LEMMA RestartStep ==
    ASSUME Inv, AdapterRestart
    PROVE  AdapterInv'
<1> USE DEF AdapterRestart, Restart, Procs, NoDecision
<1>1. \A q \in Procs : TaskOf(q)' = TaskOf(q)
  BY DEF TaskOf
<1>2. \A q \in Procs : pc'[q] = IF Running(q) THEN "failed" ELSE pc[q]
  OBVIOUS
<1>3. \A q \in Procs : pc'[q] \notin InFlight /\ (pc'[q] = "idle" <=> pc[q] = "idle")
  BY <1>2 DEF Running
<1>4. \A q \in Procs : pc[q] \in Finished => pc'[q] \in Finished
  BY <1>2 DEF Running
<1>5. OneHolder'
  BY <1>1, <1>3 DEF OneHolder, Holder
<1>6. SentInv'
  <2>1. \A q \in kafka : pc'[q] \in Finished
    BY <1>2 DEF SentInv, Running
  <2>2. \A r \in Requests : pc[r] # "idle" =>
          /\ request[r].event \in kafka /\ request[r].event \in Procs
          /\ pc[request[r].event] \in Finished
          /\ event[request[r].event].task = request[r].task
          /\ request[r].task \in Procs /\ pc[request[r].task] # "idle"
    BY DEF SentInv
  <2>3. UNCHANGED <<kafka, event, request>>
    OBVIOUS
  <2> HIDE DEF Finished
  <2>4. \A q \in kafka' : /\ q \in Procs
                         /\ pc'[q] \in {"update_status", "update_pending"} \union Finished
                         /\ event'[q].status = "interrupted"
                         /\ event'[q].task = TaskOf(q)'
    BY <1>1, <2>1, <2>3 DEF SentInv
  <2>5. \A r \in Requests : pc'[r] # "idle" =>
          /\ request'[r].event \in kafka'
          /\ pc'[request'[r].event] \in Finished
          /\ event'[request'[r].event].task = request'[r].task
          /\ pc'[request'[r].task] # "idle"
    BY <1>3, <1>4, <2>2, <2>3
  <2> QED
    BY <2>4, <2>5 DEF SentInv
<1>7. DecideInv'
  BY DEF DecideInv
<1>8. AskedInv'
  BY <1>3 DEF AskedInv, Running
<1>9. OfferedInv'
  BY <1>1, <1>3, OfferedStep
<1>10. NodeInv'
  BY <1>3 DEF NodeInv
<1> QED
  BY <1>5, <1>6, <1>7, <1>8, <1>9, <1>10

------------------------------------------------------------------------------
(* Steps of decide()                                                       *)

\* A step of the device or of decide() leaves what is held and offered alone.
LEMMA DeviceStep ==
    ASSUME Inv, UNCHANGED <<vars, kafka>>
    PROVE  OneHolder' /\ SentInv' /\ OfferedInv'
<1> USE DEF vars, Procs
<1>1. \A q \in Procs : TaskOf(q)' = TaskOf(q)
  BY DEF TaskOf
<1>2. OneHolder'
  BY <1>1 DEF OneHolder, Holder
<1>3. SentInv'
  BY <1>1 DEF SentInv
<1>4. OfferedInv'
  BY <1>1, OfferedStep
<1> QED
  BY <1>2, <1>3, <1>4

\* A device that waits asks about an event nobody is being asked about.
LEMMA DecideStep ==
    ASSUME Waits, Inv, NEW r \in Requests, Decide(r)
    PROVE  AdapterInv'
<1> USE DEF vars
<1>1. OneHolder' /\ SentInv' /\ OfferedInv'
  BY DeviceStep DEF Decide
<1>2. PICK e \in kafka : /\ ~Asked(e)
                        /\ decide' = [decide EXCEPT ![r] =
                              [NoDecision EXCEPT !.step = "get_task", !.event = e]]
  BY DEF Decide
<1>3. pc[r] = "idle" /\ e \in Procs /\ UNCHANGED <<vars, kafka>>
  BY DEF Decide, Free, SentInv
<1>4. decide'[r] = [step |-> "get_task", event |-> e, node |-> NoNode]
  BY <1>2 DEF DecideInv, NoDecision
<1>5. \A q \in Requests : q # r => decide'[q] = decide[q]
  BY <1>2 DEF DecideInv
<1>6. DecideInv'
  <2>1. decide' = [q \in Requests |-> decide'[q]]
    BY <1>2 DEF DecideInv
  <2>2. \A q \in Requests :
          decide'[q] \in [step : {"none", "get_task", "map"}, event : Procs \union {None},
                         node : Nodes \union {NoNode}]
    BY <1>3, <1>4, <1>5 DEF DecideInv
  <2> QED
    BY <1>3, <1>4, <1>5, <2>1, <2>2 DEF DecideInv
<1>7. \A q \in Requests : /\ decide[q].event # e
                          /\ Running(q) => request[q].event # e
  BY <1>2 DEF Asked
<1>8. AskedInv'
  BY <1>3, <1>4, <1>5, <1>7 DEF AskedInv, Running
<1>9. NodeInv'
  BY <1>3, <1>4, <1>5 DEF NodeInv
<1> QED
  BY <1>1, <1>6, <1>8, <1>9

\* get_task shows an offer: the process that made it has ended, and its node is the
\* node of the event, unless that has been used.
LEMMA GetTaskStep ==
    ASSUME Inv, NEW r \in Requests, GetTask(r)
    PROVE  AdapterInv'
<1> USE DEF vars
<1> DEFINE e == decide[r].event
           pending == row[Thread(r)].pending
<1>1. OneHolder' /\ SentInv' /\ OfferedInv'
  BY DeviceStep DEF GetTask
<1>2. UNCHANGED <<vars, kafka>> /\ decide[r].step = "get_task"
  BY DEF GetTask
<1>3. \A q \in Requests : q # r => decide'[q] = decide[q]
  BY DEF GetTask, DecideInv
<1>4. CASE pending = NoPending
  <2>1. decide'[r] = [step |-> "none", event |-> None, node |-> NoNode]
    BY <1>4 DEF GetTask, DecideInv, NoDecision
  <2>2. DecideInv'
    BY <1>2, <1>4, <2>1, <1>3 DEF DecideInv, GetTask
  <2>3. AskedInv'
    BY <1>2, <1>3, <2>1 DEF AskedInv, Running
  <2>4. NodeInv'
    BY <1>2, <1>3, <2>1 DEF NodeInv
  <2> QED
    BY <1>1, <2>2, <2>3, <2>4
<1>5. CASE pending # NoPending
  <2>1. e \in kafka /\ e \in Procs /\ pc[r] = "idle" /\ Thread(r) = TaskOf(e) /\ TaskOf(e) \in Tasks
    BY <1>2 DEF DecideInv, SentInv, Thread, TaskOf, Procs
  <2>2. pending.node \in Nodes \union {NoNode}
    BY <2>1 DEF Rows
  <2>3. decide'[r] = [step |-> "map", event |-> e, node |-> pending.node]
    <3>1. decide'[r] = [decide[r] EXCEPT !.step = "map", !.node = pending.node]
      BY <1>5 DEF GetTask, DecideInv
    <3>2. decide[r] \in [step : {"none", "get_task", "map"}, event : Procs \union {None},
                         node : Nodes \union {NoNode}]
      BY DEF DecideInv
    <3> QED
      BY <3>1, <3>2
  <2>4. pc[e] \in Finished
    BY <1>5, <2>1 DEF OfferedInv, SentInv
  <2>5. e \in consumed \/ event[e].node = pending.node
    <3>1. e \in consumed \/ e = pending.event
      BY <1>5, <2>1 DEF OfferedInv
    <3>2. event[pending.event] = Interrupted(Thread(r), pending.node)
      BY <1>5, <2>1 DEF OfferInv
    <3> QED
      BY <3>1, <3>2 DEF Interrupted
  <2>6. DecideInv'
    BY <1>2, <1>3, <2>1, <2>2, <2>3, <2>4 DEF DecideInv, GetTask
  <2>7. AskedInv'
    BY <1>2, <1>3, <2>3 DEF AskedInv, Running
  <2>8. NodeInv'
    BY <1>2, <1>3, <2>3, <2>5 DEF NodeInv
  <2> QED
    BY <1>1, <2>6, <2>7, <2>8
<1> QED
  BY <1>4, <1>5

\* A failing decision is forgotten.
LEMMA DecideFailsStep ==
    ASSUME Inv, NEW r \in Requests, DecideFails(r)
    PROVE  AdapterInv'
<1> USE DEF vars
<1>1. OneHolder' /\ SentInv' /\ OfferedInv'
  BY DeviceStep DEF DecideFails
<1>2. UNCHANGED <<vars, kafka>>
  BY DEF DecideFails
<1>3. /\ \A q \in Requests : q # r => decide'[q] = decide[q]
      /\ decide'[r] = [step |-> "none", event |-> None, node |-> NoNode]
  BY DEF DecideFails, DecideInv, NoDecision
<1>4. DecideInv'
  BY <1>2, <1>3 DEF DecideInv, DecideFails
<1>5. AskedInv'
  BY <1>2, <1>3 DEF AskedInv, Running
<1>6. NodeInv'
  BY <1>2, <1>3 DEF NodeInv
<1> QED
  BY <1>1, <1>4, <1>5, <1>6

\* The decision becomes a callback for its event, with the node get_task found.
LEMMA MapDecisionStep ==
    ASSUME Inv, NEW r \in Requests, MapDecision(r)
    PROVE  AdapterInv'
<1> DEFINE e == decide[r].event
<1>1. /\ decide[r].step = "map" /\ pc[r] = "idle" /\ e \in kafka /\ e \in Procs
      /\ pc[e] \in Finished /\ r \in Procs
  BY DEF MapDecision, DecideInv, SentInv, Procs
<1>2. /\ pc' = [pc EXCEPT ![r] = "is_consumed"]
      /\ UNCHANGED <<row, event, consumed, kafka, resumed>>
  BY DEF MapDecision, Submit
<1>3. /\ request'[r].event = e /\ request'[r].task = event[e].task
      /\ request'[r].valid => request'[r].node = decide[r].node
      /\ \A q \in Requests : q # r => request'[q] = request[q]
  BY DEF MapDecision, Submit, Thread
<1>4. /\ decide'[r] = [step |-> "none", event |-> None, node |-> NoNode]
      /\ \A q \in Requests : q # r => decide'[q] = decide[q]
  BY DEF MapDecision, DecideInv, NoDecision
<1>5. \A q \in Procs : q # r => TaskOf(q)' = TaskOf(q)
  BY <1>3 DEF TaskOf, Procs
<1>6. r \notin kafka
  BY <1>1 DEF SentInv
<1>7. OneHolder'
  <2>1. \A t \in Tasks : Holder(t)' \subseteq Holder(t)
    BY <1>1, <1>2, <1>5, <1>6 DEF Holder
  <2> QED
    BY <2>1 DEF OneHolder
<1>8. SentInv'
  <2>1. \A q \in kafka' : q # r /\ q \in Procs
    BY <1>2, <1>6 DEF SentInv
  <2>2. event[e].task = TaskOf(e) /\ pc[TaskOf(e)] # "idle"
    BY <1>1 DEF SentInv, TaskOf, Procs
  <2> QED
    BY <1>1, <1>2, <1>3, <1>5, <2>1, <2>2 DEF SentInv, Procs
<1>9. DecideInv'
  BY <1>1, <1>2, <1>4 DEF DecideInv, MapDecision, SentInv, Procs
<1>10. AskedInv'
  BY <1>1, <1>2, <1>3, <1>4 DEF AskedInv, Running, Procs
<1>11. OfferedInv'
  BY <1>1, <1>2, <1>5, <1>6 DEF OfferedInv, SentInv
<1>12. NodeInv'
  <2>1. r \notin resumed
    BY <1>1 DEF GateInv, Resumed, Resuming
  <2> QED
    BY <1>1, <1>2, <1>3, <1>4, <2>1 DEF NodeInv, Procs
<1> QED
  BY <1>7, <1>8, <1>9, <1>10, <1>11, <1>12

------------------------------------------------------------------------------

\* The invariant that the properties of the adapter follow from.
LEMMA AdapterInvariant ==
    ASSUME Waits
    PROVE  AdapterSpec => []AdapterInv
<1>1. AdapterInit => AdapterInv
  BY NamesAssumption DEF AdapterInit, Init, NoDecision, NoPending, AbsentRow, OneHolder, Holder, SentInv,
         DecideInv, AskedInv, OfferedInv, NodeInv, Running, Procs
<1>2. Inv /\ [AdapterNext]_adapterVars => AdapterInv'
  <2> SUFFICES ASSUME Inv, [AdapterNext]_adapterVars PROVE AdapterInv'
    OBVIOUS
  <2> HIDE DEF Inv, AdapterInv, Holding, Busy, Finished
  <2>1. ASSUME NEW r \in Requests, Decide(r) \/ GetTask(r) \/ MapDecision(r) \/ DecideFails(r)
        PROVE  AdapterInv'
    BY <2>1, DecideStep, GetTaskStep, MapDecisionStep, DecideFailsStep
  <2>2. ASSUME NEW t \in Tasks, Create(t), UNCHANGED device PROVE AdapterInv'
    <3>1. CASE CreateRow(t)
      BY <2>2, <3>1, CreateRowStep
    <3>2. CASE StartStream(t)
      BY <2>2, <3>2, QuietStep DEF StartStream, Busy, Holding, Procs
    <3> QED
      BY <2>2, <3>1, <3>2 DEF Create
  <2>3. ASSUME NEW r \in Requests, Callback(r), UNCHANGED device PROVE AdapterInv'
    <3>1. CASE ResumeStream(r)
      BY <2>3, <3>1, QuietStep DEF ResumeStream, Busy, Holding, Procs
    <3> QED
      BY <2>3, <3>1, IsConsumedStep, MarkConsumedStep, ValidateStep, ClearPendingStep,
         UpdateStateStep DEF Callback
  <2>4. ASSUME NEW p \in Procs, Executor(p), pc[p] # "publish", UNCHANGED device PROVE AdapterInv'
    <3>1. CASE RunNode(p) \/ EndStream(p) \/ GetState(p)
      BY <2>4, <3>1, QuietStep DEF RunNode, EndStream, GetState, Busy, Holding
    <3>2. CASE UpdateStatus(p)
      <4>1. \A t \in Tasks : row'[t].pending = row[t].pending
        BY <3>2 DEF UpdateStatus, Inv, Rows
      <4> QED
        BY <2>4, <3>2, <4>1, QuietStep DEF UpdateStatus, Busy, Holding, Finished
    <3> QED
      BY <2>4, <3>1, <3>2, PublishErrorStep, UpdatePendingStep DEF Executor, Publish
  <2>5. ASSUME NEW p \in Procs, RaiseInGraph(p) \/ Raise(p), UNCHANGED device PROVE AdapterInv'
    BY <2>5, QuietStep DEF RaiseInGraph, Raise, Busy, Holding, Finished
  <2>6. ASSUME NEW p \in Procs, Announce(p) PROVE AdapterInv'
    BY <2>6, AnnounceStep
  <2>7. CASE AdapterRestart
    BY <2>7, RestartStep
  <2>8. CASE UNCHANGED adapterVars
    <3>1. UNCHANGED <<vars, kafka>> /\ decide' = decide
      BY <2>8 DEF adapterVars
    <3>2. OneHolder' /\ SentInv' /\ OfferedInv'
      BY <3>1, DeviceStep
    <3>3. DecideInv' /\ AskedInv' /\ NodeInv'
      BY <3>1 DEF Inv, AdapterInv, vars, DecideInv, AskedInv, NodeInv, Running
    <3> QED
      BY <3>2, <3>3 DEF AdapterInv
  <2>9. ASSUME NEW p \in Procs, Serve(p) PROVE AdapterInv'
    BY <2>2, <2>3, <2>4, <2>5, <2>9 DEF Serve
  <2> QED
    BY <2>1, <2>6, <2>7, <2>8, <2>9 DEF AdapterNext
<1> QED
  BY <1>1, <1>2, AdapterIsAClient, TypeInvariant, GateInvariant, OfferInvariant, PTL DEF AdapterSpec, Inv

\* While the device waits for the answer to a decision before it repeats it, no two
\* processes ever work on one task, whatever fails or restarts.
THEOREM OneWriterAtATime ==
    ASSUME Waits
    PROVE  AdapterSpec => []OneWriter
<1>1. AdapterInv => OneWriter
  BY DEF OneHolder, Holder, OneWriter, Writers
<1> QED
  BY <1>1, AdapterInvariant, PTL

\* A decision of a device that waits for its answers resumes a workflow at the node
\* its event asked about.
THEOREM DecisionsMeetTheirQuestion ==
    ASSUME Waits
    PROVE  AdapterSpec => []AnswersItsQuestion
<1>1. Inv => AnswersItsQuestion
  <2> SUFFICES ASSUME Inv, NEW r \in resumed
               PROVE  event[request[r].event] = Interrupted(request[r].task, request[r].node)
    BY DEF AnswersItsQuestion
  <2>1. pc[r] # "idle" /\ r \in Requests
    BY DEF GateInv, Resumed, Resuming
  <2>2. /\ event[request[r].event].status = "interrupted"
        /\ event[request[r].event].task = request[r].task
        /\ event[request[r].event].node = request[r].node
        /\ request[r].event \in Procs
    BY <2>1 DEF SentInv, NodeInv
  <2>3. event[request[r].event] \in EventRows
    BY <2>2
  <2> QED
    BY <2>2, <2>3 DEF EventRows, Interrupted
<1> QED
  BY <1>1, AdapterInvariant, AdapterIsAClient, TypeInvariant, GateInvariant, OfferInvariant, PTL DEF Inv

\* Behind the adapter, as behind every client, a replayed event resumes nothing.
THEOREM AdapterReplaysRefused == AdapterSpec => []ReplayRefused
  BY AdapterIsAClient, ReplaysRefused, PTL

=============================================================================
