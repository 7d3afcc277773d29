# A formal model of LangGraph Cloud

TLA+ modules, TLC configurations and TLAPS proofs for the service and the client
under `src/app`: a FastAPI server that runs workflows with people in the loop. A
workflow is a graph of *action* nodes, *interrupt* nodes (gates, where a person
decides) and *terminal* nodes. The server runs a task up to the next gate,
publishes an interrupt event, waits for a callback, and goes on from there.

All paths below are relative to `src/app` unless they begin with `src/`.

## 1. The system

| Part | State | Operations | Interacts with |
|---|---|---|---|
| Task service, `service/task_service.py` | none | `create_task`, `get_task`, `callback` | calls every other part, in a fixed order |
| Executor, `workflow/executor.py` | a `MemorySaver` (lines 68-75) | `execute`, `resume`, `_handle_interrupt` | LangGraph, message bus, Kafka |
| Builder, `workflow/builder.py` | none | `build`, `get_interrupt_node_ids`, `get_node_config`, `_evaluate_condition` | read by service and executor |
| Shipped workflows, `workflow/config/*.yml` | three files | | loaded at start-up |
| Task repository, `infrastructure/sqlite_repository.py` | table `tasks` | `create`, `get`, `update_status`, `update_pending_callback`, `clear_pending_callback` | service |
| Event store, `infrastructure/event_store.py` | `events.consumed` | `is_consumed`, `mark_consumed` | service; shares its table with the bus |
| Message bus, `infrastructure/sqlite_bus.py` | table `events`, listener queues, one `asyncio.Event` per user | `publish`, `subscribe`, `register_listener`, `unregister_listener` | executor, WebSocket |
| WebSocket endpoint, `api/routes.py` | one queue per connection | accept, deliver, ping, close | bus, client |
| Workflow versions, `infrastructure/workflow_repo.py`, `api/main.py:59-80` | table `workflow_versions`, YAML files | `save_version`, `get_active`, `get_by_version`, `list_orchestrations` | start-up, service, routes |
| REST routes, `api/routes.py` | none | `POST /v1/tasks`, `GET /v1/tasks/{id}`, `POST .../callback`, `GET /v1/orchestrations...` | service, versions |
| Adapter, `api/adapter.py` | none | `submit`, `decide`, `status` | service |
| Kafka producer, `infrastructure/kafka_producer.py` | a connection | `send` | executor, devices |
| Client SDK, `client_sdk/` | a connection, a task cache, a mode | connect with backoff, disconnect, poll, close | the API |
| Checkpointer, `workflow/checkpointer.py` | table `checkpoints` | `aput`, `aget_tuple`, `alist` | never constructed by the application |

What is hard here:

* **Interleaving.** Every request is a coroutine and every storage call an
  `await` with a transaction of its own. `create_task` and `callback` are
  sequences of about ten such steps over four stores (row, event, consumed flag,
  thread) with no lock across them.
* **Publication before persistence.** A client may answer an interrupt event
  before the row says that the task awaits anybody.
* **Two memories.** Tasks and events are in SQLite, threads in process memory: a
  restart keeps one and loses the other.
* **Replay and double answers.** One event must move one task once; delivery by
  `subscribe` writes the very flag that decides it.
* **Routing on resume.** `aupdate_state` takes the edge out of the node that ran
  last once more, on the new values.
* **Retries from outside.** A device repeats its decision when it hears nothing;
  `decide` reads the row and then calls `callback`.
* **Reloading.** Every start writes the YAML files over the stored versions that
  running tasks are pinned to.
* **Cancellation.** `disconnect()` and `close()` may find the client at any await.

What makes each part correct: the row GET shows must tell the truth about the
thread; an offer (`pending_callback`) must be answerable; a decision must take
the branch it names; a gate must not be passed without a decision; a replay must
be refused; no input may be lost; every request must be answered, and a task
whose people answer must end (service). `decide` answers the question it was
asked, once (adapter). Whoever is connected misses nothing, nobody's queue
outlives him (bus). A task keeps the configuration it was created with, and a
workflow its one active version (versions). A client that lost its connection
comes back, and one that was closed is closed (SDK).

## 2. Modules

```
WorkflowBuilder -- LangGraph -- TaskService -- TaskServiceProperties --+-- MCTaskService
      |                                              |                 +-- TaskServiceProofs -- OrderProofs -- PromiseProofs
      +-- Workflows (with MCTaskService, MCAdapter,  |                 +-- Adapter --+-- MCAdapter
                     PromiseProofs)               HumanInTheLoop                     +-- AdapterProofs
                                                  (INSTANCE)
MessageBus --+-- EventFeed (INSTANCE)     WebSocketClient --+-- LangGraphClient -- MCLangGraphClient
             +-- MessageBusProofs                           +-- WebSocketClientProofs
WorkflowVersions --+-- MCWorkflowVersions
                   +-- WorkflowVersionsProofs
```

`AdapterProofs` extends `TaskServiceProofs`, too, and so takes over its theorems.
`MessageBusProofs`, `WorkflowVersionsProofs` and `WebSocketClientProofs` extend
`Induction`.

* `WorkflowBuilder`: the graph `builder.py` builds, as operators on a
  configuration. `Route` is `route_function`, `Edge` is `_add_edges`,
  `MatchedTransition` the service's search for the action. A condition is
  `var == val`, the only form the shipped files use.
* `Workflows`: the three YAML files.
* `LangGraph` (external): a thread is its newest checkpoint: the node that wrote
  it, the next node, the values. `Started`, `Updated` and `Executed` are
  `astream(input)`, `aupdate_state(update)` and one superstep.
* `TaskService`: one process per HTTP request. The request that creates a task
  has the task's name; callbacks are `Requests`.
* `HumanInTheLoop`: the abstract specification: a task stops at a gate, asks one
  fresh question, and moves on to a stop some decision leads to, only after it
  is answered. `Safe` is its steps, `Spec` adds that stops and questions come.
* `Adapter`: `decide` in front of the callbacks of `TaskService`, the Kafka topic
  and the device behind it. Composition by conjunction: every action is one of
  `TaskService`'s with the adapter's state beside it, or leaves `TaskService` alone.
* `MessageBus`: one user's bus with its three users at once, publishers, iterators
  of `subscribe` and WebSocket connections. It implements `EventFeed`: everybody
  sees what was stored, once and in order.
* `WorkflowVersions`: the table, its loading at every start, operators, and tasks
  pinned to a version.
* `WebSocketClient`, `LangGraphClient`: the client object with its loop, its
  listening task and `disconnect()`; the modes, the cache and `close()` on top.
* `TaskServiceProperties`: type invariant, properties, inductive invariants, the
  refinement mapping, fairness. The smaller modules hold their own.
* `MC...`: constants for TLC; `MCTaskService` also checks that the shipped
  workflow meets the hypothesis of `CompletionNeedsSomebody`.
* `...Proofs`: theorems and proofs. `Induction`: three lemmas that let them reason
  by induction.

### TaskService: state

| Variable | In the code |
|---|---|
| `row` | a row of `tasks`: status (`awaiting_<n>` is `status = "awaiting", at = n`), pending callback, and the set of callbacks whose `user_input` the data is merged from |
| `event` | the row of `events` each process has published (a process publishes at most one) |
| `consumed` | the ids with `consumed = 1` |
| `checkpoint` | the `MemorySaver`: newest checkpoint of each thread |
| `loop` | the thread as a running `astream` holds it |
| `pc`, `request`, `result` | where each coroutine is, its body, its `ExecutionResult` |
| `restarts` | counts restarts, bounded by `MaxRestarts` |
| `late`, `resumed`, `gates` | history, read by properties only |

### TaskService: actions, in the order of the code

`create_task`: `CreateRow`, `StartStream`, then the executor.
`callback`: `Submit` (the request arrives), `IsConsumed`, `MarkConsumed`,
`Validate`, `ClearPending`, `UpdateState`, `ResumeStream`, then the executor.
Executor and tail of both: `RunNode` per superstep, `EndStream`, `GetState`,
`Publish`, `UpdateStatus`, `UpdatePending`; after an exception `PublishError`,
`UpdateStatus`. `RaiseInGraph` is an exception inside the executor's `try`,
`Raise` one outside it, `Restart` a kill of the process at any point.

`Client` says what a callback may carry. `careful` polls, answers what GET shows
with a valid decision and waits for the reply. `push` answers, validly, any
interrupt event published so far, also one that was answered. `any` sends any
body; all bodies the validation refuses are represented by one.

### Adapter

`kafka` holds the interrupts that reached the topic, `decide` the calls of
`decide()` that have not reached `callback()`: step, event, node. `Decide` is the
device's POST, `GetTask` the row read and its two refusals (404, 400),
`MapDecision` the mapping of the word and the call of `callback()` (which is
`TaskService`'s `Submit` with the node and the action the adapter chose),
`DecideFails` an exception outside the `try` (500), `Announce` is `Publish` with the
message reaching Kafka or not, `AdapterRestart` a `Restart` that also takes the
calls under way. `Serve` is everything else the service does.

The device may repeat a decision as often as it likes, with any words. Nothing in
`decide` or `callback` looks whether an earlier call about the same event still
runs, so whether one does is up to the device: with `Waits = TRUE` it waits for the
answer (or for the server to die) before it repeats itself, with `Waits = FALSE` it
has a timeout of its own and repeats itself at any time. What is said of a waiting
device is an assumption on the device, not something the adapter ensures.

### MessageBus

An action is what runs between two awaits that suspend. `log` is the table in the
order of its ids, `listeners` the list of queues, `reader` where each iterator of
`subscribe` is and the rows it has fetched (a set: they come in the order of their
ids, so `NextRow` is the first of them in `log`), `conn` each connection with its queue
and whether its peer is still there. `Insert` and `Push` are the two halves of
`publish` around its commit; `ReadRows`, `MarkRow` or `MarkFails`, `Yield`, `Wait`
the loop of `subscribe`; `Accept`, `SendNext`, `Timeout` and `Close` the endpoint;
`Answer` a callback's use of the shared flag. The `asyncio.Event` is not a
variable: `clear()` is followed by `wait()` with nothing between, so a set flag is
never seen, and `Push` wakes exactly those who wait. Users share nothing.

### WorkflowVersions

`table` is `workflow_versions`, `file` the YAML files, `toLoad` and `serving` where
the start-up is, `task` what each `POST /v1/tasks` has read and pinned, `used` the
configurations requests about it have worked with. `Load`, `Serve`, `Restart`
(at any await, also between two files), `SaveByHand`, `EditFile`, `GetActive`,
`CreateTask`, `UseVersion`. `SaveByHand` is any call of `save_version`, also one that
makes the active version inactive. What operators give other contents to, once it
is there, is the constant `Overwritten`: files (`EditFile` then changes and removes
them, too), saved versions (which `save_version` allows and
`src/tests/unit/test_workflow_repo.py:94-111` tests), both, or neither. `Page`,
`Offset` and `Total` are `list_orchestrations`, for the page sizes `PageSizes`.

### WebSocketClient and LangGraphClient

`loop`, `task` and `dis` are where `connect()`, the listening task and
`disconnect()` are; `stop`, `flag`, `connection`, `listenTask` the attributes of
the object; `socket` the socket last opened. `Connect`, `ConnectOk`,
`ConnectFail`, `Wake`, `Resume`; `ListenStart`, `ListenEnd`, `Cancelled`;
`Disconnect`, `AfterCancel`, `AfterClose`; `ServerClose` is the server's.
`LangGraphClient` adds `truth` (status on the server), `cache`, `mode`, the
pollers and one call of the user; a GET is two steps, what the server reads and
what the client receives.

### Assumptions on LangGraph

The library is not in the repository. The model takes from its use in
`executor.py` and from the tests that: `aupdate_state` without `as_node` writes
as the node that wrote the newest checkpoint, which evaluates that node's edge
again; `astream(None)` is not stopped by the interrupt it resumes from;
`aget_state` returns the newest checkpoint of the thread; a checkpoint is saved
after each superstep; two runs of one thread do not exclude each other. Reading
the update and loading it into a run are two steps of the model, which allows at
least the interleavings of the library. The library's recursion limit, which ends
a run that meets no stop with an exception, is left out: in the shipped workflows
no run is endless, which `EveryCallAnswered` confirms for the inquiry.

## 3. What the runs check

Runs that pass:

| Run | Module | Setting | Properties |
|---|---|---|---|
| `Failures` | `MCTaskService` | inquiry, 1 task, 2 callbacks, `any`, exceptions, 1 restart | `TypeOK`, `PendingIsPublished`, `ReplayRefused`, `InputsKept`, `GateNeedsDecision`, `NobodyCompletesAlone`, `EveryCallAnswered` |
| `Approval` | `MCTaskService` | purchase request, 2 tasks, 4 callbacks, `careful` | `RowMatchesThread`, `PendingOnlyWhenAwaiting`, `OfferIsOpen`, `DecisionHonoured`, `TasksEnd`, `KeepsPromise` (implements `HumanInTheLoop`, with its liveness) |
| `Decide` | `MCAdapter` | purchase request, 1 task, 3 decisions of a device that waits, exceptions, 1 restart | `AnswersItsQuestion`, `OneWriter`, `DecisionsGetThrough` |
| `Bus` | `MessageBus` | 2 messages, 1 iterator, 2 connections, failing marks, 1 restart | `ListenersAreOpen`, `NoGap`, `ReadersOnceInOrder` (implements `EventFeed`), `GoneArePurged`, `ReadersCatchUp` |
| `Versions` | `MCWorkflowVersions` | 2 names, 2 versions, 2 configurations, 2 tasks, 2 restarts, page sizes 1 to 3; files and versions are added, activated, deactivated, not overwritten | `TypeOK`, `OneActive`, `OneConfig`, `PagesComplete`, `StaysAvailable` |
| `Client` | `MCLangGraphClient` | 1 task with 2 statuses, 2 pollers, 2 failures in a row, delays 2 to 3 | `Backoff`, `QuietIsClosed`, `ComesBack`, `DisconnectEnds`, `PollingCatchesUp`, `CloseQuiets` |

The picture they give: *whatever* clients send and whatever fails, rows, offers,
inputs and gates stay consistent with what was published and decided, a late
replay is refused, and every request ends. For clients that wait their turn, on
a server that does not fail, the system is a human in the loop in the full sense.
Behind the adapter a device may repeat itself after any failure, refusal or
restart and never has two processes at work on one task, because `decide` turns
away what comes before the offer is stored, and it does so before the event is
used up. This needs a device that waits for its answers. One that does not, because
it has a timeout, gets two calls of `decide` through to one event:
`BugDoubleAnswer`.

What ends a task is not told apart. Approval and refusal at a last gate are both
`END`, for the code as for the model, so `DecisionHonoured` and `KeepsPromise` say
that a decision leads to the stop it names, and not with which terminal node;
`TasksEnd` says that a task ends, and not how (see the first deviation below).

Runs that find a violation. Each states what a document, comment or
configuration of the repository says; PROJECT.json quotes it.

| Run | Property | What happens |
|---|---|---|
| `BugDoubleAnswer` (`MCAdapter`) | `ExactlyOnce` | a device repeats `decide` while its first call runs: two callbacks pass `is_consumed` before either marks; the result of `mark_consumed` is dropped. `AdapterIsAClient` makes it a behaviour of `POST .../callback`, too |
| `BugEarlyAnswer` | `PendingOnlyWhenAwaiting` | an early answer is overwritten by the tail of `create_task` |
| `BugPausedTodo` | `DecisionHonoured` | pause, then start, completes a todo task |
| `BugChangedConfig` | `OneConfig` | a YAML file changed between stop and start replaces `v1`, to which running tasks are pinned |
| `BugDeliveredEvent` | `DeliveredIsAnswerable` | `subscribe` consumes the event it hands out, so its answer is refused |
| `BugLeakedConnection` | `DisconnectedIsClosed` | `disconnect()` during the connection attempt returns, and the socket is opened after it |

### Other deviations met

They follow from single lines, so that a run would only restate them.

* A rejected request ends as `completed`. `workflow/config/purchase_request.yml:118`
  declares `status: rejected` for the terminal node `rejected`,
  `_create_terminal_node` (`workflow/builder.py:164-169`) was written to set it, and
  `src/tests/e2e/test_polling_mode.py:292` polls for it among other statuses. But
  edges to a terminal node go to `END` (`workflow/builder.py:212-219`), so no terminal
  node ever runs, and what a task ends with is always `completed`
  (`workflow/executor.py:138, 217`). No field of the row tells how it ended.
* Two calls of `decide` about one event may overlap (`api/adapter.py:74-128`); the
  only check is that of `callback`, which both pass (`service/task_service.py:161-165`).
* `save_version` overwrites a version with other contents, whether tasks are pinned
  to it or not, and saves the active version as inactive, which leaves the workflow
  without one: `create_task` then answers 404 (`infrastructure/workflow_repo.py:98-138`).
* A callback refused by validation has used up its event
  (`service/task_service.py:165` before 185); GET goes on showing it.
* The node of a callback is not compared with the node the task is stopped at
  (`service/task_service.py:185`).
* After a restart a callback starts its workflow from the entry, since the
  `MemorySaver` is empty (`workflow/executor.py:75`).
* A crash between `update_status` and `update_pending_callback`
  (`service/task_service.py:100-104`) leaves a task that awaits a node and shows
  no pending callback; `decide` then refuses every decision.
* With two callbacks on one thread, one may read the other's checkpoint in mid-run
  and publish an event that names an action node (`workflow/executor.py:120-123`).
* At a gate with one transition any word given to `decide` takes it, a refusal
  included (`api/adapter.py:207`, against line 174 and its "or reject").
* A version activated by hand is deactivated by the next start, which saves `v1`
  as active (`api/main.py:75`, called idempotent in line 74).
* When the server closes the connection, `_listen` returns normally: the loop
  reconnects without any delay and `is_connected` stays true meanwhile
  (`client_sdk/websocket_client.py:139`).
* `connect()` returns only when the client has been disconnected: `async with` and
  the CLI's WebSocket mode wait for it for ever
  (`client_sdk/websocket_client.py:227`, `client_sdk/cli.py:290`).
* The poller makes a new event of every known task at every poll, under an id the
  server never published (`client_sdk/cli.py:220-229`).

`BugPausedTodo` is why the runs use the inquiry and the purchase request: in
those workflows the second evaluation of an edge gives a wrong next node never,
or never a visible one.

### Bounds

* **Tasks.** Processes of different tasks share the events table, the consumed
  flags and nothing else; two tasks show every way one could disturb the other,
  and one suffices where the clients of the run answer one task.
* **Requests.** Two callbacks are the smallest number that race. Four answer both
  gates of two purchase requests. Three decisions of a device are the answers to
  two gates and one repetition.
* **Restarts.** One separates what survives from what does not; requests sent
  before and after it are both in the run. `Versions` has two, so that a start
  that was cut short is followed by a whole one. The proofs cover any number.
* **Events** are named after their publisher (every uuid is fresh), so no bound
  on them is needed in `TaskService`; the bus has two messages, enough for an
  order, and for one before and one after any step.
* **Connections.** Two: one that stays and one that comes or goes. One iterator;
  a second one races it for rows, which are whose comes first.
* **Client.** `MaxFails = 2` reaches the cap of the delay (2, then 3 instead of 4).
  `MaxCalls = 1`: `LangGraphClient` makes one `WebSocketClient` per call. Two
  pollers: the one `close()` left asleep and its successor. Two statuses: old, new.
* **Interchangeable things** (requests of a device, messages, iterators,
  connections, pollers) enter in one order, by `CHOOSE`: any other order is a
  renaming. Symmetry sets are used in a run without liveness only (`Versions`:
  its `PROPERTY` is a step property).
* `CHECK_DEADLOCK FALSE` everywhere: a system with a bounded number of requests
  stops when they are answered.

### Fairness

* `FairSpec` (service): weak fairness of each process' own steps: the event loop
  runs every coroutine that can run, SQLite calls return (or raise), action nodes
  return. None for `Submit`, exceptions or restarts: people and failures owe
  nothing. `ServedSpec` adds weak fairness of `Submit`, used in `Approval`: both
  tasks complete only if people answer. A request whose process died in a restart
  counts as answered (its connection is closed). No call and no task leaves its
  last status, so "not for ever under way" (`[]<>`) says the same as "leads to" and
  is much cheaper to check.
* `FairAdapter`: the same; the device repeats its decision (weak fairness of
  `Decide`), and strong fairness of `GetTask` and `MapDecision`: not every read of
  the database raises. `DecisionsGetThrough` gives up where a process of the task
  has failed or died, or the run has no request left.
* `MessageBus`: weak fairness of `Push`, of an iterator's steps, of `SendNext` and
  `Timeout`. Messages end, so a connection is idle once and its timer fires.
* `Client`: weak fairness of what the client's event loop runs and of the server's
  closing of idle connections (`api/routes.py:229`), strong fairness of a
  successful connection attempt and of an answered GET: a server that is tried
  again and again is there once. None for `disconnect()` or `close()`.

### Mutants

The definitions marked *Mutant* stand beside the definition they change and are
used by no specification. Each is a plausible slip in that line of code, such as
a stop without `interrupt_before`, data that replaces instead of merging, a
consumed table in memory, a queue that replaces the others, or a delay that is
not reset. With each in place of the original, TLC finds the property named in
PROJECT.json violated.

## 4. What is proved

For all values of the constants, under the named assumptions that TLC evaluates in
every run (`NamesAssumption`, `ConfigAssumption`, `EnvironmentAssumption`;
`DeviceAssumption`; `VersionsAssumption`; `DelayAssumption`; `BusAssumption`):

| Theorem | Says | Argument |
|---|---|---|
| `TypeCorrect` | `Spec => []TypeOK` | `TypeInv` = `TypeOK` and `LabelInv`: a process at "clear" or "update" carries an accepted decision, so the data it resumes with is typed |
| `ReplaysRefused` | `Spec => []ReplayRefused` | `ReplayInv`: the event of a callback past the mark stays consumed, so a later request for it is at the check or answered |
| `GatesNeedDecisions` | `Spec => []GateNeedsDecision` | `GateInv`: only the label "resume" may run a gate; it belongs to a callback that has resumed, is left by the step that runs the gate and never re-entered |
| `CompletionNeedsSomebody` | `Spec => []NobodyCompletesAlone`, if the entry is guarded | `AloneInv(G)`: until a callback has resumed a task, its thread is in `G`, a set of nodes left only through gates |
| `InputsAreKept` | `Spec => []InputsKept` | `InputsInv`: an accepted callback works on a row that exists, so the `INSERT` of `create_task` cannot come after it |
| `OffersArePublished` | `Spec => []PendingIsPublished` | `OfferInv`: who is about to offer has published; who was offered has finished and publishes no more |
| `RowsAreTrue`, `OffersOnlyWhileAwaiting`, `OffersStayOpen` (`OrderProofs`) | `RowMatchesThread`, `PendingOnlyWhenAwaiting`, `OfferIsOpen`, if clients are careful and nothing fails | `OrderInv`: at most one process is at work on a task; what it may rely on at each label (`Asking`, `Executing`); nobody at work means waiting or over. Lemma `StepOf` says once what a step of one process leaves to the others; each action then shows only its own task |
| `AdapterIsAClient` (`AdapterProofs`) | `AdapterSpec => Spec` | every step of the adapter is a step of the service or a stutter |
| `AdapterReplaysRefused` | `ReplayRefused` behind the adapter | by the refinement |
| `OneWriterAtATime` | `AdapterSpec => []OneWriter`, if the device waits (`Waits`) | `OneHolder`: the right to work on a task is held by one process, as the one at work or as the one whose announced event is unused; a decision takes it over when it marks the event, and `decide` lets it through only when its holder has stored its offer (`OfferedInv`, `SentInv`, `AskedInv`) |
| `DecisionsMeetTheirQuestion` | `AdapterSpec => []AnswersItsQuestion`, if the device waits | `NodeInv`: the node read by `decide` is the node of the event, or the event is already used and the replay check refuses it |
| `TypeCorrect`, `ActiveIsUnique`, `AvailabilityIsKept` (`WorkflowVersionsProofs`) | `TypeOK`, `OneActive`, `StaysAvailable` | `LoadInv`: a starting server loads files that are there; one transaction takes and gives the flag, so only `SaveByHand` of the active version as inactive loses it (`SavedStays`) |
| `VersionsKeepTheirMeaning` | `OneConfig`, if operators overwrite neither files nor saved versions (`Overwritten = {}`) | `PinnedInv`: the first version of a workflow with a file *is* the file, a task's row names a version that means its configuration |
| `PagesAreComplete` | `PagesComplete`, for any number of names and any set `PageSizes` | `OneActive`: the active rows and the active names are equally many, so the total is the number of rows, and the row at position `i` is on page `1 + (i - 1) \div size`. There are finitely many active rows, by induction over the steps |
| `QuietLeavesNothingOpen` (`WebSocketClientProofs`) | `WSSpec => []QuietIsClosed` | `SocketInv`: an open socket has a listening task that `connect()` awaits and `disconnect()` can find, or a `disconnect()` about to close it |
| `BackoffHolds` | `WSSpec => []Backoff` | `DelayInv`: the delay is the capped double of the last one, at every await; doubling a capped value and capping it once more is capping the doubled one (`CappedTwice`) |
| `RegisteredAreOpen`, `NothingMissed` (`MessageBusProofs`) | `ListenersAreOpen`, `NoGap` | `ConnectionInv`: a connection counts from what had been pushed when it registered; a push goes to the registered, which are the open ones, and a message leaves a queue only for the socket |
| `BusInvariant`, `FeedImplemented` | `Spec => ReadersOnceInOrder`: every step of the bus is a step of `EventFeed` or a stutter | `FeedInv`: what an iterator has fetched is stored after all it has yielded (`Held`), and whatever is stored before either is consumed or fetched too (`Leading`), so no later read can bring an older message |
| `DecisionsAreHonoured` (`PromiseProofs`) | `DecisionHonoured`, if clients are careful, nothing fails and `DecisionsLeadOn` | `HonourInv`: a thread's next node is where its last edge leads; a process under way has, at every label, the stop of its decision ahead (`Heading`) |
| `PromiseKept` | `Spec => Promise!Safe` under the same hypotheses: the service implements the safety part of `HumanInTheLoop` | `StageInv`: until a process writes the new status, the row still says "pending" or the gate that was answered, with no question open. `Frame`: a step of one process changes the image of no other task. Each action is then one of the abstract ones (`OpenStep`, `MarkStep`, `StopStep`, `OfferStep`) or hidden |
| `ShippedDecisionsAreHonoured`, `ShippedPromiseKept` | the two above for the purchase request and the inquiry, with no hypothesis on the workflow | `PurchaseLeadsOn`, `InquiryLeadsOn`: `DecisionsLeadOn` by the cases of gates and actions |

Hardly any of these properties is inductive: each speaks of the result, not of what
the processes under way have established. The invariants named add that. Each
was checked by TLC before it was proved. The lemmas at the top of
`TaskServiceProofs` give the types of the graph operators: an edge ends in a node
or in `END`; starting, resuming and running a thread give a thread.

`DecisionsLeadOn` is the hypothesis that says what the workflow must do for
`aupdate_state` to be harmless: the edge into a gate, taken again on the values
with the decision's form merged in, must lead where the decision's transition
does. The purchase request and the inquiry meet it, which is proved, whatever
values the data hold. The todo workflow does not: `MCTaskService` has TLC evaluate
`Config # TodoWorkflow <=> DecisionsLeadOn(Written)`, with the values that its forms
write, in the runs of all three workflows, and `BugPausedTodo` shows what follows
from it.

On induction. The theorems of the library that take a predicate cannot be
instantiated here, but a *set* can stand for the predicate: `SetInduction` (a set
with 0 that contains `n + 1` with `n` contains `Nat`) is proved in `Induction` from
the library's facts on finite sets, with `LeastNatural` and `Repetition` (the
iteration of a function exists). They carry what is said of a recursively defined
function (`Doubled`) and of pages. `StopFrom` recurses over the graph, where action
nodes may run in circles and no induction applies; `StopIs` proves that its
equation has a solution nevertheless (the stops a run meets, as the smallest closed
set), and the equation at the nodes a thread meets is all the proofs use.

Model-checked only is everything about liveness, which is out of the prover's
reach, as is `ENABLED`: `EveryCallAnswered`, `TasksEnd`, `DecisionsGetThrough`,
`GoneArePurged`, `ReadersCatchUp`, `ComesBack`, `DisconnectEnds`,
`PollingCatchesUp`, `CloseQuiets`, and the fairness of `KeepsPromise`, whose safety
part is `PromiseKept`. The type invariants, safety invariants and step properties
of the passing runs are all proved, under the hypotheses the table names.

## 5. What is not modelled

* **InteractiveCLI** (`client_sdk/cli.py:255-478`): its first input raises
  (`await self._get_input(...).strip()` asks a coroutine for `strip`, line 307), so
  no behaviour follows. `LangGraphClient.callback` (136-165) cannot build its
  request, whose field `action` is required. Pending events (234-244) are a
  dictionary that only these two read.
* **SQLiteSaver** (`workflow/checkpointer.py`): never constructed, since
  `api/main.py:109` passes no checkpointer. As written it could not serve
  LangGraph: `aget_tuple` needs a `checkpoint_id`, which LangGraph does not give
  when it asks for the newest checkpoint; `aput` passes the bytes of `dumps_typed`
  to `json.dumps`, and takes the id of the parent for that of the child.
* **Formatting**: Kafka payloads, display data, the fields of schemas, columns that
  are written once and decide nothing (user, timestamps).
* **Scripts, tests, documents**: no state of the running system.
* **Statements outside a transaction**: the COUNT and the SELECT of
  `list_orchestrations` are one state of the model; a version saved between them
  could make `total` disagree with the pages of that moment.
