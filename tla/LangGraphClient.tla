--------------------------- MODULE LangGraphClient ---------------------------
(***************************************************************************)
(* The client of app/client_sdk/cli.py: the WebSocket mode over            *)
(* WebSocketClient, the polling mode over GET /v1/tasks/{id}, the cache of *)
(* tasks both write, and close().                                          *)
(*                                                                         *)
(* A GET is two steps, what the server reads and what the client receives. *)
(* The status of a task is the number of changes it has gone through.      *)
(***************************************************************************)
EXTENDS WebSocketClient

CONSTANTS
    Tasks,
    Pollers,      \* tasks started by run_polling_mode()
    Unknown,      \* a task that is not in the cache, or not on the server
    Last          \* the last status of every task

VARIABLES
    truth,     \* status on the server
    mode,      \* "idle", "websocket" or "polling"
    cache,     \* _task_cache: the status of each known task
    poller,    \* poller(): where it is, the tasks it has yet to ask for in this round,
               \* and the answer it holds
    user,      \* create_task() or get_task() called by the user, likewise
    closing    \* close(): "no", "disconnect" (awaited) or "http"

sdk == <<mode, cache, poller, user, closing>>
vars == <<wsVars, truth, sdk>>

Call(at, t, s) == [at |-> at, task |-> t, status |-> s]
NoCall == Call("none", Unknown, Unknown)
Poller(at, todo, call) == [at |-> at, todo |-> todo, call |-> call]

Init ==
    /\ WSInit
    /\ truth = [t \in Tasks |-> Unknown]
    /\ mode = "idle"
    /\ cache = [t \in Tasks |-> Unknown]
    /\ poller = [p \in Pollers |-> Poller("off", {}, NoCall)]
    /\ user = NoCall
    /\ closing = "no"

Known == {t \in Tasks : cache[t] # Unknown}

------------------------------------------------------------------------------
(* The user's calls                                                        *)

\* create_task of a new task, get_task of any other.
UserCalls(t) ==
    /\ user = NoCall
    /\ truth' = [truth EXCEPT ![t] = IF @ = Unknown THEN 0 ELSE @]
    /\ user' = Call("answered", t, truth'[t])
    /\ UNCHANGED <<wsVars, mode, cache, poller, closing>>

UserReceives ==
    /\ user.at = "answered"
    /\ cache' = [cache EXCEPT ![user.task] = user.status]
    /\ user' = NoCall
    /\ UNCHANGED <<wsVars, truth, mode, poller, closing>>

TaskMoves(t) ==
    /\ truth[t] # Unknown
    /\ truth[t] < Last
    /\ truth' = [truth EXCEPT ![t] = @ + 1]
    /\ UNCHANGED <<wsVars, sdk>>

------------------------------------------------------------------------------
(* Modes                                                                   *)

RunWebSocket ==
    /\ mode = "idle"
    /\ closing = "no"
    /\ mode' = "websocket"
    /\ Connect
    /\ UNCHANGED <<truth, cache, poller, user, closing>>

\* on_event: a message of the listening task.
EventArrives(t) ==
    /\ task = "running"
    /\ socket = "open"
    /\ truth[t] # Unknown
    /\ cache' = [cache EXCEPT ![t] = truth[t]]
    /\ UNCHANGED <<wsVars, truth, mode, poller, user, closing>>

RunPolling(p) ==
    /\ mode = "idle"
    /\ closing = "no"
    /\ poller[p].at = "off"
    /\ p = CHOOSE q \in Pollers : poller[q].at = "off"
    /\ mode' = "polling"
    /\ poller' = [poller EXCEPT ![p].at = "check"]
    /\ UNCHANGED <<wsVars, truth, cache, user, closing>>

------------------------------------------------------------------------------
(* poller                                                                  *)

Step(p, q) ==
    /\ poller' = [poller EXCEPT ![p] = q]
    /\ UNCHANGED <<wsVars, truth, mode, user, closing>>

\* Mutant: `while True`.
CheckNothing(p) ==
    /\ poller[p].at = "check"
    /\ Step(p, Poller("next", Known, NoCall))
    /\ UNCHANGED cache

\* `while self._mode == "polling"`, and the tasks known at that time.
CheckMode(p) ==
    /\ poller[p].at = "check"
    /\ Step(p, IF mode = "polling" THEN Poller("next", Known, NoCall)
               ELSE Poller("ended", {}, NoCall))
    /\ UNCHANGED cache

Ask(p) ==
    /\ poller[p].at = "next"
    /\ poller[p].todo # {}
    /\ \E t \in poller[p].todo :
          Step(p, Poller("asked", poller[p].todo \ {t}, Call("asked", t, Unknown)))
    /\ UNCHANGED cache

\* The server reads the task.
Answer(p) ==
    /\ poller[p].at = "asked"
    /\ LET t == poller[p].call.task
       IN Step(p, Poller("answered", poller[p].todo, Call("answered", t, truth[t])))
    /\ UNCHANGED cache

\* An HTTP error is no task; any other exception ends the poller, and nobody looks.
AskFails(p) ==
    /\ poller[p].at = "asked"
    /\ \/ Step(p, Poller("next", poller[p].todo, NoCall))
       \/ Step(p, Poller("dead", {}, NoCall))
    /\ UNCHANGED cache

\* Mutant: a task that is in the cache is not replaced there.
FirstSight(p) ==
    /\ poller[p].at = "answered"
    /\ Step(p, Poller("next", poller[p].todo, NoCall))
    /\ UNCHANGED cache

\* get_task and on_event both write the cache.
Receive(p) ==
    /\ poller[p].at = "answered"
    /\ cache' = [cache EXCEPT ![poller[p].call.task] = poller[p].call.status]
    /\ Step(p, Poller("next", poller[p].todo, NoCall))

\* asyncio.sleep(interval).
Sleep(p) ==
    /\ poller[p].at = "next"
    /\ poller[p].todo = {}
    /\ Step(p, Poller("asleep", {}, NoCall))
    /\ UNCHANGED cache

Awake(p) ==
    /\ poller[p].at = "asleep"
    /\ Step(p, Poller("check", {}, NoCall))
    /\ UNCHANGED cache

------------------------------------------------------------------------------
(* close                                                                   *)

\* With a WebSocket client its disconnect() comes first.
CloseStart ==
    /\ closing = "no"
    /\ mode # "idle"
    /\ IF mode = "websocket"
         THEN Disconnect /\ closing' = "disconnect"
         ELSE closing' = "http" /\ UNCHANGED wsVars
    /\ UNCHANGED <<truth, mode, cache, poller, user>>

Disconnected ==
    /\ closing = "disconnect"
    /\ dis = "idle"
    /\ closing' = "http"
    /\ UNCHANGED <<wsVars, truth, mode, cache, poller, user>>

\* aclose() fails the requests under way; then the mode is idle.  A later call, also
\* of a poller that still runs, opens a new HTTP client.
CloseEnd ==
    /\ closing = "http"
    /\ closing' = "no"
    /\ mode' = "idle"
    /\ poller' = [p \in Pollers |->
          IF poller[p].at = "asked" THEN Poller("dead", {}, NoCall) ELSE poller[p]]
    /\ UNCHANGED <<wsVars, truth, cache, user>>

------------------------------------------------------------------------------

Transport == ConnectOk \/ ConnectFail \/ ServerClose \/ Runs

Poll(p) == CheckMode(p) \/ Ask(p) \/ Answer(p) \/ Receive(p) \/ Sleep(p) \/ Awake(p)

Next ==
    \/ \E t \in Tasks : UserCalls(t) \/ TaskMoves(t) \/ EventArrives(t)
    \/ UserReceives
    \/ RunWebSocket
    \/ \E p \in Pollers : RunPolling(p) \/ Poll(p) \/ AskFails(p)
    \/ CloseStart \/ Disconnected \/ CloseEnd
    \/ Transport /\ UNCHANGED <<truth, sdk>>

\* The client's event loop runs what can run; the server closes idle connections,
\* accepts one of many attempts and answers one of many requests.
Spec ==
    /\ Init
    /\ [][Next]_vars
    /\ WF_vars(Runs /\ UNCHANGED <<truth, sdk>>)
    /\ WF_vars(ServerClose /\ UNCHANGED <<truth, sdk>>)
    /\ SF_vars(ConnectOk /\ UNCHANGED <<truth, sdk>>)
    /\ \A p \in Pollers : WF_vars(Poll(p)) /\ SF_vars(Answer(p))
    /\ WF_vars(UserReceives)
    /\ WF_vars(Disconnected \/ CloseEnd)

------------------------------------------------------------------------------

Polls(p) == poller[p].at \notin {"off", "ended", "dead"}

\* While a poller is alive in polling mode, a known task's newest status gets into
\* the cache: no older answer of the user's own calls stays there.
PollingCatchesUp ==
    \A t \in Tasks :
        mode = "polling" /\ cache[t] # Unknown /\ truth[t] = Last
            ~> cache[t] = Last \/ mode # "polling" \/ \A p \in Pollers : ~Polls(p)

\* After close() nothing goes on writing the cache: neither a poller that slept nor
\* a connection that was being opened.
CloseQuiets ==
    mode = "idle" ~> (loop = "idle" /\ \A p \in Pollers : ~Polls(p)) \/ mode # "idle"

=============================================================================
