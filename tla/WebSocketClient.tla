--------------------------- MODULE WebSocketClient ---------------------------
(***************************************************************************)
(* app/client_sdk/websocket_client.py: one object, whose connect() runs    *)
(* the reconnection loop in the task of its caller, with a listening task  *)
(* beside it and a disconnect() from elsewhere.  An action is what runs    *)
(* between two awaits.                                                     *)
(*                                                                         *)
(* connect() is called again only when the last connect() and disconnect() *)
(* have returned; LangGraphClient calls it once per object.  The server    *)
(* and the websockets library are external: a connection attempt succeeds  *)
(* or fails, a connection ends at any time.                                *)
(***************************************************************************)
EXTENDS Naturals

CONSTANTS
    Base, MaxDelay,   \* reconnect_delay, max_reconnect_delay
    MaxFails,         \* bound of successive failures
    MaxCalls          \* bound of the calls of connect()

ASSUME DelayAssumption ==
    Base \in Nat /\ MaxDelay \in Nat /\ MaxFails \in Nat /\ MaxCalls \in Nat

VARIABLES
    stop,         \* _should_stop
    flag,         \* _is_connected
    connection,   \* _connection is not None
    listenTask,   \* _listen_task is not None
    delay,        \* delay of the loop
    loop,         \* connect(): "idle", "connecting", "listening" or "sleeping"
    task,         \* the task last created: "none", "new", "running", "cancelling",
                  \* "returned" or "cancelled"
    socket,       \* the socket last opened: "none", "open" or "closed"
    dis,          \* disconnect(): "idle", "cancel" or "close"
    fails,        \* history: failures since the loop began or last connected
    calls         \* connect() calls so far

fields == <<stop, flag, connection, listenTask>>
wsVars == <<fields, delay, loop, task, socket, dis, fails, calls>>

Least(a, b) == IF a < b THEN a ELSE b

WSInit ==
    /\ stop = FALSE
    /\ flag = FALSE
    /\ connection = FALSE
    /\ listenTask = FALSE
    /\ delay = Base
    /\ loop = "idle"
    /\ task = "none"
    /\ socket = "none"
    /\ dis = "idle"
    /\ fails = 0
    /\ calls = 0

------------------------------------------------------------------------------
(* connect                                                                 *)

Connect ==
    /\ calls < MaxCalls
    /\ loop = "idle"
    /\ dis = "idle"
    /\ calls' = calls + 1
    /\ stop' = FALSE
    /\ loop' = "connecting"
    /\ delay' = Base
    /\ fails' = 0
    /\ UNCHANGED <<flag, connection, listenTask, task, socket, dis>>

\* Mutant: the delay of the last failures is kept.
KeptDelay == delay

\* "Reset delay on successful connection."
ResetDelay == Base

\* websockets.connect() returns.  _should_stop is not looked at again.
ConnectOk ==
    /\ loop = "connecting"
    /\ socket' = "open"
    /\ connection' = TRUE
    /\ flag' = TRUE
    /\ delay' = ResetDelay
    /\ fails' = 0
    /\ task' = "new"
    /\ listenTask' = TRUE
    /\ loop' = "listening"
    /\ UNCHANGED <<stop, dis, calls>>

\* Mutant: the first failure ends the loop.
GivesUp == "idle"

AfterFailure == IF stop THEN "idle" ELSE "sleeping"

\* websockets.connect() raises.
ConnectFail ==
    /\ loop = "connecting"
    /\ fails < MaxFails
    /\ flag' = FALSE
    /\ fails' = fails + 1
    /\ loop' = AfterFailure
    /\ UNCHANGED <<stop, connection, listenTask, delay, task, socket, dis, calls>>

\* current_delay.
Pause == Least(delay, MaxDelay)

\* Mutant: a client that slept connects once more.
Continues == loop' = "connecting" /\ UNCHANGED flag

\* The head of the loop: `while not self._should_stop`, and what follows it.
Iterate ==
    IF stop THEN loop' = "idle" /\ flag' = FALSE
    ELSE loop' = "connecting" /\ UNCHANGED flag

Wake ==
    /\ loop = "sleeping"
    /\ delay' = Least(delay * 2, MaxDelay)
    /\ Iterate
    /\ UNCHANGED <<stop, connection, listenTask, task, socket, dis, fails, calls>>

\* The awaited listening task ends: returned, the loop goes on at once, with
\* _is_connected still set; cancelled, it breaks off.
Resume ==
    /\ loop = "listening"
    /\ \/ task = "returned" /\ Iterate
       \/ task = "cancelled" /\ loop' = "idle" /\ flag' = FALSE
    /\ UNCHANGED <<stop, connection, listenTask, delay, task, socket, dis, fails, calls>>

------------------------------------------------------------------------------
(* _listen                                                                 *)

ListenStart ==
    /\ task = "new"
    /\ task' = IF connection THEN "running" ELSE "returned"
    /\ UNCHANGED <<fields, delay, loop, socket, dis, fails, calls>>

\* The messages end with the connection; ConnectionClosed is caught.
ListenEnd ==
    /\ task = "running"
    /\ socket = "closed"
    /\ task' = "returned"
    /\ UNCHANGED <<fields, delay, loop, socket, dis, fails, calls>>

Cancelled ==
    /\ task = "cancelling"
    /\ task' = "cancelled"
    /\ UNCHANGED <<fields, delay, loop, socket, dis, fails, calls>>

\* The server ends an idle connection after a second, or dies.
ServerClose ==
    /\ socket = "open"
    /\ socket' = "closed"
    /\ UNCHANGED <<fields, delay, loop, task, dis, fails, calls>>

------------------------------------------------------------------------------
(* disconnect                                                              *)

\* connection.close() suspends when there is something to close; when it has
\* returned, or at once, the fields are reset.
CloseOrReset ==
    IF connection /\ socket = "open"
      THEN dis' = "close" /\ UNCHANGED <<flag, connection>>
      ELSE dis' = "idle" /\ flag' = FALSE /\ connection' = FALSE

\* A listening task that is not done is cancelled, and awaited.
Disconnect ==
    /\ dis = "idle"
    /\ calls > 0
    /\ stop' = TRUE
    /\ IF listenTask /\ task \in {"new", "running"}
         THEN /\ task' = "cancelling"
              /\ dis' = "cancel"
              /\ UNCHANGED <<flag, connection, listenTask>>
         ELSE /\ listenTask' = FALSE
              /\ CloseOrReset
              /\ UNCHANGED task
    /\ UNCHANGED <<delay, loop, socket, fails, calls>>

AfterCancel ==
    /\ dis = "cancel"
    /\ task = "cancelled"
    /\ listenTask' = FALSE
    /\ CloseOrReset
    /\ UNCHANGED <<stop, delay, loop, task, socket, fails, calls>>

\* Mutant: the socket is only dropped.
DropSocket ==
    /\ dis = "close"
    /\ dis' = "idle"
    /\ flag' = FALSE
    /\ connection' = FALSE
    /\ UNCHANGED <<stop, listenTask, delay, loop, task, socket, fails, calls>>

AfterClose ==
    /\ dis = "close"
    /\ socket' = "closed"
    /\ dis' = "idle"
    /\ flag' = FALSE
    /\ connection' = FALSE
    /\ UNCHANGED <<stop, listenTask, delay, loop, task, fails, calls>>

------------------------------------------------------------------------------

Runs == Wake \/ Resume \/ ListenStart \/ ListenEnd \/ Cancelled \/ AfterCancel \/ AfterClose

WSNext == Connect \/ ConnectOk \/ ConnectFail \/ ServerClose \/ Disconnect \/ Runs

WSSpec == WSInit /\ [][WSNext]_wsVars

------------------------------------------------------------------------------

\* A delay of 1 that has been doubled k times.
Doubled[k \in Nat] == IF k = 0 THEN 1 ELSE 2 * Doubled[k - 1]

\* Between two attempts the loop sleeps the initial delay, doubled for every failure
\* since the last success, but never more than max_reconnect_delay
\* (websocket_client.py:120, 135, 153, 159).
Backoff ==
    loop = "sleeping" => Pause = Least(Base * Doubled[fails - 1], MaxDelay)

\* When connect() and disconnect() have returned no socket is left open and the
\* client does not say it is connected, wherever the one caught the other.
QuietIsClosed ==
    loop = "idle" /\ dis = "idle" => socket # "open" /\ ~flag

\* A client nobody disconnects is connected again and again, for as long as the
\* server accepts a connection once in a while: no failure ends the loop.
ComesBack ==
    loop # "idle" /\ ~stop ~> task = "running" \/ stop

\* disconnect() ends connect(), at the latest when the server closes the connection
\* that was being opened meanwhile.
DisconnectEnds == stop ~> loop = "idle" \/ ~stop

\* "Gracefully closes the connection and stops the background listener task": once
\* disconnect() has returned nothing is open and nobody listens.
DisconnectedIsClosed ==
    stop /\ dis = "idle" => socket # "open" /\ task # "running"

------------------------------------------------------------------------------
(* Why they hold: the inductive invariants                                 *)

\* Types of what decides who holds the socket.
WSTypeOK ==
    /\ stop \in BOOLEAN /\ flag \in BOOLEAN
    /\ connection \in BOOLEAN /\ listenTask \in BOOLEAN
    /\ loop \in {"idle", "connecting", "listening", "sleeping"}
    /\ task \in {"none", "new", "running", "cancelling", "returned", "cancelled"}
    /\ socket \in {"none", "open", "closed"}
    /\ dis \in {"idle", "cancel", "close"}

Listening == {"new", "running", "cancelling"}

\* An open socket has a listening task that connect() awaits and disconnect() can
\* find, or a disconnect() about to close it.
SocketInv ==
    /\ task \in Listening => loop = "listening" /\ listenTask
    /\ task = "cancelling" => dis = "cancel"
    /\ dis # "idle" => loop \in {"listening", "idle"}
    /\ dis = "cancel" => task \in {"cancelling", "cancelled"}
    /\ dis = "close" => task = "cancelled"
    /\ socket = "open" => connection /\ (task \in Listening \/ dis # "idle")
    /\ loop = "idle" => ~flag

WSInv == WSTypeOK /\ SocketInv

\* The delay kept for the next failure is behind by the one it is about to answer
\* while the loop sleeps, and agrees with the failures when it tries or listens.
DelayInv ==
    /\ fails \in Nat
    /\ delay \in Nat
    /\ loop \in {"connecting", "listening"} => Pause = Least(Base * Doubled[fails], MaxDelay)
    /\ loop = "listening" => fails = 0
    /\ loop = "sleeping" => fails > 0 /\ Backoff

=============================================================================
