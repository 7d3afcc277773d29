------------------------------ MODULE MessageBus ------------------------------
(***************************************************************************)
(* The message bus of one user (app/infrastructure/sqlite_bus.py), with    *)
(* the three who use it at once: publish() in the tasks' requests, the     *)
(* iterators of subscribe() and the WebSocket connections of               *)
(* app/api/routes.py; and with the callback, whose replay protection       *)
(* shares the consumed flag of the rows (event_store.py).                  *)
(*                                                                         *)
(* All are coroutines of one event loop: an action is what runs between    *)
(* two awaits that suspend.  put() on an unbounded queue does not.  Users  *)
(* share nothing (every statement and dictionary is keyed by user_id).     *)
(* Messages, iterators and connections are interchangeable: they appear in *)
(* one order, that of CHOOSE.                                              *)
(***************************************************************************)
EXTENDS Sequences, SequencesExt

CONSTANTS
    Messages,      \* event ids, each published once
    Readers,       \* iterators of subscribe()
    Connections,   \* WebSocket connections
    MayFail,       \* marking a row may raise
    MaxRestarts

ASSUME BusAssumption == MayFail \in BOOLEAN /\ MaxRestarts \in Nat

VARIABLES
    log,         \* events table: messages in the order of their ids
    consumed,    \* messages whose row has consumed = 1
    publisher,   \* publish(m): "idle", "push" (committed, not pushed yet) or "done"
    listeners,   \* _listeners: registered connections, in the order of the list
    reader,      \* subscribe(): where it is, and the rows fetched and not handed out,
                 \* which come in the order of their ids
    conn,        \* websocket_endpoint: where it is, its queue, whether the peer lives
    answered,    \* messages a callback was accepted for
    restarts,
    pushed,      \* history: messages in the order they were pushed
    seen,        \* history: what each iterator has yielded
    sent         \* history: of each open connection, the length of `pushed` when it
                 \* registered, and what its peer has been sent

rows == <<log, consumed>>
vars == <<rows, publisher, listeners, reader, conn, answered, restarts, pushed, seen, sent>>

Fresh == [at |-> "new", queue |-> << >>, alive |-> TRUE]
Unsent == [since |-> 0, items |-> << >>]

Init ==
    /\ log = << >>
    /\ consumed = {}
    /\ publisher = [m \in Messages |-> "idle"]
    /\ listeners = << >>
    /\ reader = [s \in Readers |-> [at |-> "new", batch |-> {}]]
    /\ conn = [c \in Connections |-> Fresh]
    /\ answered = {}
    /\ restarts = 0
    /\ pushed = << >>
    /\ seen = [s \in Readers |-> << >>]
    /\ sent = [c \in Connections |-> Unsent]

------------------------------------------------------------------------------
(* publish                                                                 *)

Insert(m) ==
    /\ publisher[m] = "idle"
    /\ m = CHOOSE n \in Messages : publisher[n] = "idle"
    /\ log' = Append(log, m)
    /\ publisher' = [publisher EXCEPT ![m] = "push"]
    /\ UNCHANGED <<consumed, listeners, reader, conn, answered, restarts, pushed, seen, sent>>

Put(m, targets) ==
    [c \in Connections |-> IF c \in targets THEN [conn[c] EXCEPT !.queue = Append(@, m)]
                          ELSE conn[c]]

\* Mutant: a user has one queue, that of the newest connection.
NewestOnly(m) == Put(m, {c \in Range(listeners) : c = Last(listeners)})

PutToAll(m) == Put(m, Range(listeners))

\* Mutant: event.set() is left out.
Asleep(r) == r

Woken(r) == IF r.at = "wait" THEN [r EXCEPT !.at = "read"] ELSE r

\* The message goes into every registered queue, and event.set() wakes the iterators
\* that wait.  The flag itself says nothing: clear() comes right before wait().
Push(m) ==
    /\ publisher[m] = "push"
    /\ publisher' = [publisher EXCEPT ![m] = "done"]
    /\ pushed' = Append(pushed, m)
    /\ conn' = PutToAll(m)
    /\ reader' = [s \in Readers |-> Woken(reader[s])]
    /\ UNCHANGED <<rows, listeners, answered, restarts, seen, sent>>

------------------------------------------------------------------------------
(* subscribe                                                               *)

Subscribe(s) ==
    /\ reader[s].at = "new"
    /\ s = CHOOSE q \in Readers : reader[q].at = "new"
    /\ reader' = [reader EXCEPT ![s].at = "read"]
    /\ UNCHANGED <<rows, publisher, listeners, conn, answered, restarts, pushed, seen, sent>>

Unconsumed == Range(log) \ consumed

\* ORDER BY id: of the rows of the batch, the first in the table.
IsNext(i, table, batch) == table[i] \in batch /\ \A j \in 1..(i - 1) : table[j] \notin batch

First(table, batch) == table[CHOOSE i \in DOMAIN table : IsNext(i, table, batch)]

NextRow(s) == First(log, reader[s].batch)

\* The SELECT; its connection is closed, across an await, before anything else.
ReadRows(s) ==
    /\ reader[s].at = "read"
    /\ reader' = [reader EXCEPT ![s] = [at |-> "row", batch |-> Unconsumed]]
    /\ UNCHANGED <<rows, publisher, listeners, conn, answered, restarts, pushed, seen, sent>>

\* Mutant: the row is handed out without being marked.
UnmarkedRow(s) ==
    /\ reader[s].at = "row"
    /\ reader[s].batch # {}
    /\ reader' = [reader EXCEPT ![s].at = "yield"]
    /\ UNCHANGED <<rows, publisher, listeners, conn, answered, restarts, pushed, seen, sent>>

MarkRow(s) ==
    /\ reader[s].at = "row"
    /\ reader[s].batch # {}
    /\ consumed' = consumed \union {NextRow(s)}
    /\ reader' = [reader EXCEPT ![s].at = "yield"]
    /\ UNCHANGED <<log, publisher, listeners, conn, answered, restarts, pushed, seen, sent>>

Stopped == [at |-> "stopped", batch |-> {}]

\* _mark_consumed raises: it is called again in the except clause, and either
\* succeeds, so the message is consumed and never yielded, or ends the iterator.
MarkFails(s) ==
    /\ MayFail
    /\ reader[s].at = "row"
    /\ reader[s].batch # {}
    /\ \/ /\ consumed' = consumed \union {NextRow(s)}
          /\ reader' = [reader EXCEPT ![s].batch = @ \ {NextRow(s)}]
       \/ /\ reader' = [reader EXCEPT ![s] = Stopped]
          /\ UNCHANGED consumed
    /\ UNCHANGED <<log, publisher, listeners, conn, answered, restarts, pushed, seen, sent>>

Yield(s) ==
    /\ reader[s].at = "yield"
    /\ seen' = [seen EXCEPT ![s] = Append(@, NextRow(s))]
    /\ reader' = [reader EXCEPT ![s] = [at |-> "row", batch |-> @.batch \ {NextRow(s)}]]
    /\ UNCHANGED <<rows, publisher, listeners, conn, answered, restarts, pushed, sent>>

\* event.clear(), event.wait().
Wait(s) ==
    /\ reader[s].at = "row"
    /\ reader[s].batch = {}
    /\ reader' = [reader EXCEPT ![s].at = "wait"]
    /\ UNCHANGED <<rows, publisher, listeners, conn, answered, restarts, pushed, seen, sent>>

\* The consumer breaks off or is cancelled, between any two steps.
StopReading(s) ==
    /\ reader[s].at \in {"read", "row", "yield", "wait"}
    /\ reader' = [reader EXCEPT ![s] = Stopped]
    /\ UNCHANGED <<rows, publisher, listeners, conn, answered, restarts, pushed, seen, sent>>

------------------------------------------------------------------------------
(* The WebSocket endpoint                                                  *)

Register(c) == Append(listeners, c)

\* accept() returns and, with no await between, the queue is registered.
Accept(c) ==
    /\ conn[c].at = "new"
    /\ c = CHOOSE d \in Connections : conn[d].at = "new"
    /\ conn' = [conn EXCEPT ![c].at = "open"]
    /\ listeners' = Register(c)
    /\ sent' = [sent EXCEPT ![c].since = Len(pushed)]
    /\ UNCHANGED <<rows, publisher, reader, answered, restarts, pushed, seen>>

Closed == [at |-> "closed", queue |-> << >>, alive |-> FALSE]

\* Mutant: unregister_listener takes the first queue of the list.
WrongUnregister(c) == Tail(listeners)

Unregister(c) == RemoveFirst(listeners, c)

\* The break and the finally: no await before the queue is unregistered.
Close(c) ==
    /\ conn' = [conn EXCEPT ![c] = Closed]
    /\ listeners' = Unregister(c)
    /\ sent' = [sent EXCEPT ![c] = Unsent]

\* queue.get() and send_json.  To a peer that is gone it raises, or the frame is
\* written to a socket nobody reads.
SendNext(c) ==
    /\ conn[c].at = "open"
    /\ conn[c].queue # << >>
    /\ \/ /\ conn' = [conn EXCEPT ![c].queue = Tail(@)]
          /\ sent' = [sent EXCEPT ![c].items =
                IF conn[c].alive THEN Append(@, Head(conn[c].queue)) ELSE @]
          /\ UNCHANGED listeners
       \/ /\ ~conn[c].alive
          /\ Close(c)
    /\ UNCHANGED <<rows, publisher, reader, answered, restarts, pushed, seen>>

\* Mutant: ping() exists and raises nothing.
PingAnswered(c) == conn[c].at = "open" /\ UNCHANGED vars

\* One second without a message: WebSocket has no method ping(), so the connection
\* ends.  A message may be put while the timer fires.
Timeout(c) ==
    /\ conn[c].at = "open"
    /\ Close(c)
    /\ UNCHANGED <<rows, publisher, reader, answered, restarts, pushed, seen>>

\* The endpoint never receives: it does not notice.
PeerLeaves(c) ==
    /\ conn[c].at = "open"
    /\ conn[c].alive
    /\ conn' = [conn EXCEPT ![c].alive = FALSE]
    /\ UNCHANGED <<rows, publisher, listeners, reader, answered, restarts, pushed, seen, sent>>

------------------------------------------------------------------------------

\* A callback for a message that is not refused as a replay: is_consumed and
\* mark_consumed.
Answer(m) ==
    /\ m \in Range(log) \ consumed
    /\ consumed' = consumed \union {m}
    /\ answered' = answered \union {m}
    /\ UNCHANGED <<log, publisher, listeners, reader, conn, restarts, pushed, seen, sent>>

\* Only the table survives; a message that was not pushed never will be.
Restart ==
    /\ restarts < MaxRestarts
    /\ restarts' = restarts + 1
    /\ publisher' = [m \in Messages |-> IF publisher[m] = "push" THEN "done" ELSE publisher[m]]
    /\ listeners' = << >>
    /\ reader' = [s \in Readers |-> IF reader[s].at = "new" THEN reader[s] ELSE Stopped]
    /\ conn' = [c \in Connections |-> IF conn[c].at = "new" THEN conn[c] ELSE Closed]
    /\ sent' = [c \in Connections |-> Unsent]
    /\ UNCHANGED <<rows, answered, pushed, seen>>

Iterate(s) == ReadRows(s) \/ MarkRow(s) \/ MarkFails(s) \/ Yield(s) \/ Wait(s)

Next ==
    \/ \E m \in Messages : Insert(m) \/ Push(m) \/ Answer(m)
    \/ \E s \in Readers : Subscribe(s) \/ Iterate(s) \/ StopReading(s)
    \/ \E c \in Connections : Accept(c) \/ SendNext(c) \/ Timeout(c) \/ PeerLeaves(c)
    \/ Restart

Spec == Init /\ [][Next]_vars

\* The event loop runs what can run; messages end, so every connection is idle once.
FairSpec ==
    /\ Spec
    /\ \A m \in Messages : WF_vars(Push(m))
    /\ \A s \in Readers : WF_vars(Iterate(s))
    /\ \A c \in Connections : WF_vars(SendNext(c)) /\ WF_vars(Timeout(c))

------------------------------------------------------------------------------

\* The connections with a registered queue are the open ones, each once: no way out
\* of the endpoint leaves a queue behind (routes.py:237-241).
ListenersAreOpen ==
    /\ Range(listeners) = {c \in Connections : conn[c].at = "open"}
    /\ IsInjective(listeners)

\* What was sent and what waits are everything but the first n.
Covers(items, queue, all, n) == items \o queue = SubSeq(all, n + 1, Len(all))

\* A connection's peer gets, or has waiting for it, everything pushed since the
\* connection registered, once and in order, whoever else comes and goes meanwhile
\* (sqlite_bus.py:64-66, routes.py:227).
NoGap ==
    \A c \in Connections : conn[c].at = "open" /\ conn[c].alive =>
        Covers(sent[c].items, conn[c].queue, pushed, sent[c].since)

\* Every iterator is an event feed: what it yields was stored, comes once and in
\* order, with callbacks, failing marks and restarts at work (sqlite_bus.py:90-119).
Feed == INSTANCE EventFeed WITH Listeners <- Readers, stored <- log
ReadersOnceInOrder == Feed!Spec

\* The queue of a peer that left is unregistered, although nothing ever reads from
\* its socket: the failing ping() sees to it (routes.py:229-241).
GoneArePurged ==
    \A c \in Connections : ~conn[c].alive ~> conn[c].at = "closed"

\* An iterator takes every message that is stored when it reads or is pushed while it
\* waits, unless somebody else has: no wake-up is lost once it waits.
ReadersCatchUp ==
    \A s \in Readers, m \in Messages :
        \/ reader[s].at = "read" /\ m \in Range(log)
        \/ reader[s].at = "wait" /\ publisher[m] = "push"
        ~> m \in consumed \/ reader[s].at = "stopped"

\* "Extract interrupt information from the message_bus", to answer it: a message that
\* was delivered is refused as a replay only when somebody answered it.
DeliveredIsAnswerable ==
    \A s \in Readers : Range(seen[s]) \intersect consumed \subseteq answered

------------------------------------------------------------------------------
(* Why they hold: the inductive invariants                                 *)

Places == {"new", "read", "row", "yield", "wait", "stopped"}
Iterators == [at : Places, batch : SUBSET Messages]
Sockets == [at : {"new", "open", "closed"}, queue : Seq(Messages), alive : BOOLEAN]

TypeOK ==
    /\ log \in Seq(Messages)
    /\ consumed \subseteq Messages
    /\ publisher \in [Messages -> {"idle", "push", "done"}]
    /\ listeners \in Seq(Connections)
    /\ reader \in [Readers -> Iterators]
    /\ conn \in [Connections -> Sockets]
    /\ pushed \in Seq(Messages)
    /\ seen \in [Readers -> Seq(Messages)]
    /\ sent \in [Connections -> [since : Nat, items : Seq(Messages)]]

\* A connection that has not begun has no queue and no history; one that has began
\* with what had been pushed by then.
ConnectionInv ==
    \A c \in Connections :
        /\ conn[c].at = "new" => conn[c] = Fresh /\ sent[c] = Unsent
        /\ sent[c].since <= Len(pushed)

\* Whatever is stored before a message of B is taken, or in B too.
Leading(table, taken, B) ==
    \A i, j \in DOMAIN table : i < j /\ table[j] \in B => table[i] \in B \union taken

\* What an iterator holds is stored after all it has yielded, and nothing before
\* either is left to fetch.
Held(s) ==
    /\ reader[s].batch \subseteq Range(log)
    /\ Range(seen[s]) \subseteq Range(log) \intersect consumed
    /\ Leading(log, consumed, reader[s].batch)
    /\ Leading(log, consumed, Range(seen[s]))
    /\ \A i, j \in DOMAIN log :
          log[i] \in Range(seen[s]) /\ log[j] \in reader[s].batch => i < j
    /\ reader[s].at = "yield" => reader[s].batch # {} /\ NextRow(s) \in consumed

\* A message is stored once.
FeedInv ==
    /\ IsInjective(log)
    /\ \A m \in Messages : publisher[m] = "idle" => m \notin Range(log)
    /\ \A s \in Readers : Held(s)

BusInv == TypeOK /\ ListenersAreOpen /\ ConnectionInv /\ NoGap /\ FeedInv

=============================================================================
