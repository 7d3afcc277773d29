------------------------------ MODULE EventFeed ------------------------------
(***************************************************************************)
(* What the message bus promises whoever listens: everybody sees stored    *)
(* messages only, each at most once, and in the order they were stored.    *)
(***************************************************************************)
EXTENDS Sequences, Naturals, Functions

CONSTANTS Messages, Listeners

VARIABLES
    stored,   \* messages in the order they were stored
    seen      \* what each listener has been given, in order

vars == <<stored, seen>>

Init == stored = << >> /\ seen = [l \in Listeners |-> << >>]

Store(m) ==
    /\ m \notin Range(stored)
    /\ stored' = Append(stored, m)
    /\ UNCHANGED seen

\* Listener l is given the i-th message, which comes after all it was given before.
Give(l, i) ==
    /\ i \in DOMAIN stored
    /\ Range(seen[l]) \subseteq {stored[j] : j \in 1..(i - 1)}
    /\ seen' = [seen EXCEPT ![l] = Append(@, stored[i])]
    /\ UNCHANGED stored

Next ==
    \/ \E m \in Messages : Store(m)
    \/ \E l \in Listeners : \E i \in DOMAIN stored : Give(l, i)

Spec == Init /\ [][Next]_vars

=============================================================================
