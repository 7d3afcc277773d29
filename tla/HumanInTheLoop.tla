--------------------------- MODULE HumanInTheLoop ---------------------------
(***************************************************************************)
(* What the service promises its users, with no word of rows, checkpoints  *)
(* or requests: a task stops at the gates of its workflow, asks one fresh  *)
(* question there, and moves on only after that question is answered, to a *)
(* stop some decision at that gate leads to.                               *)
(***************************************************************************)
CONSTANTS
    Tasks,
    Questions,   \* the questions that can be asked
    None,        \* no question
    Nowhere,     \* where a task is before its first stop
    Over,        \* where a task is when its workflow has ended
    Leads        \* the stops that can follow Nowhere and each gate

VARIABLES
    stage,       \* "absent", "running", "stopped" or "over"
    at,          \* the last stop of each task
    question,    \* the open question of each task
    answered     \* the questions that have been answered

vars == <<stage, at, question, answered>>

Init ==
    /\ stage = [t \in Tasks |-> "absent"]
    /\ at = [t \in Tasks |-> Nowhere]
    /\ question = [t \in Tasks |-> None]
    /\ answered = {}

Open(t) ==
    /\ stage[t] = "absent"
    /\ stage' = [stage EXCEPT ![t] = "running"]
    /\ UNCHANGED <<at, question, answered>>

\* The workflow reaches its next stop, a gate or its end.
Stop(t) ==
    /\ stage[t] = "running"
    /\ \E s \in Leads[at[t]] :
          /\ at' = [at EXCEPT ![t] = s]
          /\ stage' = [stage EXCEPT ![t] = IF s = Over THEN "over" ELSE "stopped"]
    /\ UNCHANGED <<question, answered>>

\* A gate asks one question, which nobody was asked before.
Ask(t) ==
    /\ stage[t] = "stopped"
    /\ question[t] = None
    /\ \E q \in Questions \ answered :
          /\ \A u \in Tasks : question[u] # q
          /\ question' = [question EXCEPT ![t] = q]
    /\ UNCHANGED <<stage, at, answered>>

Answer(t) ==
    /\ stage[t] = "stopped"
    /\ question[t] # None
    /\ answered' = answered \union {question[t]}
    /\ question' = [question EXCEPT ![t] = None]
    /\ stage' = [stage EXCEPT ![t] = "running"]
    /\ UNCHANGED at

Next == \E t \in Tasks : Open(t) \/ Stop(t) \/ Ask(t) \/ Answer(t)

\* Nothing else ever happens to a task.
Safe == Init /\ [][Next]_vars

\* The system owes the next stop and the next question; people owe nothing.
Spec == Safe /\ \A t \in Tasks : WF_vars(Stop(t)) /\ WF_vars(Ask(t))

=============================================================================
