-------------------------- MODULE SessionRegister --------------------------
(***************************************************************************)
(* What TokenStorage promises: the persisted session is one register.      *)
(* Each save and each clear takes effect at one instant or, if a crash     *)
(* comes first, not at all; nothing else changes what a load would find.   *)
(***************************************************************************)
CONSTANTS
    Tasks,      \* tasks that save and clear
    Sessions,   \* complete sessions
    NoSession,  \* nothing persisted
    NoOp        \* a task with nothing to do

VARIABLES
    session,    \* what a load finds
    op          \* per task, what it has still to write

Init ==
    /\ session \in Sessions \cup {NoSession}
    /\ op = [t \in Tasks |-> NoOp]

\* A save of session s begins, or a clear (s = NoSession).
Begin(t, s) ==
    /\ op[t] = NoOp
    /\ op' = [op EXCEPT ![t] = s]
    /\ UNCHANGED session

\* It takes effect.
Take(t) ==
    /\ op[t] # NoOp
    /\ session' = op[t]
    /\ op' = [op EXCEPT ![t] = NoOp]

\* The process dies: what has not taken effect never does.
Crash ==
    /\ op' = [t \in Tasks |-> NoOp]
    /\ UNCHANGED session

Next ==
    \/ \E t \in Tasks, s \in Sessions \cup {NoSession} : Begin(t, s)
    \/ \E t \in Tasks : Take(t)
    \/ Crash

Spec == Init /\ [][Next]_<<session, op>>

=============================================================================
