--------------------------- MODULE ActionCooldown ---------------------------
(***************************************************************************)
(* The cooldown that keeps a user from repeating a remote action: opening  *)
(* a door, answering or rejecting a call (telegram/cooldown.py and the     *)
(* handlers that use it in handlers.py and doors.py).                      *)
(*                                                                         *)
(* aiogram runs every update as a task of its own, so handlers of one user *)
(* interleave at each await: the buttons await the acknowledgement of the  *)
(* tap between the check and the mark, and everybody awaits the request.   *)
(* A step below is what a handler does between two awaits.                 *)
(*                                                                         *)
(* The code stores the time of a mark and compares its age with the        *)
(* timeout; here a mark is its age in ticks, Timeout standing for any age  *)
(* that is not smaller, so that time need not be bounded.                  *)
(***************************************************************************)
EXTENDS Integers, FiniteSets

CONSTANTS
    Keys,        \* pairs of a user and an action: a door id, answer:<id>, reject:<id>
    Buttons,     \* tasks handling a tap on open:, d:open:, answer: or reject:
    Commands,    \* tasks handling /open with a single door
    Timeout,     \* the timeout of CooldownManager, in ticks
    MaxEntries   \* _MAX_COOLDOWN_ENTRIES

Tasks == Buttons \cup Commands

ASSUME LimitsOK ==
    /\ IsFiniteSet(Keys) /\ Keys # {} /\ Buttons \cap Commands = {}
    /\ Timeout \in Nat \ {0} /\ MaxEntries \in Nat \ {0}

VARIABLES
    mark,   \* _cooldowns: per key the age of its mark, None without one
    task,   \* per handler: where it is, its key, and (history) whether the
            \* key was marked by somebody else since the handler checked it
    past    \* history, per key: the age of its last request, and whether the
            \* mark of that request was given up since

vars == <<mark, task, past>>

None == -1
Age == 0..Timeout

\* The key of an idle task means nothing.
Idle == [pc |-> "idle", key |-> CHOOSE k \in Keys : TRUE, late |-> FALSE]

Init ==
    /\ mark = [k \in Keys |-> None]
    /\ task = [t \in Tasks |-> Idle]
    /\ past = [k \in Keys |-> [age |-> Timeout, released |-> FALSE]]

----------------------------------------------------------------------------
(* CooldownManager.                                                        *)

Held == {k \in Keys : mark[k] # None}
Expired == {k \in Held : mark[k] = Timeout}

\* Mutant: the comparison is off by one.
ReadyTooEarly(k) == mark[k] = None \/ mark[k] + 1 >= Timeout

\* is_ready
Ready(k) == mark[k] = None \/ mark[k] = Timeout

\* The marks a new one of k may push out: none while there is room, else the
\* expired ones, and if those make no room, one that no other is older than.
GivenUp(k) ==
    IF k \in Held \/ Cardinality(Held) < MaxEntries THEN {{}}
    ELSE IF Expired # {} THEN {Expired}
    ELSE {{j} : j \in {i \in Held : \A h \in Held : mark[h] =< mark[i]}}

Mark(k, gone) ==
    mark' = [j \in Keys |-> IF j = k THEN 0 ELSE IF j \in gone THEN None ELSE mark[j]]

\* set, and the request: there is no await between them.
Request(t, k) ==
    \E gone \in GivenUp(k) :
        /\ Mark(k, gone)
        /\ past' = [j \in Keys |->
                      IF j = k THEN [age |-> 0, released |-> FALSE]
                      ELSE IF j \in gone THEN [past[j] EXCEPT !.released = TRUE]
                      ELSE past[j]]
        /\ task' = [s \in Tasks |->
                      IF s = t THEN [pc |-> "post", key |-> k, late |-> FALSE]
                      ELSE IF task[s].pc = "ack" /\ task[s].key = k THEN [task[s] EXCEPT !.late = TRUE]
                      ELSE task[s]]

----------------------------------------------------------------------------
(* The handlers.                                                           *)

\* Mutant: a tap that comes too soon starts the cooldown again.
TapRestarts(t, k) ==
    /\ task[t].pc = "idle"
    /\ IF Ready(k)
       THEN task' = [task EXCEPT ![t] = [pc |-> "ack", key |-> k, late |-> FALSE]] /\ UNCHANGED mark
       ELSE mark' = [mark EXCEPT ![k] = 0] /\ UNCHANGED task
    /\ UNCHANGED past

\* A button: too soon, it only answers how long to wait.
Tap(t, k) ==
    /\ task[t].pc = "idle"
    /\ IF Ready(k)
       THEN task' = [task EXCEPT ![t] = [pc |-> "ack", key |-> k, late |-> FALSE]]
       ELSE UNCHANGED task
    /\ UNCHANGED <<mark, past>>

\* The tap is acknowledged; nothing is checked again.
Acknowledged(t) == task[t].pc = "ack" /\ Request(t, task[t].key)

End(t) == task' = [task EXCEPT ![t] = Idle]

\* Telegram refuses the acknowledgement: the handler raises.
NotAcknowledged(t) ==
    /\ task[t].pc = "ack"
    /\ End(t)
    /\ UNCHANGED <<mark, past>>

\* /open: the check and the mark are one step.
Command(t, k) ==
    /\ task[t].pc = "idle"
    /\ IF Ready(k) THEN Request(t, k) ELSE UNCHANGED vars

\* The door opened, or the call was answered or ended; an error that is no
\* DomonapError leaves the handler in the same way.
Succeeds(t) ==
    /\ task[t].pc = "post"
    /\ End(t)
    /\ UNCHANGED <<mark, past>>

\* A DomonapError, or a refusal: clear() drops the mark of the key, whoever
\* set it.
Fails(t) ==
    /\ task[t].pc = "post"
    /\ End(t)
    /\ mark' = [mark EXCEPT ![task[t].key] = None]
    /\ past' = [past EXCEPT ![task[t].key].released = TRUE]

\* Time passes.
Older(a) == IF a \in 0..Timeout-1 THEN a + 1 ELSE a
Tick ==
    /\ mark' = [k \in Keys |-> Older(mark[k])]
    /\ past' = [k \in Keys |-> [past[k] EXCEPT !.age = Older(@)]]
    /\ UNCHANGED task

Handler(t) ==
    \/ t \in Buttons /\ \E k \in Keys : Tap(t, k)
    \/ t \in Commands /\ \E k \in Keys : Command(t, k)
    \/ Acknowledged(t) \/ NotAcknowledged(t) \/ Succeeds(t) \/ Fails(t)

Next == Tick \/ \E t \in Tasks : Handler(t)

Spec == Init /\ [][Next]_vars

\* Only time is sure to go on.
FairSpec == Spec /\ WF_vars(Tick)

----------------------------------------------------------------------------
(* Correctness.                                                            *)

\* Every variable has its type, and the table of marks stays bounded.
TypeOK ==
    /\ mark \in [Keys -> Age \cup {None}] /\ Cardinality(Held) =< MaxEntries
    /\ task \in [Tasks -> [pc : {"idle", "ack", "post"}, key : Keys, late : BOOLEAN]]
    /\ past \in [Keys -> [age : Age, released : BOOLEAN]]

\* A user's action is requested again within the timeout only if, since its
\* last request, a request for it failed or its mark was pushed out of a full
\* table, or if the tap had been let through before that last request.  In
\* particular the buttons, which acknowledge between check and mark, repeat
\* an action only for taps that overlap, and a command never does.
RateLimited ==
    [][\A t \in Tasks :
        (task[t].pc # "post" /\ task'[t].pc = "post") =>
            LET k == task'[t].key
            IN  \/ past[k].age = Timeout
                \/ past[k].released
                \/ task[t].pc = "ack" /\ task[t].late]_vars

\* Nobody is locked out: a cooldown ends, however often the button is tapped.
CooldownEnds == \A k \in Keys : ~Ready(k) ~> Ready(k)

=============================================================================
