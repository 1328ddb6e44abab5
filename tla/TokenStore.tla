----------------------------- MODULE TokenStore -----------------------------
(***************************************************************************)
(* TokenStorage (storage/tokens.py): a session is one encrypted record,    *)
(* written before the keys of older versions are deleted, and deleted      *)
(* after them.  Every key is written and committed on its own, so a crash  *)
(* can come between any two of them, and saves and clears of concurrent    *)
(* tasks interleave.                                                       *)
(***************************************************************************)
EXTENDS Integers

CONSTANTS
    Tasks,       \* tasks that save and clear sessions
    Main,        \* the start of the process, which loads the session
    Sessions,    \* complete sessions
    Old,         \* the session an older version left in one key per field
    NoSession,   \* no session
    NoOp,        \* nothing to write
    NKeys,       \* number of legacy keys; the first holds the access token
    Left,        \* the legacy keys the older version wrote
    MaxRestarts  \* bound: crashes followed by a new process

ASSUME StoreOK ==
    /\ Main \notin Tasks /\ Old \in Sessions
    /\ NoSession \notin Sessions /\ NoOp \notin Sessions \cup {NoSession}
    /\ NKeys \in Nat \ {0} /\ Left \subseteq 1..NKeys /\ 1 \in Left
    /\ MaxRestarts \in Nat

AccessKey == 1
Procs == Tasks \cup {Main}

VARIABLES
    record,   \* KEY_SESSION
    plain,    \* the record is not encrypted
    legacy,   \* legacy keys on disk
    task,     \* per task: what it does, the session it saves, its next legacy key
    loaded,   \* the session the client was given at the start
    restarts

vars == <<record, plain, legacy, task, loaded, restarts>>
disk == <<record, plain, legacy>>

PCs == {"idle", "load", "set", "tidy", "wipe", "last"}
Task == [pc : PCs, sess : Sessions \cup {NoSession}, key : 1..NKeys]
At(t, pc) == task[t].pc = pc
Move(t, pc, s, k) == task' = [task EXCEPT ![t] = [pc |-> pc, sess |-> s, key |-> k]]
End(t) == Move(t, "idle", NoSession, 1)
Resting(pc) == [pc |-> pc, sess |-> NoSession, key |-> 1]
Started == [t \in Procs |-> Resting(IF t = Main THEN "load" ELSE "idle")]

\* What load_full returns: the record, or the legacy session when there is no
\* record but a legacy access token.
Found ==
    IF record # NoSession THEN record
    ELSE IF AccessKey \in legacy THEN Old ELSE NoSession

\* A new installation, or what an older version left: its keys, or a record
\* it may have written without an encryption key.
Init ==
    /\ record \in Sessions \cup {NoSession}
    /\ plain \in (IF record = NoSession THEN {FALSE} ELSE BOOLEAN)
    /\ legacy \in (IF record = NoSession THEN {{}, Left} ELSE {{}})
    /\ task = Started
    /\ loaded = NoSession
    /\ restarts = 0

----------------------------------------------------------------------------
\* load_full, before any other task runs.  A plain record and a legacy
\* session are saved again.
Load ==
    /\ At(Main, "load")
    /\ loaded' = Found
    /\ IF Found # NoSession /\ (record = NoSession \/ plain)
       THEN Move(Main, "set", Found, 1)
       ELSE End(Main)
    /\ UNCHANGED <<disk, restarts>>

\* A login or a refresh saves the session the server has just issued.
SaveStart(t, s) ==
    /\ At(Main, "idle") /\ At(t, "idle") /\ s \in Sessions \ {Old}
    /\ Move(t, "set", s, 1)
    /\ UNCHANGED <<disk, loaded, restarts>>

\* Mutant: clear forgets the legacy keys.
ClearStartRecordOnly(t) ==
    /\ At(Main, "idle") /\ At(t, "idle")
    /\ Move(t, "last", NoSession, 1)
    /\ UNCHANGED <<disk, loaded, restarts>>

\* /logout, or the end of a session the server has rejected.
ClearStart(t) ==
    /\ At(Main, "idle") /\ At(t, "idle")
    /\ Move(t, "wipe", NoSession, 1)
    /\ UNCHANGED <<disk, loaded, restarts>>

\* The record is written first, encrypted.
SetRecord(t) ==
    /\ At(t, "set")
    /\ record' = task[t].sess /\ plain' = FALSE
    /\ Move(t, "tidy", task[t].sess, 1)
    /\ UNCHANGED <<legacy, loaded, restarts>>

\* _delete_legacy_values, one key.
DeleteLegacy(t) ==
    /\ task[t].pc \in {"tidy", "wipe"}
    /\ legacy' = legacy \ {task[t].key}
    /\ IF task[t].key < NKeys
       THEN Move(t, task[t].pc, task[t].sess, task[t].key + 1)
       ELSE IF At(t, "wipe") THEN Move(t, "last", NoSession, 1) ELSE End(t)
    /\ UNCHANGED <<record, plain, loaded, restarts>>

\* The last statement of clear.
DeleteRecord(t) ==
    /\ At(t, "last")
    /\ record' = NoSession
    /\ End(t)
    /\ UNCHANGED <<plain, legacy, loaded, restarts>>

Crash ==
    /\ restarts < MaxRestarts
    /\ restarts' = restarts + 1
    /\ task' = Started
    /\ loaded' = NoSession
    /\ UNCHANGED disk

Write(t) == SetRecord(t) \/ DeleteLegacy(t) \/ DeleteRecord(t)

Next ==
    \/ Load
    \/ \E t \in Tasks, s \in Sessions : SaveStart(t, s)
    \/ \E t \in Tasks : ClearStart(t)
    \/ \E t \in Procs : Write(t)
    \/ Crash

Spec == Init /\ [][Next]_vars

----------------------------------------------------------------------------
(* Correctness.                                                            *)

\* Every variable has its type.
TypeOK ==
    /\ record \in Sessions \cup {NoSession}
    /\ plain \in BOOLEAN /\ legacy \subseteq Left
    /\ task \in [Procs -> Task]
    /\ loaded \in Sessions \cup {NoSession}
    /\ restarts \in 0..MaxRestarts

\* OPERATIONS.md, Storage and secrets: refresh-token rotation cannot leave a
\* mixture of fields.  A legacy session a load would return is complete: no
\* crash leaves its access token without the fields that came with it.
NoMixture == Found = Old /\ record = NoSession => legacy = Left

\* The persisted session is one register, whatever crashes and whoever
\* interleaves (save, clear and load_full against SessionRegister).  Above
\* all, no crash brings back a session that was replaced or cleared.
Pending(t) ==
    IF At(t, "set") THEN task[t].sess
    ELSE IF task[t].pc \in {"wipe", "last"} THEN NoSession ELSE NoOp
Register == INSTANCE SessionRegister
                WITH session <- Found, op <- [t \in Tasks |-> Pending(t)]
ImplementsRegister == Register!Spec

=============================================================================
