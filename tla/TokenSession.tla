---------------------------- MODULE TokenSession ----------------------------
(***************************************************************************)
(* The shared Domonap session: the tokens in DomonapClient, the session    *)
(* record in SQLite, and the tasks of the event loop that use, rotate,     *)
(* replace and clear them (domonap/client.py, main.py, telegram/handlers). *)
(*                                                                         *)
(* A token pair is named by the order in which the server issued it; an    *)
(* access token and a refresh token of one number always travel together,  *)
(* and 0 is no token.  A step is what a task does between two awaits.      *)
(***************************************************************************)
EXTENDS Integers, Sequences, FiniteSets

CONSTANTS
    Requests,    \* tasks sending authorized requests: handlers, watcher, camera proxy
    Refreshers,  \* tasks calling refresh_session: /status and the SignalR negotiation
    Logins,      \* tasks running submit_sms_code
    Logouts,     \* tasks running /logout or the panel's logout
    Register,    \* processes (counted from 0) run with DOMONAP_REGISTER_DEVICE_TOKEN
    MaxTokens,   \* bound: token pairs the server issues
    MaxRestarts  \* bound: crashes followed by a new process

Tasks == Requests \cup Refreshers \cup Logins \cup Logouts
Background == "background"     \* owner of a clear() started by main.py

ASSUME TasksOK ==
    /\ IsFiniteSet(Tasks) /\ Background \notin Tasks
    /\ Requests \cap (Refreshers \cup Logins \cup Logouts) = {}
    /\ Refreshers \cap (Logins \cup Logouts) = {} /\ Logins \cap Logouts = {}
    /\ MaxTokens \in Nat \ {0} /\ MaxRestarts \in Nat /\ Register \subseteq 0..MaxRestarts

Tokens == 1..MaxTokens
Token == 0..MaxTokens

PCs == {"idle", "call", "wait", "post", "granted", "denied", "save", "saved",
        "retry", "confirm", "keep", "kept", "clear", "drop", "dropped"}

VARIABLES
    mem,      \* access_token, refresh_token and refresh_expiration_date
    invalid,  \* _refresh_token_invalid
    task,     \* per task: where it is, the token it carries, the token its login got
    db,       \* statements the SQLite thread has still to execute, oldest first
    disk,     \* KEY_SESSION
    clears,   \* background clear() tasks still deleting legacy keys
    issued,   \* the server has issued the pairs 1..issued
    good,     \* refresh tokens the server exchanges
    live,     \* access tokens the server accepts
    expired,  \* tokens whose refresh_expiration_date has passed
    origin,   \* history, per pair: the pair exchanged for it (0: a login), the task it
              \* was issued to, and whether that is a login that registers before it saves
    lost,     \* history: pairs lost with an answer, or with a process before they were saved
    restarts

vars == <<mem, invalid, task, db, disk, clears, issued, good, live, expired, origin, lost,
          restarts>>
answers == <<issued, good, live, expired, origin>>
server == <<issued, good, live, expired, origin, lost>>

Idle == [pc |-> "idle", tok |-> 0, mine |-> 0]
Unknown == [from |-> 0, by |-> Background, held |-> FALSE]
At(t, pc) == task[t].pc = pc
Go(t, pc, tok) == task' = [task EXCEPT ![t].pc = pc, ![t].tok = tok]
End(t) == task' = [task EXCEPT ![t] = Idle]

\* The task that holds _refresh_lock; refresh_session never takes it.
Holding == {"post", "granted", "denied", "save", "saved"}
LockFree == \A t \in Tasks \ Refreshers : task[t].pc \notin Holding

Init ==
    /\ disk \in {0, 1}                  \* hydrate_from_storage has run
    /\ mem = disk /\ invalid = FALSE
    /\ task = [t \in Tasks |-> Idle]
    /\ db = <<>> /\ clears = 0
    /\ issued = 1 /\ good \in {{}, {1}} /\ live = {1} /\ expired = {}
    /\ origin = [n \in Tokens |-> Unknown] /\ lost = {}
    /\ restarts = 0

----------------------------------------------------------------------------
(* Changes of the token fields.                                            *)

\* _invalidate_refresh, and the clear() task its callback starts; nothing
\* happens when the session is already known to be gone.
Invalidate ==
    IF invalid /\ mem = 0
    THEN UNCHANGED <<mem, invalid, clears>>
    ELSE mem' = 0 /\ invalid' = TRUE /\ clears' = clears + 1

\* set_tokens with a complete pair.
SetTokens(n) == mem' = n /\ invalid' = FALSE

Execute(op) == db' = Append(db, op)
SetOp(t, n) == [op |-> "set", by |-> t, tok |-> n]
DelOp(t) == [op |-> "delete", by |-> t, tok |-> 0]

----------------------------------------------------------------------------
(* The server.                                                             *)

AccessExpires(n) ==
    /\ n \in live
    /\ live' = live \ {n}
    /\ UNCHANGED <<mem, invalid, task, db, disk, clears, issued, good, expired, origin, lost,
                   restarts>>

\* The server ends the session; the client learns it from a rejection.
SessionEnds(n) ==
    /\ n \in good
    /\ good' = good \ {n}
    /\ UNCHANGED <<mem, invalid, task, db, disk, clears, issued, live, expired, origin, lost,
                   restarts>>

\* refresh_expiration_date passes: both sides know.
RefreshExpires(n) ==
    /\ n \in 1..issued /\ n \notin expired
    /\ expired' = expired \cup {n}
    /\ good' = good \ {n}
    /\ UNCHANGED <<mem, invalid, task, db, disk, clears, issued, live, origin, lost, restarts>>

\* A pair issued to task t in exchange for the pair old (0: for a login's code).
Issue(n, old, t, held) ==
    /\ n = issued + 1 /\ n \in Tokens
    /\ issued' = n
    /\ good' = (good \ {old}) \cup {n}
    /\ live' = live \cup {n}
    /\ origin' = [origin EXCEPT ![n] = [from |-> old, by |-> t, held |-> held]]
    /\ UNCHANGED <<expired, lost>>

----------------------------------------------------------------------------
(* _request with need_auth, and _external_authorized_request.              *)

\* Without a session the request raises at once; an expired one is
\* invalidated (_ensure_alive).
RequestStart(t) ==
    /\ At(t, "idle") /\ mem # 0
    /\ IF mem \in expired
       THEN Invalidate /\ UNCHANGED task
       ELSE Go(t, "call", mem) /\ UNCHANGED <<mem, invalid, clears>>
    /\ UNCHANGED <<db, disk, server, restarts>>

\* A success, an HTTP error other than 401, or a network error: the request
\* ends.  A login goes on to save the pair its code was exchanged for.
Answered(t) ==
    /\ task[t].pc \in {"call", "retry"}
    /\ \/ End(t) /\ UNCHANGED db
       \/ /\ t \in Logins /\ task[t].tok \in live
          /\ Go(t, "keep", task[t].mine)
          /\ Execute(SetOp(t, task[t].mine))
    /\ UNCHANGED <<mem, invalid, disk, clears, server, restarts>>

\* _ensure_refresh_is_available: the task goes on only with a refresh token that
\* has not expired.
IfRefreshAvailable(t, pc, tok) ==
    IF mem = 0
    THEN End(t) /\ UNCHANGED <<mem, invalid, clears>>
    ELSE IF mem \in expired
    THEN Invalidate /\ End(t)
    ELSE Go(t, pc, tok) /\ UNCHANGED <<mem, invalid, clears>>

\* 401 to the first attempt, with a refresh token in memory (a 401 to the
\* second one ends the request).
Unauthorized(t) ==
    /\ At(t, "call") /\ task[t].tok \notin live
    /\ IfRefreshAvailable(t, "wait", task[t].tok)
    /\ UNCHANGED <<db, disk, server, restarts>>

----------------------------------------------------------------------------
(* _try_refresh, _perform_token_refresh, refresh_session.                  *)

\* Mutant: no lock around the check and the refresh.
EnterUnlocked(t) ==
    /\ At(t, "wait")
    /\ IF mem # 0 /\ mem # task[t].tok
       THEN Go(t, "retry", mem) /\ UNCHANGED <<mem, invalid, clears>>
       ELSE IfRefreshAvailable(t, "post", mem)
    /\ UNCHANGED <<db, disk, server, restarts>>

\* Mutant: the check for a refresh done meanwhile is missing.
EnterUnchecked(t) ==
    /\ At(t, "wait") /\ LockFree
    /\ IfRefreshAvailable(t, "post", mem)
    /\ UNCHANGED <<db, disk, server, restarts>>

\* With the lock: somebody else may have renewed the tokens, or lost them.
Enter(t) ==
    /\ At(t, "wait") /\ LockFree
    /\ IF mem # 0 /\ mem # task[t].tok
       THEN Go(t, "retry", mem) /\ UNCHANGED <<mem, invalid, clears>>
       ELSE IfRefreshAvailable(t, "post", mem)
    /\ UNCHANGED <<db, disk, server, restarts>>

\* refresh_session: no lock.
RefreshSession(t) ==
    /\ At(t, "idle") /\ mem # 0
    /\ Go(t, "post", mem)
    /\ UNCHANGED <<mem, invalid, db, disk, clears, server, restarts>>

\* The server exchanges the refresh token for a new pair, or rejects it.
Exchange(t) ==
    /\ At(t, "post")
    /\ IF task[t].tok \in good
       THEN \E n \in Tokens : Issue(n, task[t].tok, t, FALSE) /\ Go(t, "granted", n)
       ELSE Go(t, "denied", task[t].tok) /\ UNCHANGED server
    /\ UNCHANGED <<mem, invalid, db, disk, clears, restarts>>

\* Mutant: a lost answer is waited for again, without limit.
RefreshFailsRetries(t) ==
    /\ task[t].pc \in {"post", "granted", "denied"}
    /\ Go(t, "wait", task[t].tok)
    /\ UNCHANGED <<mem, invalid, db, disk, clears, server, restarts>>

\* The request or its answer is lost, or the server fails: the error leaves
\* the method, the lock is released, the old tokens stay.
RefreshFails(t) ==
    /\ task[t].pc \in {"post", "granted", "denied"}
    /\ End(t)
    /\ lost' = IF At(t, "granted") THEN lost \cup {task[t].tok} ELSE lost
    /\ UNCHANGED <<mem, invalid, db, disk, clears, answers, restarts>>

\* Mutant: the record is written before the new pair is known.
GrantedSavesOld(t) ==
    /\ At(t, "granted")
    /\ SetTokens(task[t].tok)
    /\ Execute(SetOp(t, mem))
    /\ Go(t, "save", task[t].tok)
    /\ UNCHANGED <<disk, clears, server, restarts>>

\* Mutant: the new pair is left to the callback, which saves nothing.
GrantedUnsaved(t) ==
    /\ At(t, "granted")
    /\ SetTokens(task[t].tok)
    /\ Go(t, "saved", task[t].tok)
    /\ UNCHANGED <<db, disk, clears, server, restarts>>

\* set_tokens, and storage.save queues its first statement.
Granted(t) ==
    /\ At(t, "granted")
    /\ SetTokens(task[t].tok)
    /\ Execute(SetOp(t, task[t].tok))
    /\ Go(t, "save", task[t].tok)
    /\ UNCHANGED <<disk, clears, server, restarts>>

\* 400, 401 or 403: whatever tokens the client holds now are dropped.
Denied(t) ==
    /\ At(t, "denied")
    /\ Invalidate
    /\ End(t)
    /\ UNCHANGED <<db, disk, server, restarts>>

\* save() is done; a request is sent again with the tokens of now.
Saved(t) ==
    /\ At(t, "saved")
    /\ IF t \in Refreshers THEN End(t) ELSE Go(t, "retry", mem)
    /\ UNCHANGED <<mem, invalid, db, disk, clears, server, restarts>>

----------------------------------------------------------------------------
(* confirm_login and the two logouts.                                      *)

LoginStart(t) ==
    /\ At(t, "idle")
    /\ Go(t, "confirm", 0)
    /\ UNCHANGED <<mem, invalid, db, disk, clears, server, restarts>>

\* The code is exchanged for a new pair.  With the setting on, the device token is
\* registered, by an authorized request, before the pair is saved.
Confirmed(t) ==
    /\ At(t, "confirm")
    /\ \E n \in Tokens :
        /\ Issue(n, 0, t, restarts \in Register)
        /\ SetTokens(n)
        /\ IF restarts \in Register
           THEN /\ task' = [task EXCEPT ![t] = [pc |-> "call", tok |-> n, mine |-> n]]
                /\ UNCHANGED db
           ELSE Go(t, "keep", n) /\ Execute(SetOp(t, n))
    /\ UNCHANGED <<disk, clears, restarts>>

\* A wrong code or a lost answer.
NotConfirmed(t) ==
    /\ At(t, "confirm")
    /\ End(t)
    /\ UNCHANGED <<mem, invalid, db, disk, clears, server, restarts>>

Kept(t) ==
    /\ At(t, "kept")
    /\ End(t)
    /\ UNCHANGED <<mem, invalid, db, disk, clears, server, restarts>>

\* token_storage.clear(): the legacy keys first, the session record last.
LogoutStart(t) ==
    /\ At(t, "idle")
    /\ Go(t, "clear", 0)
    /\ UNCHANGED <<mem, invalid, db, disk, clears, server, restarts>>

LogoutDeletes(t) ==
    /\ At(t, "clear")
    /\ Execute(DelOp(t)) /\ Go(t, "drop", 0)
    /\ UNCHANGED <<mem, invalid, disk, clears, server, restarts>>

\* mark_session_expired: memory is cleared after the disk.
LoggedOut(t) ==
    /\ At(t, "dropped")
    /\ Invalidate
    /\ End(t)
    /\ UNCHANGED <<db, disk, server, restarts>>

----------------------------------------------------------------------------
(* Storage and crashes.                                                    *)

\* A clear() started by the callback reaches its last statement.
ClearDeletes ==
    /\ clears > 0
    /\ clears' = clears - 1
    /\ Execute(DelOp(Background))
    /\ UNCHANGED <<mem, invalid, task, disk, server, restarts>>

Done == [save |-> "saved", keep |-> "kept", drop |-> "dropped"]

\* The SQLite thread executes and commits the oldest statement; its task
\* goes on.
DbStep ==
    /\ db # <<>>
    /\ db' = Tail(db)
    /\ disk' = Head(db).tok
    /\ LET t == Head(db).by
       IN  IF t = Background
           THEN UNCHANGED task
           ELSE task' = [task EXCEPT ![t].pc = Done[@]]
    /\ UNCHANGED <<mem, invalid, clears, server, restarts>>

\* A pair the server has issued for a refresh and the disk is still to get.
Underway(n) ==
    \/ \E t \in Tasks : At(t, "granted") /\ task[t].tok = n
    \/ \E i \in 1..Len(db) : db[i].tok = n

\* The process dies and a new one restores the session of the disk.
Crash ==
    /\ restarts < MaxRestarts
    /\ restarts' = restarts + 1
    /\ mem' = disk /\ invalid' = FALSE
    /\ task' = [t \in Tasks |-> Idle]
    /\ db' = <<>> /\ clears' = 0
    /\ lost' = lost \cup {n \in Tokens : Underway(n)}
    /\ UNCHANGED <<disk, answers>>

----------------------------------------------------------------------------
Start ==
    \/ \E t \in Requests : RequestStart(t)
    \/ \E t \in Refreshers : RefreshSession(t)
    \/ \E t \in Logins : LoginStart(t)
    \/ \E t \in Logouts : LogoutStart(t)

Continue(t) ==
    \/ Answered(t) \/ Unauthorized(t) \/ Enter(t)
    \/ Exchange(t) \/ RefreshFails(t) \/ Granted(t) \/ Denied(t) \/ Saved(t)
    \/ Confirmed(t) \/ NotConfirmed(t) \/ Kept(t)
    \/ LogoutDeletes(t) \/ LoggedOut(t)

Server == \E n \in Tokens : AccessExpires(n) \/ SessionEnds(n) \/ RefreshExpires(n)

Next ==
    \/ Start \/ (\E t \in Tasks : Continue(t)) \/ ClearDeletes \/ DbStep
    \/ Server \/ Crash

Spec == Init /\ [][Next]_vars

\* The loop runs a ready task, requests have timeouts, the SQLite thread goes
\* on, and asyncio.Lock serves its waiters in order.
FairSpec ==
    /\ Spec
    /\ WF_vars(DbStep)
    /\ \A t \in Tasks : WF_vars(Continue(t)) /\ SF_vars(Enter(t))

----------------------------------------------------------------------------
(* Correctness.                                                            *)

\* Every variable has its type.
TypeOK ==
    /\ mem \in Token /\ invalid \in BOOLEAN /\ disk \in Token
    /\ task \in [Tasks -> [pc : PCs, tok : Token, mine : Token]]
    /\ db \in Seq([op : {"set", "delete"}, by : Tasks \cup {Background}, tok : Token])
    /\ clears \in Nat /\ issued \in Tokens
    /\ good \subseteq 1..issued /\ live \subseteq 1..issued /\ expired \subseteq 1..issued
    /\ origin \in [Tokens -> [from : Token, by : Tasks \cup {Background}, held : BOOLEAN]]
    /\ lost \subseteq Token
    /\ restarts \in 0..MaxRestarts

\* A task spends the refresh token only after the server refused the access
\* token of the same pair: two requests refused together rotate it once.
RefreshOnlyWhenRefused ==
    \A t \in Requests \cup Logins : At(t, "post") => task[t].tok \notin live

Leaves(t, pc) == At(t, pc) /\ ~At(t, pc)'

\* A session the server still takes is dropped from memory only by a logout, or by
\* the rejection of another pair (client.py:319 drops whatever is there): by one
\* that answers a refresh outside the lock, or where such a refresh or a login has
\* replaced the pair meanwhile.  Tasks that go through _try_refresh never drop the
\* session one of them has obtained.
WipeOnlyDead ==
    [][(mem \in good /\ mem' = 0 /\ restarts' = restarts)
        => \/ \E t \in Logouts : Leaves(t, "dropped")
           \/ \E t \in Tasks :
                 /\ Leaves(t, "denied") /\ task[t].tok # mem
                 /\ t \in Refreshers \/ origin[mem].by \in Refreshers \cup Logins]_vars

\* What the disk holds once the pending statements and clears are executed.
ClearPending == clears > 0 \/ \E t \in Logouts : At(t, "clear")
Durable ==
    IF ClearPending THEN 0
    ELSE IF db = <<>> THEN disk ELSE db[Len(db)].tok

\* Pairs of logins that register the device before they save.
Held == {n \in 1..issued : origin[n].held}

\* In every process, the statements are queued in the order in which memory
\* changes: while the process runs on, the disk ends with the session in memory or
\* with none (main.py:55: the login and refresh paths save the session).  Only a
\* pair that waits for the device to be registered is used unsaved, or saved late.
NeverStale ==
    \/ Durable \in {0, mem}
    \/ Durable \in Held \/ mem \in Held

\* The disk holds a pair that was exchanged already, so that a restart brings it
\* back, only while its successor is being answered or saved, or if a lost answer
\* or a crash took the successor before it was saved; never once it is saved.
\* A pair saved late, after the registration of the device, is left out.
SpentOnlyUnderway ==
    disk \in (1..issued) \ Held =>
        \A n \in 1..issued : origin[n].from = disk => Underway(n) \/ n \in lost

\* After a logout only a login brings a session back (README, Security:
\* "Use /logout to clear the persisted Domonap session").
LogoutStays ==
    [][(mem = 0 /\ mem' # 0 /\ restarts' = restarts)
        => \E t \in Logins : At(t, "confirm")]_vars

\* Every request ends, also when refreshes fail while others wait for the lock.
RequestsEnd == \A t \in Requests : ~At(t, "idle") ~> At(t, "idle")

=============================================================================
