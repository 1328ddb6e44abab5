---------------------------- MODULE AccessRoles ----------------------------
(***************************************************************************)
(* Who may use the bot and who may administer it: the access keys in       *)
(* SQLite, the two AccessControl objects in memory, and the handlers that  *)
(* change both (telegram/admin.py, menu.py, invites.py, bot.py).           *)
(*                                                                         *)
(* Every storage call is an await, each key is committed on its own, and   *)
(* the memory is changed after the disk.                                   *)
(***************************************************************************)
EXTENDS Integers, FiniteSets

CONSTANTS
    Users,        \* Telegram user ids
    EnvAllowed,   \* ALLOWED_TELEGRAM_USER_IDS
    EnvAdmins,    \* ADMIN_TELEGRAM_USER_IDS
    Handlers,     \* bound: handler tasks at work at the same time
    MaxInvites,   \* bound: invites created
    MaxRestarts   \* bound: crashes followed by a new process

ASSUME ConfigOK ==
    /\ EnvAdmins \subseteq EnvAllowed /\ EnvAllowed \subseteq Users
    /\ IsFiniteSet(Users)
    /\ MaxInvites \in Nat /\ MaxRestarts \in Nat

Invites == 1..MaxInvites

VARIABLES
    allowedKeys,  \* access:allowed:<id> keys
    adminKeys,    \* access:admin:<id> keys
    access,       \* the runtime allow-list
    admins,       \* the runtime administrators
    invite,       \* invite records: none, open, expired, gone
    admitted,     \* users each invite has admitted
    overlapped,   \* history: users admitted in the middle of their own removal
    task,         \* per handler: where it is, the user and the invite it is about
    restarts

vars == <<allowedKeys, adminKeys, access, admins, invite, admitted, overlapped, task,
          restarts>>
disk == <<allowedKeys, adminKeys>>
memory == <<access, admins>>
invites == <<invite, admitted, overlapped>>

PCs == {"idle", "grant", "revoke", "remove", "setAdmin", "dropAdmin",
        "rmAllowed", "rmAdmin", "rmProfile", "start", "claim", "allow"}
Task == [pc : PCs, user : Users, inv : 0..MaxInvites]
Idle == [pc |-> "idle", user |-> CHOOSE u \in Users : TRUE, inv |-> 0]

At(h, pc) == task[h].pc = pc
Go(h, pc) == task' = [task EXCEPT ![h].pc = pc]
End(h) == task' = [task EXCEPT ![h] = Idle]

RoleLocked == {"setAdmin", "dropAdmin", "rmAllowed", "rmAdmin", "rmProfile"}
RoleLockFree == \A h \in Handlers : task[h].pc \notin RoleLocked
InviteLockFree == \A h \in Handlers : ~At(h, "claim")

\* build_bot: the stored users join the configured ones; an administrator is
\* a stored one whose user is stored too, or a configured one.
LoadedAccess == EnvAllowed \cup allowedKeys
Loaded == (adminKeys \cap allowedKeys) \cup EnvAdmins

Init ==
    /\ allowedKeys \in SUBSET Users
    /\ adminKeys \in SUBSET allowedKeys
    /\ access = LoadedAccess /\ admins = Loaded /\ admins # {}
    /\ invite = [i \in Invites |-> "none"]
    /\ admitted = [i \in Invites |-> {}]
    /\ overlapped = {}
    /\ task = [h \in Handlers |-> Idle]
    /\ restarts = 0

----------------------------------------------------------------------------
(* The admin panel.  Only an administrator gets into a handler; then the   *)
(* handler waits for role_lock.                                            *)

Panel(h, u, pc) ==
    /\ At(h, "idle") /\ admins # {}
    /\ pc \in {"grant", "revoke", "remove"}
    /\ task' = [task EXCEPT ![h] = [pc |-> pc, user |-> u, inv |-> 0]]
    /\ UNCHANGED <<disk, memory, invites, restarts>>

\* Somebody who is not stored as allowed, or is an administrator already, is
\* left alone.
GrantCheck(h) ==
    /\ At(h, "grant") /\ RoleLockFree
    /\ IF task[h].user \in allowedKeys /\ task[h].user \notin adminKeys
       THEN Go(h, "setAdmin") ELSE End(h)
    /\ UNCHANGED <<disk, memory, invites, restarts>>

\* Mutant: the role is given in memory only.
SetAdminInMemory(h) ==
    /\ At(h, "setAdmin")
    /\ admins' = admins \cup {task[h].user}
    /\ End(h)
    /\ UNCHANGED <<disk, access, invites, restarts>>

SetAdmin(h) ==
    /\ At(h, "setAdmin")
    /\ adminKeys' = adminKeys \cup {task[h].user}
    /\ admins' = admins \cup {task[h].user}
    /\ End(h)
    /\ UNCHANGED <<allowedKeys, access, invites, restarts>>

\* Mutant: the check and the deletion are not under the lock.
RevokeCheckUnlocked(h) ==
    /\ At(h, "revoke")
    /\ IF task[h].user \in adminKeys /\ Cardinality(adminKeys) > 1
       THEN Go(h, "dropAdmin") ELSE End(h)
    /\ UNCHANGED <<disk, memory, invites, restarts>>

\* The last stored administrator stays.
RevokeCheck(h) ==
    /\ At(h, "revoke") /\ RoleLockFree
    /\ IF task[h].user \in adminKeys /\ Cardinality(adminKeys) > 1
       THEN Go(h, "dropAdmin") ELSE End(h)
    /\ UNCHANGED <<disk, memory, invites, restarts>>

DropAdmin(h) ==
    /\ At(h, "dropAdmin")
    /\ adminKeys' = adminKeys \ {task[h].user}
    /\ admins' = admins \ {task[h].user}
    /\ End(h)
    /\ UNCHANGED <<allowedKeys, access, invites, restarts>>

RemoveCheck(h) ==
    /\ At(h, "remove") /\ RoleLockFree
    /\ IF /\ task[h].user \in allowedKeys
          /\ task[h].user \in adminKeys => Cardinality(adminKeys) > 1
       THEN Go(h, "rmAllowed") ELSE End(h)
    /\ UNCHANGED <<disk, memory, invites, restarts>>

\* remove_user: three keys, one commit each; then the memory.
RemoveAllowed(h) ==
    /\ At(h, "rmAllowed")
    /\ allowedKeys' = allowedKeys \ {task[h].user}
    /\ Go(h, "rmAdmin")
    /\ UNCHANGED <<adminKeys, memory, invites, restarts>>

RemoveAdmin(h) ==
    /\ At(h, "rmAdmin")
    /\ adminKeys' = adminKeys \ {task[h].user}
    /\ Go(h, "rmProfile")
    /\ UNCHANGED <<allowedKeys, memory, invites, restarts>>

\* Mutant: the runtime role is forgotten.
RemovedKeepsRole(h) ==
    /\ At(h, "rmProfile")
    /\ access' = access \ {task[h].user}
    /\ End(h)
    /\ UNCHANGED <<disk, admins, invites, restarts>>

Removed(h) ==
    /\ At(h, "rmProfile")
    /\ access' = access \ {task[h].user}
    /\ admins' = admins \ {task[h].user}
    /\ End(h)
    /\ UNCHANGED <<disk, invites, restarts>>

----------------------------------------------------------------------------
(* Invites: created by an administrator, consumed by /start.               *)

CreateInvite(i) ==
    /\ admins # {} /\ InviteLockFree
    /\ invite[i] = "none"
    /\ invite' = [invite EXCEPT ![i] = "open"]
    /\ UNCHANGED <<disk, memory, admitted, overlapped, task, restarts>>

\* expires_at passes.
InviteExpires(i) ==
    /\ invite[i] = "open"
    /\ invite' = [invite EXCEPT ![i] = "expired"]
    /\ UNCHANGED <<disk, memory, admitted, overlapped, task, restarts>>

\* /start invite_<token> of somebody who is not allowed yet.
StartInvite(h, u, i) ==
    /\ At(h, "idle") /\ u \notin access
    /\ task' = [task EXCEPT ![h] = [pc |-> "start", user |-> u, inv |-> i]]
    /\ UNCHANGED <<disk, memory, invites, restarts>>

\* Mutant: consume without the lock.
ConsumeUnlocked(h) ==
    /\ At(h, "start")
    /\ LET i == task[h].inv
       IN  IF invite[i] = "open"
           THEN Go(h, "claim") /\ UNCHANGED invite
           ELSE End(h) /\ UNCHANGED invite
    /\ UNCHANGED <<disk, memory, admitted, overlapped, restarts>>

\* consume: a missing record is refused, an expired one deleted and refused.
Consume(h) ==
    /\ At(h, "start") /\ InviteLockFree
    /\ LET i == task[h].inv
       IN  \/ invite[i] = "open" /\ Go(h, "claim") /\ UNCHANGED invite
           \/ invite[i] \in {"none", "gone"} /\ End(h) /\ UNCHANGED invite
           \/ /\ invite[i] = "expired" /\ End(h)
              /\ invite' = [invite EXCEPT ![i] = "gone"]
    /\ UNCHANGED <<disk, memory, admitted, overlapped, restarts>>

\* The record is deleted while the lock is held, then consume returns.
Claim(h) ==
    /\ At(h, "claim")
    /\ invite' = [invite EXCEPT ![task[h].inv] = "gone"]
    /\ Go(h, "allow")
    /\ UNCHANGED <<disk, memory, admitted, overlapped, restarts>>

\* Some handler has deleted the user's access key and is not through with him.
BeingRemoved(u) ==
    \E h \in Handlers : task[h].pc \in {"rmAdmin", "rmProfile"} /\ task[h].user = u

\* set_user_allowed, then the runtime allow-list, without role_lock.  The connection serves its
\* statements in order, so this handler goes on before any handler whose
\* statement came later: key and memory change in one step, here and in
\* SetAdmin and DropAdmin.
Allow(h) ==
    /\ At(h, "allow")
    /\ allowedKeys' = allowedKeys \cup {task[h].user}
    /\ access' = access \cup {task[h].user}
    /\ admitted' = [admitted EXCEPT ![task[h].inv] = @ \cup {task[h].user}]
    /\ overlapped' = IF BeingRemoved(task[h].user)
                     THEN overlapped \cup {task[h].user} ELSE overlapped \ {task[h].user}
    /\ End(h)
    /\ UNCHANGED <<adminKeys, admins, invite, restarts>>

----------------------------------------------------------------------------
\* The process dies between two commits and a new one loads the keys.
Restart ==
    /\ restarts < MaxRestarts
    /\ restarts' = restarts + 1
    /\ access' = LoadedAccess /\ admins' = Loaded
    /\ task' = [h \in Handlers |-> Idle]
    /\ overlapped' = {}
    /\ UNCHANGED <<disk, invite, admitted>>

Step(h) ==
    \/ GrantCheck(h) \/ SetAdmin(h)
    \/ RevokeCheck(h) \/ DropAdmin(h)
    \/ RemoveCheck(h) \/ RemoveAllowed(h) \/ RemoveAdmin(h) \/ Removed(h)
    \/ Consume(h) \/ Claim(h) \/ Allow(h)

Begin(h) ==
    \/ \E u \in Users, pc \in PCs : Panel(h, u, pc)
    \/ \E u \in Users, i \in Invites : StartInvite(h, u, i)

Next ==
    \/ \E h \in Handlers : Begin(h) \/ Step(h)
    \/ \E i \in Invites : CreateInvite(i) \/ InviteExpires(i)
    \/ Restart

Spec == Init /\ [][Next]_vars

----------------------------------------------------------------------------
(* Correctness.                                                            *)

\* Every variable has its type.
TypeOK ==
    /\ allowedKeys \subseteq Users /\ adminKeys \subseteq Users
    /\ access \subseteq Users /\ admins \subseteq Users
    /\ invite \in [Invites -> {"none", "open", "expired", "gone"}]
    /\ admitted \in [Invites -> SUBSET Users]
    /\ overlapped \subseteq Users
    /\ task \in [Handlers -> Task]
    /\ restarts \in 0..MaxRestarts

\* Somebody administers the bot: the last administrator can be neither
\* removed nor demoted, whatever the handlers do together (README, Admin
\* panel: "the last active administrator cannot be removed or demoted").
AlwaysAdmin == admins # {}

\* The role never dies out: while somebody is a stored administrator, no step
\* of any handlers together takes the last key away, and until a crash has cut
\* a removal in half somebody has the role in memory too.  (Where every
\* administrator is only configured, the code does remove the last of them.)
AdminRemains ==
    [][adminKeys # {} => adminKeys' # {} /\ (restarts' = 0 => admins' # {})]_vars

\* An administrator is allowed: the panel's handlers check the role only, so
\* a removed user with a role left over would still manage the others.  The
\* one exception is a user whose second invite admitted him in the middle of
\* his removal: his key stays, so he can be promoted while he is shut out.
AdminsAreAllowed == admins \subseteq access \cup overlapped

\* While no handler is at work, a first restart gives everybody outside the
\* configuration the rights he has now: the memory follows the disk.  Only a
\* user admitted in the middle of his removal gets his access back by it.
Resting == \A h \in Handlers : task[h].pc \notin RoleLocked \cup {"allow"}
RestartChangesNothing ==
    Resting /\ restarts = 0 =>
        \A u \in Users \ EnvAllowed :
            /\ u \in admins <=> u \in Loaded
            /\ u \in access => u \in LoadedAccess
            /\ u \in LoadedAccess => u \in access \cup overlapped

\* An invite admits at most one user (README, Admin panel: "one-time").
InviteOnce == \A i \in Invites : Cardinality(admitted[i]) =< 1

=============================================================================
