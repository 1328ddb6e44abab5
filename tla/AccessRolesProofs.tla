------------------------- MODULE AccessRolesProofs -------------------------
(***************************************************************************)
(* Proofs about AccessRoles, each for every value of the constants: type   *)
(* correctness, that an invite admits one user, that the stored            *)
(* administrators never die out, that administrators are allowed and that, *)
(* before the first crash, the memory mirrors the disk; the last two but   *)
(* for users admitted in the middle of their own removal.                  *)
(***************************************************************************)
EXTENDS AccessRoles, FiniteSetTheorems, TLAPS

\* Some other task only: what one task's step leaves of the others.
OthersKeep(h) == \A g \in Handlers \ {h} : task'[g] = task[g]

\* Moving a task changes its place only.
LEMMA GoMoves ==
    ASSUME task \in [Handlers -> Task], NEW h \in Handlers, NEW pc \in PCs, Go(h, pc)
    PROVE  /\ task' \in [Handlers -> Task] /\ OthersKeep(h)
           /\ task'[h].pc = pc /\ task'[h].user = task[h].user
           /\ task'[h].inv = task[h].inv
    BY DEF Go, Task, OthersKeep

\* A task that ends is idle, and only that task changes.
LEMMA EndMoves ==
    ASSUME task \in [Handlers -> Task], NEW h \in Handlers, End(h)
    PROVE  /\ task' \in [Handlers -> Task] /\ OthersKeep(h)
           /\ task'[h].pc = "idle" /\ task'[h].inv = 0
<1>1. Users # {} BY DEF Task
<1>2. (CHOOSE u \in Users : TRUE) \in Users BY <1>1
<1>3. Idle \in Task
    <2>1. 0 \in 0..MaxInvites BY ConfigOK
    <2>2. "idle" \in PCs BY DEF PCs
    <2> QED BY <1>2, <2>1, <2>2 DEF Idle, Task
<1> QED BY <1>3 DEF End, Idle, OthersKeep

\* A task that begins something has its place, its user and its invite.
LEMMA BeginMoves ==
    ASSUME task \in [Handlers -> Task], NEW h \in Handlers, NEW r \in Task,
           task' = [task EXCEPT ![h] = r]
    PROVE  task' \in [Handlers -> Task] /\ OthersKeep(h) /\ task'[h] = r
    BY DEF OthersKeep

----------------------------------------------------------------------------
(* Type correctness.                                                       *)

\* The initial keys, rights, invites and tasks have their types.
LEMMA TypeInit == Init => TypeOK
<1> SUFFICES ASSUME Init PROVE TypeOK OBVIOUS
<1>1. access \subseteq Users /\ admins \subseteq Users /\ admins # {}
    BY ConfigOK DEF Init, LoadedAccess, Loaded
<1>2. (CHOOSE u \in Users : TRUE) \in Users BY <1>1
<1>3. Idle \in Task
    <2>1. 0 \in 0..MaxInvites BY ConfigOK
    <2>2. "idle" \in PCs BY DEF PCs
    <2> QED BY <1>2, <2>1, <2>2 DEF Idle, Task
<1>4. restarts \in 0..MaxRestarts BY ConfigOK DEF Init
<1> QED BY <1>1, <1>3, <1>4 DEF Init, TypeOK

\* A task's beginning keeps the types.
LEMMA TypeBegin ==
    ASSUME TypeOK, NEW h \in Handlers, Begin(h) PROVE TypeOK'
<1>1. task \in [Handlers -> Task] BY DEF TypeOK
<1>2. ASSUME NEW u \in Users, NEW pc \in PCs, Panel(h, u, pc) PROVE TypeOK'
    <2>1. [pc |-> pc, user |-> u, inv |-> 0] \in Task BY ConfigOK DEF Task
    <2>2. task' \in [Handlers -> Task] BY <1>1, <1>2, <2>1, BeginMoves DEF Panel
    <2> QED BY <1>2, <2>2 DEF Panel, TypeOK, disk, memory, invites
<1>3. ASSUME NEW u \in Users, NEW i \in Invites, StartInvite(h, u, i) PROVE TypeOK'
    <2>1. [pc |-> "start", user |-> u, inv |-> i] \in Task
        <3>1. i \in 0..MaxInvites BY ConfigOK DEF Invites
        <3>2. "start" \in PCs BY DEF PCs
        <3> QED BY <3>1, <3>2 DEF Task
    <2>2. task' \in [Handlers -> Task] BY <1>1, <1>3, <2>1, BeginMoves DEF StartInvite
    <2> QED BY <1>3, <2>2 DEF StartInvite, TypeOK, disk, memory, invites
<1> QED BY <1>2, <1>3 DEF Begin

\* Whatever a step does to its own task, the task keeps its type.
LEMMA StepTask ==
    ASSUME TypeOK, NEW h \in Handlers, Step(h) PROVE task' \in [Handlers -> Task]
<1>1. task \in [Handlers -> Task] BY DEF TypeOK
<1>2. {"setAdmin", "dropAdmin", "rmAllowed", "rmAdmin", "rmProfile", "claim", "allow"}
          \subseteq PCs
    BY DEF PCs
<1>3. End(h) \/ \E pc \in PCs : Go(h, pc)
    BY <1>2 DEF Step, GrantCheck, SetAdmin, RevokeCheck, DropAdmin, RemoveCheck,
           RemoveAllowed, RemoveAdmin, Removed, Consume, Claim, Allow
<1> QED BY <1>1, <1>3, GoMoves, EndMoves

\* A task's step keeps the types.
LEMMA TypeStep ==
    ASSUME TypeOK, NEW h \in Handlers, Step(h) PROVE TypeOK'
<1>1. task' \in [Handlers -> Task] BY StepTask
<1>2. task[h].user \in Users /\ task[h].inv \in 0..MaxInvites BY DEF TypeOK, Task
<1>3. CASE GrantCheck(h) \/ RevokeCheck(h) \/ RemoveCheck(h)
    BY <1>1, <1>3 DEF GrantCheck, RevokeCheck, RemoveCheck, TypeOK, disk, memory, invites
<1>4. CASE SetAdmin(h) \/ DropAdmin(h)
    BY <1>1, <1>2, <1>4 DEF SetAdmin, DropAdmin, TypeOK, invites
<1>5. CASE RemoveAllowed(h) \/ RemoveAdmin(h) \/ Removed(h)
    BY <1>1, <1>2, <1>5
       DEF RemoveAllowed, RemoveAdmin, Removed, TypeOK, disk, memory, invites
<1>6. CASE Consume(h) \/ Claim(h)
    BY <1>1, <1>2, <1>6 DEF Consume, Claim, TypeOK, disk, memory, invites
<1>7. CASE Allow(h)
    BY <1>1, <1>2, <1>7 DEF Allow, TypeOK
<1> QED BY <1>3, <1>4, <1>5, <1>6, <1>7 DEF Step

\* Every step keeps the types.
LEMMA TypeNext == TypeOK /\ [Next]_vars => TypeOK'
<1> SUFFICES ASSUME TypeOK, [Next]_vars PROVE TypeOK' OBVIOUS
<1>1. CASE \E h \in Handlers : Begin(h) \/ Step(h) BY <1>1, TypeBegin, TypeStep
<1>2. CASE \E i \in Invites : CreateInvite(i) \/ InviteExpires(i)
    BY <1>2 DEF CreateInvite, InviteExpires, TypeOK, disk, memory
<1>3. CASE Restart
    <2>1. access' \subseteq Users /\ admins' \subseteq Users
        BY <1>3, ConfigOK DEF Restart, LoadedAccess, Loaded, TypeOK
    <2>2. restarts' \in 0..MaxRestarts BY <1>3, ConfigOK DEF Restart, TypeOK
    <2>3. task' \in [Handlers -> Task]
        <3>1. CASE Handlers = {} BY <1>3, <3>1 DEF Restart
        <3>2. CASE Handlers # {}
            <4>1. PICK h \in Handlers : TRUE BY <3>2
            <4>2. task[h].user \in Users BY <4>1 DEF TypeOK, Task
            <4>3. (CHOOSE u \in Users : TRUE) \in Users BY <4>2
            <4>4. 0 \in 0..MaxInvites /\ "idle" \in PCs BY ConfigOK DEF PCs
            <4> QED BY <1>3, <4>3, <4>4 DEF Restart, Idle, Task
        <3> QED BY <3>1, <3>2
    <2> QED BY <1>3, <2>1, <2>2, <2>3 DEF Restart, TypeOK, disk, invites
<1>4. CASE UNCHANGED vars BY <1>4 DEF vars, TypeOK
<1> QED BY <1>1, <1>2, <1>3, <1>4 DEF Next

\* Type correctness of the access model, for every value of the constants.
THEOREM TypeCorrect == Spec => []TypeOK
    BY TypeInit, TypeNext, PTL DEF Spec

----------------------------------------------------------------------------
(* A stored administrator remains: whoever is about to lose his role       *)
(* leaves another key behind, unless there was none to lose, and in the    *)
(* first process every key is a role in memory.                            *)

\* The lock admits one task at a time.
OneAtWork ==
    \A g, h \in Handlers :
        task[g].pc \in RoleLocked /\ task[h].pc \in RoleLocked => g = h

\* Until a crash, who is stored as an administrator is one in memory.
StoredAdmins == restarts = 0 => adminKeys \subseteq admins

\* Whoever is about to lose the role leaves another administrator behind.
Dropping == {"dropAdmin", "rmAllowed", "rmAdmin"}
AnotherStays ==
    \A h \in Handlers :
        task[h].pc \in Dropping => adminKeys = {} \/ adminKeys \ {task[h].user} # {}

\* Before the memory follows, the removed user has no key left.
KeyDropped ==
    \A h \in Handlers : At(h, "rmProfile") => task[h].user \notin adminKeys

AdminInv == TypeOK /\ OneAtWork /\ StoredAdmins /\ AnotherStays /\ KeyDropped

\* A set of users with more than one member has one besides any given user.
LEMMA AnotherMember ==
    ASSUME NEW S \in SUBSET Users, NEW u, Cardinality(S) > 1
    PROVE  S \ {u} # {}
<1>1. IsFiniteSet(S) BY ConfigOK, FS_Subset
<1>2. SUFFICES ASSUME S \ {u} = {} PROVE FALSE OBVIOUS
<1>3. S = {} \/ S = {u} BY <1>2
<1>4. Cardinality({}) = 0 /\ Cardinality({u}) = 1 BY FS_EmptySet, FS_Singleton
<1> QED BY <1>3, <1>4

\* Tasks that stay out of the lock, with the keys as they were, disturb
\* nothing of the invariant but the types.
LEMMA OutsideLock ==
    ASSUME AdminInv, NEW h \in Handlers, OthersKeep(h),
           task'[h].pc \notin RoleLocked,
           adminKeys' = adminKeys, admins \subseteq admins', restarts' = restarts
    PROVE  OneAtWork' /\ StoredAdmins' /\ AnotherStays' /\ KeyDropped'
<1>1. \A g \in Handlers : task'[g].pc \in RoleLocked => g # h /\ task'[g] = task[g]
    BY DEF OthersKeep
<1>2. OneAtWork' BY <1>1 DEF AdminInv, OneAtWork, RoleLocked
<1>3. StoredAdmins' BY DEF AdminInv, StoredAdmins
<1>4. AnotherStays' BY <1>1 DEF AdminInv, AnotherStays, Dropping, RoleLocked
<1>5. KeyDropped' BY <1>1 DEF AdminInv, KeyDropped, At, RoleLocked
<1> QED BY <1>2, <1>3, <1>4, <1>5

\* A task that works under the lock keeps the invariant if the keys it leaves
\* do, the other tasks being outside.
LEMMA InsideLock ==
    ASSUME AdminInv, NEW h \in Handlers, OthersKeep(h),
           \A g \in Handlers \ {h} : task[g].pc \notin RoleLocked,
           StoredAdmins',
           task'[h].pc \in Dropping => adminKeys' = {} \/ adminKeys' \ {task'[h].user} # {},
           task'[h].pc = "rmProfile" => task'[h].user \notin adminKeys'
    PROVE  OneAtWork' /\ StoredAdmins' /\ AnotherStays' /\ KeyDropped'
<1>1. \A g \in Handlers : task'[g].pc \in RoleLocked => g = h
    BY DEF OthersKeep, RoleLocked
<1>2. OneAtWork' BY <1>1 DEF OneAtWork, RoleLocked
<1>3. AnotherStays' BY <1>1 DEF AnotherStays, Dropping, RoleLocked
<1>4. KeyDropped' BY <1>1 DEF KeyDropped, At, RoleLocked
<1> QED BY <1>2, <1>3, <1>4

\* A task's step keeps an administrator.
LEMMA AdminStep ==
    ASSUME AdminInv, NEW h \in Handlers, Step(h) PROVE AdminInv'
<1>1. TypeOK' BY TypeStep DEF AdminInv
<1>2. task \in [Handlers -> Task] BY DEF AdminInv, TypeOK
<1>3. task[h].pc \in RoleLocked
          => \A g \in Handlers \ {h} : task[g].pc \notin RoleLocked
    BY DEF AdminInv, OneAtWork
<1>13. restarts' = restarts
    BY DEF Step, GrantCheck, SetAdmin, RevokeCheck, DropAdmin, RemoveCheck, RemoveAllowed,
           RemoveAdmin, Removed, Consume, Claim, Allow
<1>4. CASE GrantCheck(h)
    <2>1. RoleLockFree /\ adminKeys' = adminKeys /\ admins' = admins
        BY <1>4 DEF GrantCheck, disk, memory
    <2>2. CASE Go(h, "setAdmin")
        <3>1. /\ OthersKeep(h) /\ task'[h].pc = "setAdmin"
            BY <1>2, <2>2, GoMoves DEF PCs
        <3>2. \A g \in Handlers \ {h} : task[g].pc \notin RoleLocked
            BY <2>1 DEF RoleLockFree
        <3>3. StoredAdmins' BY <1>13, <2>1 DEF AdminInv, StoredAdmins
        <3> QED BY <1>1, <3>1, <3>2, <3>3, InsideLock DEF AdminInv, Dropping
    <2>3. CASE End(h)
        <3>1. OthersKeep(h) /\ task'[h].pc = "idle" BY <1>2, <2>3, EndMoves
        <3> QED BY <1>1, <2>1, <3>1, <1>13, OutsideLock DEF AdminInv, RoleLocked
    <2> QED BY <1>4, <2>2, <2>3 DEF GrantCheck
<1>5. CASE SetAdmin(h)
    <2>1. OthersKeep(h) /\ task'[h].pc = "idle" BY <1>2, <1>5, EndMoves DEF SetAdmin
    <2>2. task[h].pc \in RoleLocked BY <1>5 DEF SetAdmin, At, RoleLocked
    <2>3. StoredAdmins' BY <1>13, <1>5 DEF SetAdmin, AdminInv, StoredAdmins
    <2> QED BY <1>1, <1>3, <2>1, <2>2, <2>3, InsideLock DEF AdminInv, Dropping
<1>6. CASE RevokeCheck(h)
    <2>1. RoleLockFree /\ adminKeys' = adminKeys /\ admins' = admins
        BY <1>6 DEF RevokeCheck, disk, memory
    <2>2. CASE Go(h, "dropAdmin") /\ Cardinality(adminKeys) > 1
        <3>1. /\ OthersKeep(h) /\ task'[h].pc = "dropAdmin"
              /\ task'[h].user = task[h].user
            BY <1>2, <2>2, GoMoves DEF PCs
        <3>2. \A g \in Handlers \ {h} : task[g].pc \notin RoleLocked
            BY <2>1 DEF RoleLockFree
        <3>3. StoredAdmins' BY <1>13, <2>1 DEF AdminInv, StoredAdmins
        <3>4. adminKeys' = {} \/ adminKeys' \ {task'[h].user} # {}
            BY <2>1, <2>2, AnotherMember DEF AdminInv, TypeOK
        <3> QED BY <1>1, <3>1, <3>2, <3>3, <3>4, InsideLock DEF AdminInv
    <2>3. CASE End(h)
        <3>1. OthersKeep(h) /\ task'[h].pc = "idle" BY <1>2, <2>3, EndMoves
        <3> QED BY <1>1, <2>1, <3>1, <1>13, OutsideLock DEF AdminInv, RoleLocked
    <2> QED BY <1>6, <2>2, <2>3 DEF RevokeCheck
<1>7. CASE DropAdmin(h)
    <2>1. OthersKeep(h) /\ task'[h].pc = "idle" BY <1>2, <1>7, EndMoves DEF DropAdmin
    <2>2. task[h].pc \in RoleLocked BY <1>7 DEF DropAdmin, At, RoleLocked
    <2>3. adminKeys = {} \/ adminKeys \ {task[h].user} # {}
        BY <1>7 DEF DropAdmin, AdminInv, AnotherStays, At, Dropping
    <2>4. StoredAdmins' BY <1>13, <1>7, <2>3 DEF DropAdmin, AdminInv, StoredAdmins
    <2> QED BY <1>1, <1>3, <2>1, <2>2, <2>4, InsideLock DEF AdminInv, Dropping
<1>8. CASE RemoveCheck(h)
    <2>1. RoleLockFree /\ adminKeys' = adminKeys /\ admins' = admins
        BY <1>8 DEF RemoveCheck, disk, memory
    <2>2. CASE /\ Go(h, "rmAllowed")
               /\ task[h].user \in adminKeys => Cardinality(adminKeys) > 1
        <3>1. /\ OthersKeep(h) /\ task'[h].pc = "rmAllowed"
              /\ task'[h].user = task[h].user
            BY <1>2, <2>2, GoMoves DEF PCs
        <3>2. \A g \in Handlers \ {h} : task[g].pc \notin RoleLocked
            BY <2>1 DEF RoleLockFree
        <3>3. StoredAdmins' BY <1>13, <2>1 DEF AdminInv, StoredAdmins
        <3>4. adminKeys = {} \/ adminKeys \ {task[h].user} # {}
            <4>1. CASE task[h].user \in adminKeys
                BY <2>2, <4>1, AnotherMember DEF AdminInv, TypeOK
            <4>2. CASE task[h].user \notin adminKeys
                BY <4>2
            <4> QED BY <4>1, <4>2
        <3> QED BY <1>1, <2>1, <3>1, <3>2, <3>3, <3>4, InsideLock DEF AdminInv
    <2>3. CASE End(h)
        <3>1. OthersKeep(h) /\ task'[h].pc = "idle" BY <1>2, <2>3, EndMoves
        <3> QED BY <1>1, <2>1, <3>1, <1>13, OutsideLock DEF AdminInv, RoleLocked
    <2> QED BY <1>8, <2>2, <2>3 DEF RemoveCheck
<1>9. CASE RemoveAllowed(h)
    <2>1. /\ OthersKeep(h) /\ task'[h].pc = "rmAdmin"
          /\ task'[h].user = task[h].user
        BY <1>2, <1>9, GoMoves DEF RemoveAllowed, PCs
    <2>2. task[h].pc \in RoleLocked /\ adminKeys' = adminKeys /\ admins' = admins
        BY <1>9 DEF RemoveAllowed, At, RoleLocked, memory
    <2>3. StoredAdmins' BY <1>13, <2>2 DEF AdminInv, StoredAdmins
    <2>4. adminKeys' = {} \/ adminKeys' \ {task'[h].user} # {}
        BY <1>9, <2>1, <2>2 DEF RemoveAllowed, AdminInv, AnotherStays, At, Dropping
    <2> QED BY <1>1, <1>3, <2>1, <2>2, <2>3, <2>4, InsideLock DEF AdminInv
<1>10. CASE RemoveAdmin(h)
    <2>1. /\ OthersKeep(h) /\ task'[h].pc = "rmProfile"
          /\ task'[h].user = task[h].user
        BY <1>2, <1>10, GoMoves DEF RemoveAdmin, PCs
    <2>2. task[h].pc \in RoleLocked BY <1>10 DEF RemoveAdmin, At, RoleLocked
    <2>3. adminKeys' = adminKeys \ {task[h].user} /\ admins' = admins
        BY <1>10 DEF RemoveAdmin, memory
    <2>4. adminKeys = {} \/ adminKeys \ {task[h].user} # {}
        BY <1>10 DEF RemoveAdmin, AdminInv, AnotherStays, At, Dropping
    <2>5. StoredAdmins' BY <1>13, <2>3, <2>4 DEF AdminInv, StoredAdmins
    <2> QED BY <1>1, <1>3, <2>1, <2>2, <2>3, <2>5, InsideLock DEF AdminInv, Dropping
<1>11. CASE Removed(h)
    <2>1. OthersKeep(h) /\ task'[h].pc = "idle" BY <1>2, <1>11, EndMoves DEF Removed
    <2>2. task[h].pc \in RoleLocked BY <1>11 DEF Removed, At, RoleLocked
    <2>3. task[h].user \notin adminKeys BY <1>11 DEF Removed, AdminInv, KeyDropped
    <2>4. StoredAdmins' BY <1>13, <1>11, <2>3 DEF Removed, AdminInv, StoredAdmins, disk
    <2> QED BY <1>1, <1>3, <2>1, <2>2, <2>4, InsideLock DEF AdminInv, Dropping
<1>12. CASE Consume(h) \/ Claim(h) \/ Allow(h)
    <2>1. adminKeys' = adminKeys /\ admins' = admins
        BY <1>12 DEF Consume, Claim, Allow, disk, memory
    <2>2. Go(h, "claim") \/ Go(h, "allow") \/ End(h)
        BY <1>12 DEF Consume, Claim, Allow
    <2>3. OthersKeep(h) /\ task'[h].pc \in {"claim", "allow", "idle"}
        BY <1>2, <2>2, GoMoves, EndMoves DEF PCs
    <2> QED BY <1>1, <2>1, <2>3, <1>13, OutsideLock DEF AdminInv, RoleLocked
<1> QED
    BY <1>4, <1>5, <1>6, <1>7, <1>8, <1>9, <1>10, <1>11, <1>12 DEF Step

\* Every step keeps an administrator; a crash forgets who was at work.
LEMMA AdminNext ==
    ASSUME AdminInv, [Next]_vars PROVE AdminInv'
<1>1. TypeOK' BY TypeNext DEF AdminInv
<1>2. task \in [Handlers -> Task] BY DEF AdminInv, TypeOK
<1>3. ASSUME NEW h \in Handlers, Begin(h) PROVE AdminInv'
    <2>1. adminKeys' = adminKeys /\ admins' = admins /\ restarts' = restarts
        BY <1>3 DEF Begin, Panel, StartInvite, disk, memory
    <2>2. PICK r \in {"grant", "revoke", "remove", "start"}, u \in Users, i \in 0..MaxInvites :
              task' = [task EXCEPT ![h] = [pc |-> r, user |-> u, inv |-> i]]
        BY <1>3, ConfigOK DEF Begin, Panel, StartInvite, Invites
    <2>3. [pc |-> r, user |-> u, inv |-> i] \in Task BY DEF Task, PCs
    <2>4. OthersKeep(h) /\ task'[h] = [pc |-> r, user |-> u, inv |-> i]
        BY <1>2, <2>2, <2>3, BeginMoves
    <2>5. task'[h].pc \notin RoleLocked BY <2>4 DEF RoleLocked
    <2> QED BY <1>1, <2>1, <2>4, <2>5, OutsideLock DEF AdminInv
<1>4. ASSUME UNCHANGED <<adminKeys, admins, task, restarts>> PROVE AdminInv'
    BY <1>1, <1>4
       DEF AdminInv, OneAtWork, StoredAdmins, AnotherStays, KeyDropped, At
<1>5. CASE Restart
    <2>1. \A h \in Handlers : task'[h].pc = "idle" BY <1>5 DEF Restart, Idle
    <2>2. restarts' # 0 BY <1>5, ConfigOK DEF Restart, AdminInv, TypeOK
    <2> QED BY <1>1, <2>1, <2>2
            DEF AdminInv, OneAtWork, StoredAdmins, AnotherStays, KeyDropped, At, RoleLocked,
                Dropping
<1>6. CASE \E i \in Invites : CreateInvite(i) \/ InviteExpires(i)
    BY <1>4, <1>6 DEF CreateInvite, InviteExpires, disk, memory
<1>7. CASE UNCHANGED vars BY <1>4, <1>7 DEF vars
<1> QED BY <1>3, <1>5, <1>6, <1>7, AdminStep DEF Next

\* The stored administrators of the first process are loaded.
LEMMA AdminInit == Init => AdminInv
<1> SUFFICES ASSUME Init PROVE AdminInv OBVIOUS
<1>1. TypeOK BY TypeInit
<1>2. \A h \in Handlers : task[h].pc = "idle" BY DEF Init, Idle
<1>3. StoredAdmins BY DEF Init, Loaded, StoredAdmins
<1> QED
    BY <1>1, <1>2, <1>3
       DEF AdminInv, OneAtWork, AnotherStays, KeyDropped, RoleLocked, Dropping, At

\* No step takes the last administrator's key.
LEMMA KeysRemain ==
    ASSUME AdminInv, [Next]_vars, adminKeys # {} PROVE adminKeys' # {}
<1>1. ASSUME NEW h \in Handlers, Step(h) PROVE adminKeys' # {}
    <2>1. CASE DropAdmin(h) \/ RemoveAdmin(h)
        <3>1. task[h].pc \in Dropping /\ adminKeys' = adminKeys \ {task[h].user}
            BY <2>1 DEF DropAdmin, RemoveAdmin, At, Dropping
        <3> QED BY <3>1 DEF AdminInv, AnotherStays
    <2>2. CASE ~(DropAdmin(h) \/ RemoveAdmin(h))
        <3>1. adminKeys \subseteq adminKeys'
            BY <1>1, <2>2
               DEF Step, GrantCheck, SetAdmin, RevokeCheck, RemoveCheck, RemoveAllowed,
                   Removed, Consume, Claim, Allow, disk
        <3> QED BY <3>1
    <2> QED BY <2>1, <2>2
<1>2. ASSUME NEW h \in Handlers, Begin(h) PROVE adminKeys' = adminKeys
    BY <1>2 DEF Begin, Panel, StartInvite, disk
<1>3. ASSUME NEW i \in Invites, CreateInvite(i) \/ InviteExpires(i)
      PROVE  adminKeys' = adminKeys
    BY <1>3 DEF CreateInvite, InviteExpires, disk
<1>4. CASE Restart BY <1>4 DEF Restart, disk
<1>5. CASE UNCHANGED vars BY <1>5 DEF vars
<1> QED BY <1>1, <1>2, <1>3, <1>4, <1>5 DEF Next

\* README: "the last active administrator cannot be removed or demoted".  True
\* of the stored ones, for any users, configuration, handlers, invites and
\* crashes: their keys never die out, nor do, until a crash, their roles.
THEOREM AdministratorRemains == Spec => AdminRemains
<1>1. AdminInv /\ [Next]_vars => AdminInv' BY AdminNext
<1>2. AdminInv /\ AdminInv' /\ [Next]_vars
          => [adminKeys # {} => adminKeys' # {} /\ (restarts' = 0 => admins' # {})]_vars
    <2> SUFFICES ASSUME AdminInv, AdminInv', [Next]_vars, adminKeys # {}
                 PROVE  adminKeys' # {} /\ (restarts' = 0 => admins' # {})
        OBVIOUS
    <2>1. adminKeys' # {} BY KeysRemain
    <2> QED BY <2>1 DEF AdminInv, StoredAdmins
<1> QED BY AdminInit, <1>1, <1>2, PTL DEF Spec, AdminRemains

----------------------------------------------------------------------------
(* An invite admits one user: between Consume and Claim the lock keeps the *)
(* record to one handler, and from Claim to Allow the record is gone.      *)

\* The lock lets one handler have looked at a record.
OneClaim == \A g, h \in Handlers : At(g, "claim") /\ At(h, "claim") => g = h

\* Handlers consume invites that exist; the record being claimed is there.
ClaimsThere ==
    \A h \in Handlers :
        /\ At(h, "start") => task[h].inv \in Invites
        /\ At(h, "claim") => /\ task[h].inv \in Invites
                            /\ invite[task[h].inv] \in {"open", "expired"}

\* Whoever has claimed a record is the only one, and it has admitted nobody.
AllowsFresh ==
    \A h \in Handlers :
        At(h, "allow") =>
            /\ task[h].inv \in Invites
            /\ invite[task[h].inv] = "gone" /\ admitted[task[h].inv] = {}
            /\ \A g \in Handlers : At(g, "allow") /\ task[g].inv = task[h].inv => g = h

\* A record still there has admitted nobody, any other at most one user.
AdmittedOnce ==
    \A i \in Invites :
        /\ invite[i] # "gone" => admitted[i] = {}
        /\ admitted[i] = {} \/ \E u \in Users : admitted[i] = {u}

InviteInv == TypeOK /\ OneClaim /\ ClaimsThere /\ AllowsFresh /\ AdmittedOnce

\* A task that goes anywhere but to an invite's record or its user disturbs
\* nothing while the invites are as they were.
LEMMA OutsideInvites ==
    ASSUME InviteInv, NEW h \in Handlers, OthersKeep(h),
           task'[h].pc \notin {"claim", "allow"},
           task'[h].pc = "start" => task'[h].inv \in Invites,
           UNCHANGED <<invite, admitted>>
    PROVE  OneClaim' /\ ClaimsThere' /\ AllowsFresh' /\ AdmittedOnce'
<1>1. \A g \in Handlers : task'[g].pc \in {"claim", "allow"} => g # h /\ task'[g] = task[g]
    BY DEF OthersKeep
<1>2. \A g \in Handlers : task'[g].pc = "start" => g = h \/ task'[g] = task[g]
    BY DEF OthersKeep
<1>3. OneClaim' BY <1>1 DEF InviteInv, OneClaim, At
<1>4. ClaimsThere' BY <1>1, <1>2 DEF InviteInv, ClaimsThere, At
<1>5. AllowsFresh' BY <1>1 DEF InviteInv, AllowsFresh, At
<1>6. AdmittedOnce' BY DEF InviteInv, AdmittedOnce
<1> QED BY <1>3, <1>4, <1>5, <1>6

\* The handlers of the panel leave the invites alone.
LEMMA InvitePanel ==
    ASSUME InviteInv, NEW h \in Handlers,
           \/ GrantCheck(h) \/ SetAdmin(h) \/ RevokeCheck(h) \/ DropAdmin(h)
           \/ RemoveCheck(h) \/ RemoveAllowed(h) \/ RemoveAdmin(h) \/ Removed(h)
    PROVE  OneClaim' /\ ClaimsThere' /\ AllowsFresh' /\ AdmittedOnce'
<1>1. task \in [Handlers -> Task] BY DEF InviteInv, TypeOK
<1>2. UNCHANGED <<invite, admitted>>
    BY DEF GrantCheck, SetAdmin, RevokeCheck, DropAdmin, RemoveCheck, RemoveAllowed,
           RemoveAdmin, Removed, invites
<1>3. \/ End(h)
      \/ \E pc \in {"setAdmin", "dropAdmin", "rmAllowed", "rmAdmin", "rmProfile"} : Go(h, pc)
    BY DEF GrantCheck, SetAdmin, RevokeCheck, DropAdmin, RemoveCheck, RemoveAllowed,
           RemoveAdmin, Removed
<1>4. OthersKeep(h) /\ task'[h].pc \notin {"start", "claim", "allow"}
    BY <1>1, <1>3, GoMoves, EndMoves DEF PCs
<1> QED BY <1>2, <1>4, OutsideInvites

\* consume, whoever calls it and whatever the record is.
LEMMA InviteConsume ==
    ASSUME InviteInv, NEW h \in Handlers, Consume(h)
    PROVE  OneClaim' /\ ClaimsThere' /\ AllowsFresh' /\ AdmittedOnce'
<1>1. task \in [Handlers -> Task] BY DEF InviteInv, TypeOK
<1> DEFINE i == task[h].inv
<1>2. i \in Invites BY DEF Consume, InviteInv, ClaimsThere
<1>3. admitted' = admitted /\ \A g \in Handlers : ~At(g, "claim")
    BY DEF Consume, InviteLockFree
<1>4. CASE invite[i] = "open" /\ Go(h, "claim") /\ UNCHANGED invite
    <2>1. OthersKeep(h) /\ task'[h].pc = "claim" /\ task'[h].inv = i
        BY <1>1, <1>4, GoMoves DEF PCs
    <2>2. OneClaim' BY <1>3, <2>1 DEF OneClaim, At, OthersKeep
    <2>3. ClaimsThere'
        BY <1>2, <1>3, <1>4, <2>1 DEF InviteInv, ClaimsThere, At, OthersKeep
    <2>4. AllowsFresh' BY <1>3, <1>4, <2>1 DEF InviteInv, AllowsFresh, At, OthersKeep
    <2>5. AdmittedOnce' BY <1>3, <1>4 DEF InviteInv, AdmittedOnce
    <2> QED BY <2>2, <2>3, <2>4, <2>5
<1>5. CASE End(h) /\ UNCHANGED invite
    <2>1. OthersKeep(h) /\ task'[h].pc = "idle" BY <1>1, <1>5, EndMoves
    <2> QED BY <1>3, <1>5, <2>1, OutsideInvites
<1>6. CASE invite[i] = "expired" /\ End(h) /\ invite' = [invite EXCEPT ![i] = "gone"]
    <2>1. OthersKeep(h) /\ task'[h].pc = "idle" BY <1>1, <1>6, EndMoves
    <2>2. /\ invite'[i] = "gone"
          /\ \A j \in Invites \ {i} : invite'[j] = invite[j]
        BY <1>2, <1>6 DEF InviteInv, TypeOK
    <2>3. OneClaim' BY <1>3, <2>1 DEF OneClaim, At, OthersKeep
    <2>4. ClaimsThere' BY <1>3, <2>1 DEF InviteInv, ClaimsThere, At, OthersKeep
    <2>5. AllowsFresh' BY <1>3, <2>1, <2>2 DEF InviteInv, AllowsFresh, At, OthersKeep
    <2>6. AdmittedOnce' BY <1>3, <2>2 DEF InviteInv, AdmittedOnce
    <2> QED BY <2>3, <2>4, <2>5, <2>6
<1> QED BY <1>4, <1>5, <1>6 DEF Consume

\* Deleting the record leaves its claimer the only one to use it.
LEMMA InviteClaim ==
    ASSUME InviteInv, NEW h \in Handlers, Claim(h)
    PROVE  OneClaim' /\ ClaimsThere' /\ AllowsFresh' /\ AdmittedOnce'
<1>1. task \in [Handlers -> Task] BY DEF InviteInv, TypeOK
<1> DEFINE i == task[h].inv
<1>2. i \in Invites /\ invite[i] \in {"open", "expired"}
    BY DEF Claim, InviteInv, ClaimsThere
<1>3. /\ admitted' = admitted /\ admitted[i] = {}
      /\ invite'[i] = "gone" /\ \A j \in Invites \ {i} : invite'[j] = invite[j]
    BY <1>2 DEF Claim, InviteInv, TypeOK, AdmittedOnce
<1>4. OthersKeep(h) /\ task'[h].pc = "allow" /\ task'[h].inv = i
    BY <1>1, GoMoves DEF Claim, PCs
<1>5. \A g \in Handlers \ {h} : ~At(g, "claim") BY DEF Claim, InviteInv, OneClaim
<1>6. \A g \in Handlers : At(g, "allow") => task[g].inv # i
    BY <1>2 DEF InviteInv, AllowsFresh
<1>7. OneClaim' BY <1>4, <1>5 DEF OneClaim, At, OthersKeep
<1>8. ClaimsThere' BY <1>4, <1>5 DEF InviteInv, ClaimsThere, At, OthersKeep
<1>9. AllowsFresh'
    BY <1>2, <1>3, <1>4, <1>6 DEF InviteInv, AllowsFresh, At, OthersKeep
<1>10. AdmittedOnce' BY <1>3 DEF InviteInv, AdmittedOnce
<1> QED BY <1>7, <1>8, <1>9, <1>10

\* The claimer admits its user, the first and the last of the invite.
LEMMA InviteAllow ==
    ASSUME InviteInv, NEW h \in Handlers, Allow(h)
    PROVE  OneClaim' /\ ClaimsThere' /\ AllowsFresh' /\ AdmittedOnce'
<1>1. task \in [Handlers -> Task] BY DEF InviteInv, TypeOK
<1> DEFINE i == task[h].inv
<1>2. /\ i \in Invites /\ invite[i] = "gone" /\ admitted[i] = {}
      /\ \A g \in Handlers \ {h} : At(g, "allow") => task[g].inv # i
    BY DEF Allow, InviteInv, AllowsFresh
<1>3. task[h].user \in Users BY <1>1 DEF Task
<1>4. /\ invite' = invite /\ admitted'[i] = {task[h].user}
      /\ \A j \in Invites \ {i} : admitted'[j] = admitted[j]
    BY <1>2 DEF Allow, InviteInv, TypeOK
<1>5. OthersKeep(h) /\ task'[h].pc = "idle" BY <1>1, EndMoves DEF Allow
<1>6. OneClaim' BY <1>5 DEF InviteInv, OneClaim, At, OthersKeep
<1>7. ClaimsThere' BY <1>4, <1>5 DEF InviteInv, ClaimsThere, At, OthersKeep
<1>8. AllowsFresh' BY <1>2, <1>4, <1>5 DEF InviteInv, AllowsFresh, At, OthersKeep
<1>9. AdmittedOnce' BY <1>2, <1>3, <1>4 DEF InviteInv, AdmittedOnce
<1> QED BY <1>6, <1>7, <1>8, <1>9

\* Every step keeps the invites one-time.
LEMMA InviteNext == ASSUME InviteInv, [Next]_vars PROVE InviteInv'
<1>1. TypeOK' BY TypeNext DEF InviteInv
<1>2. task \in [Handlers -> Task] BY DEF InviteInv, TypeOK
<1>3. ASSUME NEW h \in Handlers, Begin(h) PROVE InviteInv'
    <2>1. UNCHANGED <<invite, admitted>> BY <1>3 DEF Begin, Panel, StartInvite, invites
    <2>2. PICK r \in {"grant", "revoke", "remove", "start"}, u \in Users, i \in 0..MaxInvites :
              /\ task' = [task EXCEPT ![h] = [pc |-> r, user |-> u, inv |-> i]]
              /\ r = "start" => i \in Invites
        BY <1>3, ConfigOK DEF Begin, Panel, StartInvite, Invites
    <2>3. [pc |-> r, user |-> u, inv |-> i] \in Task BY DEF Task, PCs
    <2>4. OthersKeep(h) /\ task'[h] = [pc |-> r, user |-> u, inv |-> i]
        BY <1>2, <2>2, <2>3, BeginMoves
    <2> QED BY <1>1, <2>1, <2>2, <2>4, OutsideInvites DEF InviteInv
<1>4. ASSUME NEW h \in Handlers, Step(h) PROVE InviteInv'
    BY <1>1, <1>4, InvitePanel, InviteConsume, InviteClaim, InviteAllow DEF Step, InviteInv
<1>5. ASSUME NEW i \in Invites, CreateInvite(i) \/ InviteExpires(i) PROVE InviteInv'
    <2>1. task' = task /\ admitted' = admitted BY <1>5 DEF CreateInvite, InviteExpires
    <2>2. /\ invite[i] \in {"none", "open"} /\ invite'[i] \in {"open", "expired"}
          /\ invite[i] = "open" => invite'[i] = "expired"
          /\ \A j \in Invites \ {i} : invite'[j] = invite[j]
        BY <1>5 DEF CreateInvite, InviteExpires, InviteInv, TypeOK
    <2>3. OneClaim' BY <2>1 DEF InviteInv, OneClaim, At
    <2>4. ClaimsThere' BY <2>1, <2>2 DEF InviteInv, ClaimsThere, At
    <2>5. AllowsFresh' BY <2>1, <2>2 DEF InviteInv, AllowsFresh, At
    <2>6. AdmittedOnce' BY <2>1, <2>2 DEF InviteInv, AdmittedOnce
    <2> QED BY <1>1, <2>3, <2>4, <2>5, <2>6 DEF InviteInv
<1>6. CASE Restart
    <2>1. \A h \in Handlers : task'[h].pc = "idle" BY <1>6 DEF Restart, Idle
    <2>2. AdmittedOnce' BY <1>6 DEF Restart, invites, InviteInv, AdmittedOnce
    <2> QED BY <1>1, <2>1, <2>2 DEF InviteInv, OneClaim, ClaimsThere, AllowsFresh, At
<1>7. CASE UNCHANGED vars
    BY <1>1, <1>7
       DEF vars, InviteInv, OneClaim, ClaimsThere, AllowsFresh, AdmittedOnce, At
<1> QED BY <1>3, <1>4, <1>5, <1>6, <1>7 DEF Next

\* The first process finds no invite in use.
LEMMA InviteInit == Init => InviteInv
<1> SUFFICES ASSUME Init PROVE InviteInv OBVIOUS
<1>1. \A h \in Handlers : task[h].pc = "idle" BY DEF Init, Idle
<1>2. AdmittedOnce BY DEF Init, AdmittedOnce
<1> QED BY <1>1, <1>2, TypeInit DEF InviteInv, OneClaim, ClaimsThere, AllowsFresh, At

\* README: invite links are one-time.  For any users, handlers, invites and
\* crashes, an invite admits at most one user.
THEOREM InvitesAdmitOne == Spec => []InviteOnce
<1>1. InviteInv => InviteOnce
    <2> SUFFICES ASSUME AdmittedOnce, NEW i \in Invites PROVE Cardinality(admitted[i]) =< 1
        BY DEF InviteInv, InviteOnce
    <2>1. CASE admitted[i] = {}
        <3>1. Cardinality(admitted[i]) = 0 BY <2>1, FS_EmptySet
        <3> QED BY <3>1
    <2>2. CASE \E u \in Users : admitted[i] = {u}
        <3>1. PICK u \in Users : admitted[i] = {u} BY <2>2
        <3>2. Cardinality({u}) = 1 BY FS_Singleton
        <3> QED BY <3>1, <3>2
    <2> QED BY <2>1, <2>2 DEF AdmittedOnce
<1>2. InviteInv /\ [Next]_vars => InviteInv' BY InviteNext
<1> QED BY InviteInit, <1>1, <1>2, PTL DEF Spec

----------------------------------------------------------------------------
(* Administrators are allowed, crashes included: the memory holds at least *)
(* what is stored, but for those who were admitted while being removed.    *)

\* Who is allowed, or was admitted in the middle of his removal.
Admitted == access \cup overlapped

\* Who is stored has been admitted.
KeysLoaded == allowedKeys \subseteq Admitted

\* Somebody about to get the role has been admitted.
GrantsAllowed == \A h \in Handlers : At(h, "setAdmin") => task[h].user \in Admitted

\* Whoever is being removed has no key, unless he was admitted meanwhile.
RemovalsInOrder ==
    \A h \in Handlers :
        task[h].pc \in {"rmAdmin", "rmProfile"} =>
            task[h].user \notin allowedKeys \/ task[h].user \in overlapped

AllowedInv ==
    /\ TypeOK /\ OneAtWork /\ AdminsAreAllowed /\ KeysLoaded /\ GrantsAllowed
    /\ RemovalsInOrder

\* A task that leaves the allow-list alone, and of the keys drops some at
\* most: enough to look at that task.
LEMMA AllowedTask ==
    ASSUME AllowedInv, TypeOK', NEW h \in Handlers, OthersKeep(h),
           access' = access, overlapped' = overlapped,
           allowedKeys' \subseteq allowedKeys, admins' \subseteq Admitted,
           task'[h].pc \in RoleLocked => task[h].pc \in RoleLocked \/ RoleLockFree,
           task'[h].pc = "setAdmin" => task'[h].user \in Admitted,
           task'[h].pc \in {"rmAdmin", "rmProfile"} =>
               task'[h].user \notin allowedKeys' \/ task'[h].user \in overlapped
    PROVE  AllowedInv'
<1>1. \A g \in Handlers : g = h \/ task'[g] = task[g]
    BY DEF OthersKeep
<1>2. OneAtWork'
    BY <1>1 DEF AllowedInv, OneAtWork, RoleLockFree
<1>3. AdminsAreAllowed' /\ KeysLoaded'
    BY DEF AllowedInv, AdminsAreAllowed, KeysLoaded, Admitted
<1>4. GrantsAllowed'
    BY <1>1 DEF AllowedInv, GrantsAllowed, Admitted, At
<1>5. RemovalsInOrder'
    BY <1>1 DEF AllowedInv, RemovalsInOrder
<1> QED BY <1>2, <1>3, <1>4, <1>5 DEF AllowedInv

\* Handlers begin outside of both locks.
LEMMA AllowedBegin ==
    ASSUME AllowedInv, NEW h \in Handlers, Begin(h) PROVE AllowedInv'
<1>1. task \in [Handlers -> Task] BY DEF AllowedInv, TypeOK
<1>2. /\ access' = access /\ allowedKeys' = allowedKeys /\ admins' = admins
      /\ overlapped' = overlapped
    BY DEF Begin, Panel, StartInvite, disk, memory, invites
<1>3. PICK r \in {"grant", "revoke", "remove", "start"}, u \in Users, i \in 0..MaxInvites :
          task' = [task EXCEPT ![h] = [pc |-> r, user |-> u, inv |-> i]]
    BY ConfigOK DEF Begin, Panel, StartInvite, Invites
<1>4. [pc |-> r, user |-> u, inv |-> i] \in Task BY DEF Task, PCs
<1>5. OthersKeep(h) /\ task'[h].pc = r BY <1>1, <1>3, <1>4, BeginMoves
<1>6. admins' \subseteq Admitted BY <1>2 DEF AllowedInv, AdminsAreAllowed, Admitted
<1>7. TypeOK' BY TypeBegin DEF AllowedInv
<1> QED BY <1>2, <1>5, <1>6, <1>7, AllowedTask DEF RoleLocked

\* The handlers of the panel, up to the last commit of a removal, and consume.
LEMMA AllowedPanel ==
    ASSUME AllowedInv, NEW h \in Handlers,
           \/ GrantCheck(h) \/ SetAdmin(h) \/ RevokeCheck(h) \/ DropAdmin(h)
           \/ RemoveCheck(h) \/ RemoveAllowed(h) \/ RemoveAdmin(h)
           \/ Consume(h) \/ Claim(h)
    PROVE  AllowedInv'
<1>1. task \in [Handlers -> Task] BY DEF AllowedInv, TypeOK
<1>2. access' = access /\ overlapped' = overlapped
    BY DEF GrantCheck, SetAdmin, RevokeCheck, DropAdmin, RemoveCheck, RemoveAllowed,
           RemoveAdmin, Consume, Claim, memory, invites
<1>3. TypeOK' BY TypeStep DEF AllowedInv, Step
<1>4. admins \subseteq Admitted /\ allowedKeys \subseteq Admitted
    BY DEF AllowedInv, AdminsAreAllowed, KeysLoaded, Admitted
<1>5. CASE /\ GrantCheck(h) \/ RevokeCheck(h) \/ RemoveCheck(h)
           /\ ~End(h)
    <2>1. RoleLockFree /\ allowedKeys' = allowedKeys /\ admins' = admins
        BY <1>5 DEF GrantCheck, RevokeCheck, RemoveCheck, disk, memory
    <2>2. PICK pc \in {"setAdmin", "dropAdmin", "rmAllowed"} :
              Go(h, pc) /\ (pc # "dropAdmin" => task[h].user \in allowedKeys)
        BY <1>5 DEF GrantCheck, RevokeCheck, RemoveCheck
    <2>3. OthersKeep(h) /\ task'[h].pc = pc /\ task'[h].user = task[h].user
        BY <1>1, <2>2, GoMoves DEF PCs
    <2> QED BY <1>2, <1>3, <1>4, <2>1, <2>2, <2>3, AllowedTask
<1>6. CASE End(h)
    <2>1. OthersKeep(h) /\ task'[h].pc = "idle" BY <1>1, <1>6, EndMoves
    <2>2. allowedKeys' \subseteq allowedKeys
        BY DEF GrantCheck, SetAdmin, RevokeCheck, DropAdmin, RemoveCheck, RemoveAllowed,
               RemoveAdmin, Consume, Claim, disk
    <2>3. SetAdmin(h) => admins' \subseteq Admitted
        BY <1>4 DEF SetAdmin, AllowedInv, GrantsAllowed
    <2>4. admins' \subseteq Admitted
        BY <1>4, <2>3 DEF GrantCheck, RevokeCheck, DropAdmin, RemoveCheck, RemoveAllowed,
                          RemoveAdmin, Consume, Claim, memory
    <2> QED BY <1>2, <1>3, <2>1, <2>2, <2>4, AllowedTask DEF RoleLocked
<1>7. CASE RemoveAllowed(h)
    <2>1. /\ OthersKeep(h) /\ task'[h].pc = "rmAdmin"
          /\ task'[h].user = task[h].user
        BY <1>1, <1>7, GoMoves DEF RemoveAllowed, PCs
    <2>2. /\ task[h].pc = "rmAllowed" /\ admins' = admins
          /\ allowedKeys' = allowedKeys \ {task[h].user}
        BY <1>7 DEF RemoveAllowed, At, memory
    <2>3. task[h].pc \in RoleLocked BY <2>2 DEF RoleLocked
    <2> QED BY <1>2, <1>3, <1>4, <2>1, <2>2, <2>3, AllowedTask
<1>8. CASE RemoveAdmin(h)
    <2>1. /\ OthersKeep(h) /\ task'[h].pc = "rmProfile"
          /\ task'[h].user = task[h].user
        BY <1>1, <1>8, GoMoves DEF RemoveAdmin, PCs
    <2>2. task[h].pc = "rmAdmin" /\ admins' = admins /\ allowedKeys' = allowedKeys
        BY <1>8 DEF RemoveAdmin, At, memory
    <2>3. task[h].user \notin allowedKeys \/ task[h].user \in overlapped
        BY <2>2 DEF AllowedInv, RemovalsInOrder
    <2>4. task[h].pc \in RoleLocked BY <2>2 DEF RoleLocked
    <2> QED BY <1>2, <1>3, <1>4, <2>1, <2>2, <2>3, <2>4, AllowedTask
<1>9. CASE (Consume(h) \/ Claim(h)) /\ ~End(h)
    <2>1. PICK pc \in {"claim", "allow"} : Go(h, pc)
        BY <1>9 DEF Consume, Claim
    <2>2. OthersKeep(h) /\ task'[h].pc = pc BY <1>1, <2>1, GoMoves DEF PCs
    <2>3. allowedKeys' = allowedKeys /\ admins' = admins
        BY <1>9 DEF Consume, Claim, disk, memory
    <2> QED BY <1>2, <1>3, <1>4, <2>2, <2>3, AllowedTask DEF RoleLocked
<1>10. SetAdmin(h) \/ DropAdmin(h) => End(h)
    BY DEF SetAdmin, DropAdmin
<1> QED BY <1>5, <1>6, <1>7, <1>8, <1>9, <1>10

\* The memory follows: the role goes with the right, and nothing is stored
\* unless the user was admitted meanwhile.
LEMMA AllowedRemoved ==
    ASSUME AllowedInv, NEW h \in Handlers, Removed(h) PROVE AllowedInv'
<1> DEFINE u == task[h].user
<1>1. task \in [Handlers -> Task] BY DEF AllowedInv, TypeOK
<1>2. OthersKeep(h) /\ task'[h].pc = "idle" BY <1>1, EndMoves DEF Removed
<1>3. /\ access' = access \ {u} /\ admins' = admins \ {u}
      /\ allowedKeys' = allowedKeys /\ overlapped' = overlapped
      /\ task[h].pc = "rmProfile"
    BY DEF Removed, disk, invites, At
<1>4. \A g \in Handlers : task'[g].pc \in RoleLocked => FALSE
    BY <1>2, <1>3 DEF AllowedInv, OneAtWork, OthersKeep, RoleLocked
<1>5. u \notin allowedKeys \/ u \in overlapped
    BY <1>3 DEF AllowedInv, RemovalsInOrder
<1>6. OneAtWork' /\ GrantsAllowed' /\ RemovalsInOrder'
    BY <1>4 DEF OneAtWork, GrantsAllowed, RemovalsInOrder, RoleLocked, At
<1>7. AdminsAreAllowed' /\ KeysLoaded'
    BY <1>3, <1>5 DEF AllowedInv, AdminsAreAllowed, KeysLoaded, Admitted
<1>8. TypeOK' BY TypeStep DEF AllowedInv, Step
<1> QED BY <1>6, <1>7, <1>8 DEF AllowedInv

\* Whoever is admitted is allowed and stored; if that happens in the middle of
\* his removal, the history says so.
LEMMA AllowedAllow ==
    ASSUME AllowedInv, NEW h \in Handlers, Allow(h) PROVE AllowedInv'
<1> DEFINE u == task[h].user
<1>1. task \in [Handlers -> Task] BY DEF AllowedInv, TypeOK
<1>2. OthersKeep(h) /\ task'[h].pc = "idle" BY <1>1, EndMoves DEF Allow
<1>3. /\ access' = access \cup {u} /\ allowedKeys' = allowedKeys \cup {u}
      /\ admins' = admins
      /\ overlapped' = IF BeingRemoved(u) THEN overlapped \cup {u} ELSE overlapped \ {u}
    BY DEF Allow
<1>4. \A g \in Handlers : g = h \/ task'[g] = task[g] BY <1>2 DEF OthersKeep
<1>5. Admitted \subseteq Admitted' /\ u \in Admitted' BY <1>3 DEF Admitted
<1>6. OneAtWork' BY <1>2, <1>4 DEF AllowedInv, OneAtWork, RoleLocked
<1>7. AdminsAreAllowed' /\ KeysLoaded'
    BY <1>3, <1>5 DEF AllowedInv, AdminsAreAllowed, KeysLoaded, Admitted
<1>8. GrantsAllowed' BY <1>2, <1>4, <1>5 DEF AllowedInv, GrantsAllowed, At
<1>9. RemovalsInOrder'
    <2> SUFFICES ASSUME NEW g \in Handlers, task'[g].pc \in {"rmAdmin", "rmProfile"}
                 PROVE  task'[g].user \notin allowedKeys' \/ task'[g].user \in overlapped'
        BY DEF RemovalsInOrder
    <2>1. task'[g] = task[g] BY <1>2, <1>4
    <2>2. CASE task[g].user = u
        <3>1. BeingRemoved(u) BY <2>1, <2>2 DEF BeingRemoved
        <3> QED BY <1>3, <2>1, <2>2, <3>1
    <2>3. CASE task[g].user # u
        BY <1>3, <2>1, <2>3 DEF AllowedInv, RemovalsInOrder
    <2> QED BY <2>2, <2>3
<1>10. TypeOK' BY TypeStep DEF AllowedInv, Step
<1> QED BY <1>6, <1>7, <1>8, <1>9, <1>10 DEF AllowedInv

\* Every step, crashes included.
LEMMA AllowedNext ==
    ASSUME AllowedInv, [Next]_vars PROVE AllowedInv'
<1>1. ASSUME NEW h \in Handlers, Step(h) PROVE AllowedInv'
    BY <1>1, AllowedPanel, AllowedRemoved, AllowedAllow DEF Step
<1>2. TypeOK' BY TypeNext DEF AllowedInv
<1>3. ASSUME UNCHANGED <<allowedKeys, access, admins, overlapped, task>> PROVE AllowedInv'
    BY <1>2, <1>3 DEF AllowedInv, OneAtWork, AdminsAreAllowed, KeysLoaded, GrantsAllowed,
                      RemovalsInOrder, Admitted, At
<1>4. ASSUME NEW i \in Invites, CreateInvite(i) \/ InviteExpires(i) PROVE AllowedInv'
    BY <1>3, <1>4 DEF CreateInvite, InviteExpires, disk, memory
<1>5. CASE Restart
    <2>1. \A h \in Handlers : task'[h].pc = "idle" BY <1>5 DEF Restart, Idle
    <2>2. AdminsAreAllowed' /\ KeysLoaded'
        BY <1>5, ConfigOK DEF Restart, disk, Loaded, LoadedAccess, AdminsAreAllowed,
                              KeysLoaded, Admitted
    <2> QED BY <1>2, <2>1, <2>2
            DEF AllowedInv, OneAtWork, GrantsAllowed, RemovalsInOrder, RoleLocked, At
<1>6. CASE UNCHANGED vars BY <1>3, <1>6 DEF vars
<1> QED BY <1>1, <1>4, <1>5, <1>6, AllowedBegin DEF Next

\* What a first process has loaded is consistent.
LEMMA AllowedInit == Init => AllowedInv
<1> SUFFICES ASSUME Init PROVE AllowedInv OBVIOUS
<1>1. \A h \in Handlers : task[h].pc = "idle" BY DEF Init, Idle
<1>2. AdminsAreAllowed /\ KeysLoaded
    BY ConfigOK DEF Init, Loaded, LoadedAccess, AdminsAreAllowed, KeysLoaded, Admitted
<1> QED BY <1>1, <1>2, TypeInit DEF AllowedInv, OneAtWork, GrantsAllowed, RemovalsInOrder,
                                    RoleLocked, At

\* The panel checks the role only; so nobody may keep the role when he is no
\* longer allowed.  For any users, configuration, handlers, invites and
\* crashes, but for a user admitted in the middle of his removal.
THEOREM AdministratorsAllowed == Spec => []AdminsAreAllowed
<1>1. AllowedInv /\ [Next]_vars => AllowedInv' BY AllowedNext
<1>2. AllowedInv => AdminsAreAllowed BY DEF AllowedInv
<1> QED BY AllowedInit, <1>1, <1>2, PTL DEF Spec

----------------------------------------------------------------------------
(* Before the first crash, memory and disk say the same of everybody who   *)
(* is neither configured nor being removed, but for the access of a user   *)
(* admitted in the middle of his removal.                                  *)

Leaving(u, pcs) == \E h \in Handlers : task[h].pc \in pcs /\ task[h].user = u

MirrorInv ==
    /\ \A u \in Users \ EnvAllowed :
          /\ u \in access => u \in allowedKeys \/ Leaving(u, {"rmAdmin", "rmProfile"})
          /\ u \in admins => u \in adminKeys \/ Leaving(u, {"rmProfile"})
    /\ \A u \in adminKeys : u \in admins /\ (u \in allowedKeys \/ Leaving(u, {"rmAdmin"}))
    /\ \A h \in Handlers :
          /\ At(h, "rmProfile") => task[h].user \notin adminKeys
          /\ At(h, "setAdmin") => task[h].user \in allowedKeys

\* A handler that is neither in the middle of a removal nor about to be
\* changes nothing of who is leaving.
LEMMA MirrorTask ==
    ASSUME MirrorInv, NEW h \in Handlers, OthersKeep(h),
           UNCHANGED <<allowedKeys, adminKeys, access, admins>>,
           task[h].pc \notin {"rmAdmin", "rmProfile"},
           task'[h].pc # "rmProfile",
           task'[h].pc = "setAdmin" => task'[h].user \in allowedKeys
    PROVE  MirrorInv'
<1>1. \A g \in Handlers : g = h \/ task'[g] = task[g] BY DEF OthersKeep
<1>2. \A u \in Users :
          /\ Leaving(u, {"rmAdmin", "rmProfile"}) => Leaving(u, {"rmAdmin", "rmProfile"})'
          /\ Leaving(u, {"rmProfile"}) => Leaving(u, {"rmProfile"})'
    BY <1>1 DEF Leaving
<1>3. \A u \in adminKeys : Leaving(u, {"rmAdmin"}) => Leaving(u, {"rmAdmin"})'
    BY <1>1 DEF Leaving
<1>4. \A g \in Handlers :
          /\ At(g, "rmProfile")' => task'[g].user \notin adminKeys
          /\ At(g, "setAdmin")' => task'[g].user \in allowedKeys
    BY <1>1 DEF MirrorInv, At
<1> QED BY <1>2, <1>3, <1>4 DEF MirrorInv

\* With role_lock held by one handler, nobody else is leaving or promoted.
LEMMA MirrorAlone ==
    ASSUME OneAtWork, NEW h \in Handlers, task[h].pc \in RoleLocked, OthersKeep(h)
    PROVE  /\ \A g \in Handlers \ {h} : task'[g].pc \notin RoleLocked
           /\ \A u, P : Leaving(u, P) /\ P \subseteq RoleLocked
                  => task[h].pc \in P /\ task[h].user = u
<1>1. \A g \in Handlers \ {h} : task[g].pc \notin RoleLocked /\ task'[g] = task[g]
    BY DEF OneAtWork, OthersKeep
<1> QED BY <1>1 DEF Leaving

\* The steps that change what is stored, or who has the role.
LEMMA MirrorLocked ==
    ASSUME MirrorInv, AllowedInv, NEW h \in Handlers,
           \/ SetAdmin(h) \/ DropAdmin(h) \/ RemoveAllowed(h) \/ RemoveAdmin(h) \/ Removed(h)
    PROVE  MirrorInv'
<1> DEFINE w == task[h].user
<1>1. task \in [Handlers -> Task] BY DEF AllowedInv, TypeOK
<1>2. task[h].pc \in RoleLocked /\ OneAtWork
    BY DEF SetAdmin, DropAdmin, RemoveAllowed, RemoveAdmin, Removed, At, RoleLocked, AllowedInv
<1>3. CASE SetAdmin(h) \/ DropAdmin(h)
    <2>1. OthersKeep(h) /\ task'[h].pc = "idle"
        BY <1>1, <1>3, EndMoves DEF SetAdmin, DropAdmin
    <2>2. /\ task[h].pc \in {"setAdmin", "dropAdmin"}
          /\ allowedKeys' = allowedKeys /\ access' = access
        BY <1>3 DEF SetAdmin, DropAdmin, At
    <2>3. \A g \in Handlers : task'[g].pc \notin RoleLocked
        BY <1>2, <2>1, MirrorAlone DEF RoleLocked
    <2>4. \A u : /\ ~Leaving(u, {"rmAdmin", "rmProfile"}) /\ ~Leaving(u, {"rmProfile"})
                 /\ ~Leaving(u, {"rmAdmin"})
        BY <1>2, <2>1, <2>2, MirrorAlone DEF RoleLocked
    <2>5. \/ adminKeys' = adminKeys \cup {w} /\ admins' = admins \cup {w} /\ w \in allowedKeys
          \/ adminKeys' = adminKeys \ {w} /\ admins' = admins \ {w}
        BY <1>3 DEF SetAdmin, DropAdmin, MirrorInv
    <2>6. \A u \in Users \ EnvAllowed :
              /\ u \in access' => u \in allowedKeys'
              /\ u \in admins' => u \in adminKeys'
        BY <2>2, <2>4, <2>5 DEF MirrorInv
    <2>7. \A u \in adminKeys' : u \in admins' /\ u \in allowedKeys'
        BY <2>2, <2>4, <2>5 DEF MirrorInv
    <2> QED BY <2>3, <2>6, <2>7 DEF MirrorInv, At, RoleLocked
<1>4. CASE RemoveAllowed(h)
    <2>1. /\ OthersKeep(h) /\ task'[h].pc = "rmAdmin" /\ task'[h].user = w
          /\ task[h].pc = "rmAllowed" /\ allowedKeys' = allowedKeys \ {w}
          /\ UNCHANGED <<adminKeys, access, admins>>
        BY <1>1, <1>4, GoMoves DEF RemoveAllowed, PCs, At, memory
    <2>2. \A g \in Handlers : task'[g].pc \in RoleLocked => g = h
        BY <1>2, <2>1, MirrorAlone
    <2>3. \A u : /\ ~Leaving(u, {"rmAdmin", "rmProfile"}) /\ ~Leaving(u, {"rmProfile"})
                 /\ ~Leaving(u, {"rmAdmin"})
        BY <1>2, <2>1, MirrorAlone DEF RoleLocked
    <2>4. \A u : u = w => Leaving(u, {"rmAdmin", "rmProfile"})' /\ Leaving(u, {"rmAdmin"})'
        BY <2>1 DEF Leaving
    <2>5. \A u \in Users \ EnvAllowed :
              /\ u \in access' => u \in allowedKeys' \/ u = w
              /\ u \in admins' => u \in adminKeys'
        BY <2>1, <2>3 DEF MirrorInv
    <2>6. \A u \in adminKeys' : u \in admins' /\ (u \in allowedKeys' \/ u = w)
        BY <2>1, <2>3 DEF MirrorInv
    <2>7. \A g \in Handlers : ~At(g, "rmProfile")' /\ ~At(g, "setAdmin")'
        BY <2>1, <2>2 DEF At, RoleLocked
    <2> QED BY <2>4, <2>5, <2>6, <2>7 DEF MirrorInv
<1>5. CASE RemoveAdmin(h)
    <2>1. /\ OthersKeep(h) /\ task'[h].pc = "rmProfile" /\ task'[h].user = w
          /\ task[h].pc = "rmAdmin" /\ adminKeys' = adminKeys \ {w}
          /\ UNCHANGED <<allowedKeys, access, admins>>
        BY <1>1, <1>5, GoMoves DEF RemoveAdmin, PCs, At, memory
    <2>2. \A g \in Handlers : task'[g].pc \in RoleLocked => g = h
        BY <1>2, <2>1, MirrorAlone
    <2>3. \A u : /\ Leaving(u, {"rmAdmin", "rmProfile"}) => u = w
                 /\ ~Leaving(u, {"rmProfile"})
                 /\ Leaving(u, {"rmAdmin"}) => u = w
        BY <1>2, <2>1, MirrorAlone DEF RoleLocked
    <2>4. \A u : u = w => Leaving(u, {"rmAdmin", "rmProfile"})' /\ Leaving(u, {"rmProfile"})'
        BY <2>1 DEF Leaving
    <2>5. \A u \in Users \ EnvAllowed :
              /\ u \in access' => u \in allowedKeys' \/ u = w
              /\ u \in admins' => u \in adminKeys' \/ u = w
        BY <2>1, <2>3 DEF MirrorInv
    <2>6. \A u \in adminKeys' : u \in admins' /\ u \in allowedKeys'
        BY <2>1, <2>3 DEF MirrorInv
    <2>7. \A g \in Handlers :
              /\ At(g, "rmProfile")' => task'[g].user \notin adminKeys'
              /\ ~At(g, "setAdmin")'
        BY <2>1, <2>2 DEF At, RoleLocked
    <2> QED BY <2>4, <2>5, <2>6, <2>7 DEF MirrorInv
<1>6. CASE Removed(h)
    <2>1. /\ OthersKeep(h) /\ task'[h].pc = "idle" /\ task[h].pc = "rmProfile"
          /\ access' = access \ {w} /\ admins' = admins \ {w}
          /\ UNCHANGED <<allowedKeys, adminKeys>>
        BY <1>1, <1>6, EndMoves DEF Removed, At, disk
    <2>2. \A g \in Handlers : task'[g].pc \notin RoleLocked
        BY <1>2, <2>1, MirrorAlone DEF RoleLocked
    <2>3. \A u : /\ Leaving(u, {"rmAdmin", "rmProfile"}) => u = w
                 /\ Leaving(u, {"rmProfile"}) => u = w
                 /\ ~Leaving(u, {"rmAdmin"})
        BY <1>2, <2>1, MirrorAlone DEF RoleLocked
    <2>4. w \notin adminKeys BY <2>1 DEF MirrorInv, At
    <2>5. \A u \in Users \ EnvAllowed :
              /\ u \in access' => u \in allowedKeys'
              /\ u \in admins' => u \in adminKeys'
        BY <2>1, <2>3 DEF MirrorInv
    <2>6. \A u \in adminKeys' : u \in admins' /\ u \in allowedKeys'
        BY <2>1, <2>3, <2>4 DEF MirrorInv
    <2> QED BY <2>2, <2>5, <2>6 DEF MirrorInv, At, RoleLocked
<1> QED BY <1>3, <1>4, <1>5, <1>6

\* Somebody who is admitted is stored and loaded in one step.
LEMMA MirrorAllow ==
    ASSUME MirrorInv, TypeOK, NEW h \in Handlers, Allow(h) PROVE MirrorInv'
<1> DEFINE w == task[h].user
<1>1. task \in [Handlers -> Task] BY DEF TypeOK
<1>2. /\ OthersKeep(h) /\ task'[h].pc = "idle" /\ task[h].pc = "allow"
      /\ allowedKeys' = allowedKeys \cup {w} /\ access' = access \cup {w}
      /\ UNCHANGED <<adminKeys, admins>>
    BY <1>1, EndMoves DEF Allow, At
<1>3. \A g \in Handlers : g = h \/ task'[g] = task[g] BY <1>2 DEF OthersKeep
<1>4. \A u : /\ Leaving(u, {"rmAdmin", "rmProfile"}) => Leaving(u, {"rmAdmin", "rmProfile"})'
             /\ Leaving(u, {"rmProfile"}) => Leaving(u, {"rmProfile"})'
             /\ Leaving(u, {"rmAdmin"}) => Leaving(u, {"rmAdmin"})'
    BY <1>2, <1>3 DEF Leaving
<1>5. \A g \in Handlers :
          /\ At(g, "rmProfile")' => task'[g].user \notin adminKeys'
          /\ At(g, "setAdmin")' => task'[g].user \in allowedKeys'
    BY <1>2, <1>3 DEF MirrorInv, At
<1> QED BY <1>2, <1>4, <1>5 DEF MirrorInv

\* Every other step of a handler leaves keys and memory alone.
LEMMA MirrorBegin ==
    ASSUME MirrorInv, TypeOK, NEW h \in Handlers,
           \/ Begin(h) \/ GrantCheck(h) \/ RevokeCheck(h) \/ RemoveCheck(h)
           \/ Consume(h) \/ Claim(h)
    PROVE  MirrorInv'
<1>1. task \in [Handlers -> Task] BY DEF TypeOK
<1>2. UNCHANGED <<allowedKeys, adminKeys, access, admins>>
    BY DEF Begin, Panel, StartInvite, GrantCheck, RevokeCheck, RemoveCheck, Consume, Claim,
           disk, memory
<1>3. task[h].pc \in {"idle", "grant", "revoke", "remove", "start", "claim"}
    BY DEF Begin, Panel, StartInvite, GrantCheck, RevokeCheck, RemoveCheck, Consume, Claim, At
<1>4. CASE Begin(h)
    <2>1. PICK r \in {"grant", "revoke", "remove", "start"}, u \in Users, i \in 0..MaxInvites :
              task' = [task EXCEPT ![h] = [pc |-> r, user |-> u, inv |-> i]]
        BY <1>4, ConfigOK DEF Begin, Panel, StartInvite, Invites
    <2>2. [pc |-> r, user |-> u, inv |-> i] \in Task BY DEF Task, PCs
    <2>3. OthersKeep(h) /\ task'[h].pc = r BY <1>1, <2>1, <2>2, BeginMoves
    <2> QED BY <1>2, <1>3, <2>3, MirrorTask
<1>5. CASE End(h)
    <2>1. OthersKeep(h) /\ task'[h].pc = "idle" BY <1>1, <1>5, EndMoves
    <2> QED BY <1>2, <1>3, <2>1, MirrorTask
<1>6. ASSUME NEW pc \in {"setAdmin", "dropAdmin", "rmAllowed", "claim", "allow"}, Go(h, pc),
             pc = "setAdmin" => task[h].user \in allowedKeys
      PROVE  MirrorInv'
    <2>1. OthersKeep(h) /\ task'[h].pc = pc /\ task'[h].user = task[h].user
        BY <1>1, <1>6, GoMoves DEF PCs
    <2> QED BY <1>2, <1>3, <1>6, <2>1, MirrorTask
<1> QED BY <1>4, <1>5, <1>6 DEF GrantCheck, RevokeCheck, RemoveCheck, Consume, Claim

\* Every step but a crash.
LEMMA MirrorNext ==
    ASSUME MirrorInv, AllowedInv, [Next]_vars, ~Restart PROVE MirrorInv'
<1>1. ASSUME NEW h \in Handlers, Begin(h) \/ Step(h) PROVE MirrorInv'
    BY <1>1, MirrorLocked, MirrorAllow, MirrorBegin DEF Step, AllowedInv
<1>2. ASSUME NEW i \in Invites, CreateInvite(i) \/ InviteExpires(i) PROVE MirrorInv'
    <2>1. UNCHANGED <<allowedKeys, adminKeys, access, admins, task>>
        BY <1>2 DEF CreateInvite, InviteExpires, disk, memory
    <2> QED BY <2>1 DEF MirrorInv, Leaving, At
<1>3. CASE UNCHANGED vars
    BY <1>3 DEF vars, MirrorInv, Leaving, At
<1> QED BY <1>1, <1>2, <1>3 DEF Next

\* What a first process has loaded mirrors the keys.
LEMMA MirrorInit == Init => MirrorInv
<1> SUFFICES ASSUME Init PROVE MirrorInv OBVIOUS
<1>1. \A h \in Handlers : task[h].pc = "idle" BY DEF Init, Idle
<1>2. /\ access = EnvAllowed \cup allowedKeys /\ adminKeys \subseteq allowedKeys
      /\ admins = (adminKeys \cap allowedKeys) \cup EnvAdmins
    BY DEF Init, LoadedAccess, Loaded
<1> QED BY <1>1, <1>2, ConfigOK DEF MirrorInv, At

\* While nobody is being promoted, demoted, removed or admitted, a first
\* restart gives everybody who is not configured the rights he has now, for
\* any users, configuration, handlers and invites; it gives a user admitted in
\* the middle of his removal his access back.
THEOREM RestartsChangeNothing == Spec => []RestartChangesNothing
<1> DEFINE Mirrored == restarts \in Nat /\ (restarts = 0 => MirrorInv)
<1>1. Init => AllowedInv /\ Mirrored
    BY AllowedInit, MirrorInit DEF Init
<1>2. AllowedInv /\ [Next]_vars => AllowedInv' BY AllowedNext
<1>3. AllowedInv /\ Mirrored /\ [Next]_vars => Mirrored'
    <2> SUFFICES ASSUME AllowedInv, Mirrored, [Next]_vars PROVE Mirrored'
        OBVIOUS
    <2>1. CASE Restart
        BY <2>1 DEF Restart
    <2>2. CASE ~Restart
        <3>1. restarts' = restarts
            BY <2>2 DEF Next, Begin, Panel, StartInvite, Step, GrantCheck, SetAdmin, RevokeCheck,
                        DropAdmin, RemoveCheck, RemoveAllowed, RemoveAdmin, Removed, Consume,
                        Claim, Allow, CreateInvite, InviteExpires, vars
        <3> QED BY <2>2, <3>1, MirrorNext
    <2> QED BY <2>1, <2>2
<1>4. AllowedInv /\ Mirrored => RestartChangesNothing
    <2> SUFFICES ASSUME AllowedInv, MirrorInv, Resting, NEW u \in Users \ EnvAllowed
                 PROVE  /\ u \in admins <=> u \in Loaded
                        /\ u \in access => u \in LoadedAccess
                        /\ u \in LoadedAccess => u \in access \cup overlapped
        BY DEF RestartChangesNothing
    <2>1. /\ ~Leaving(u, {"rmAdmin", "rmProfile"}) /\ ~Leaving(u, {"rmProfile"})
          /\ ~Leaving(u, {"rmAdmin"})
        BY DEF Resting, RoleLocked, Leaving
    <2>2. u \notin EnvAdmins BY ConfigOK
    <2>3. u \in access => u \in allowedKeys
        BY <2>1 DEF MirrorInv
    <2>4. u \in allowedKeys => u \in access \cup overlapped
        BY DEF AllowedInv, KeysLoaded, Admitted
    <2>5. u \in admins <=> u \in adminKeys \cap allowedKeys
        BY <2>1 DEF MirrorInv
    <2> QED BY <2>2, <2>3, <2>4, <2>5 DEF LoadedAccess, Loaded
<1> QED BY <1>1, <1>2, <1>3, <1>4, PTL DEF Spec

=============================================================================
