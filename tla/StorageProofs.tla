--------------------------- MODULE StorageProofs ---------------------------
(***************************************************************************)
(* Proofs about what is on disk.  TokenStore, for any tasks, sessions,     *)
(* legacy keys and crashes: type correctness, that a legacy session is     *)
(* never found in part, and that the store implements one register.        *)
(* Backup, for any limit, and any number of states and of crashes: nothing *)
(* is half copied, the newest backups stay, and pruning gets down to the   *)
(* limit.                                                                  *)
(***************************************************************************)
EXTENDS TokenStore, Backup, FiniteSetTheorems, TLAPS

\* While the process starts, no other task has begun.
StartsAlone ==
    /\ task[Main].pc \in {"load", "set", "tidy", "idle"}
    /\ \A t \in Tasks : task[t].pc # "load" /\ (~At(Main, "idle") => At(t, "idle"))

\* A task about to write a record has one; the start writes what it found.
Writes ==
    /\ \A t \in Procs : At(t, "set") => task[t].sess \in Sessions
    /\ At(Main, "set") => task[Main].sess = Found

\* The access token is the first legacy key to go.
AccessFirst ==
    \A t \in Procs :
        \/ task[t].pc \in {"tidy", "wipe"} /\ task[t].key > 1
        \/ At(t, "last")
        => AccessKey \notin legacy

\* A load finds the legacy session whole.
Whole == AccessKey \in legacy => legacy = Left

\* Without a record a legacy session is found only while the process starts,
\* before it has written the record.
Migrates ==
    record = NoSession /\ AccessKey \in legacy => task[Main].pc \in {"load", "set"}

Inv == TypeOK /\ StartsAlone /\ Writes /\ AccessFirst /\ Whole /\ Migrates

\* One task moves, to a place, a session and a key of their types.
LEMMA MoveType ==
    ASSUME task \in [Procs -> Task], NEW t \in Procs, NEW pc \in PCs,
           NEW s \in Sessions \cup {NoSession}, NEW k \in 1..NKeys, Move(t, pc, s, k)
    PROVE  /\ task' \in [Procs -> Task]
           /\ task'[t] = [pc |-> pc, sess |-> s, key |-> k]
           /\ \A u \in Procs \ {t} : task'[u] = task[u]
    BY DEF Move, Task

\* The start of a process, with its tasks.
LEMMA StartedType ==
    /\ Started \in [Procs -> Task]
    /\ \A t \in Procs : Started[t].sess = NoSession /\ Started[t].key = 1
    /\ Started[Main].pc = "load" /\ \A t \in Tasks : Started[t].pc = "idle"
<1>1. 1 \in 1..NKeys BY StoreOK
<1>2. \A pc \in PCs : Resting(pc) \in Task BY <1>1 DEF Resting, Task
<1>3. Main \in Procs /\ \A t \in Tasks : t \in Procs /\ t # Main BY StoreOK DEF Procs
<1> QED BY <1>2, <1>3 DEF Started, Resting, PCs

\* What a load finds is a session or none.
LEMMA FoundType == TypeOK => Found \in Sessions \cup {NoSession}
    BY StoreOK DEF TypeOK, Found

\* The invariant holds at the start.
LEMMA InvInit == Init => Inv
<1> SUFFICES ASSUME Init PROVE Inv OBVIOUS
<1>1. TypeOK
    <2>1. plain \in BOOLEAN
        <3>1. CASE record = NoSession BY <3>1, Zenon DEF Init
        <3>2. CASE record # NoSession BY <3>2, Zenon DEF Init
        <3> QED BY <3>1, <3>2
    <2>2. legacy \subseteq Left BY DEF Init
    <2>3. restarts \in 0..MaxRestarts BY StoreOK DEF Init
    <2> QED BY <2>1, <2>2, <2>3, StartedType DEF Init, TypeOK
<1>2. StartsAlone BY StartedType DEF Init, StartsAlone, At
<1>3. \A t \in Procs : task[t].pc \in {"load", "idle"}
    BY StartedType DEF Init, Procs
<1>4. Writes /\ AccessFirst BY <1>3 DEF Writes, AccessFirst, At, Procs
<1>5. Whole BY DEF Init, Whole
<1>6. Migrates BY StartedType DEF Init, Migrates
<1> QED BY <1>1, <1>2, <1>4, <1>5, <1>6 DEF Inv

\* The record and the keys a load reads keep their session to be saved.
LEMMA LoadKeeps == Inv /\ Load => Inv' /\ Found' = Found
<1> SUFFICES ASSUME Inv, Load PROVE Inv' /\ Found' = Found OBVIOUS
<1>1. task \in [Procs -> Task] /\ Main \in Procs /\ 1 \in 1..NKeys
    BY StoreOK DEF Inv, TypeOK, Procs
<1>2. record' = record /\ plain' = plain /\ legacy' = legacy /\ loaded' = Found
      /\ restarts' = restarts
    BY DEF Load, disk
<1>3. Found' = Found BY <1>2 DEF Found
<1>4. Found \in Sessions \cup {NoSession} BY FoundType DEF Inv
<1>5. \A t \in Tasks : t \in Procs \ {Main} /\ At(t, "idle")
    BY StoreOK DEF Load, Inv, StartsAlone, Procs, At
<1>6. CASE Found # NoSession /\ Move(Main, "set", Found, 1)
    <2>1. /\ task' \in [Procs -> Task]
          /\ task'[Main] = [pc |-> "set", sess |-> Found, key |-> 1]
          /\ \A u \in Procs \ {Main} : task'[u] = task[u]
        BY <1>1, <1>4, <1>6, MoveType DEF PCs
    <2>2. TypeOK' BY <1>2, <1>4, <2>1 DEF Inv, TypeOK
    <2>3. StartsAlone' BY <1>5, <2>1 DEF StartsAlone, At
    <2>4. Writes' BY <1>3, <1>4, <1>5, <1>6, <2>1 DEF Writes, At, Procs
    <2>5. AccessFirst' BY <1>5, <2>1 DEF AccessFirst, At, Procs
    <2>6. Whole' BY <1>2 DEF Inv, Whole
    <2>7. Migrates' BY <2>1 DEF Migrates
    <2> QED BY <1>3, <2>2, <2>3, <2>4, <2>5, <2>6, <2>7 DEF Inv
<1>7. CASE (Found = NoSession \/ record # NoSession) /\ End(Main)
    <2>1. /\ task' \in [Procs -> Task]
          /\ task'[Main] = [pc |-> "idle", sess |-> NoSession, key |-> 1]
          /\ \A u \in Procs \ {Main} : task'[u] = task[u]
        BY <1>1, <1>7, MoveType DEF PCs, End
    <2>2. TypeOK' BY <1>2, <1>4, <2>1 DEF Inv, TypeOK
    <2>3. StartsAlone' BY <1>5, <2>1 DEF StartsAlone, At
    <2>4. Writes' BY <1>5, <2>1 DEF Writes, At, Procs
    <2>5. AccessFirst' BY <1>5, <2>1 DEF AccessFirst, At, Procs
    <2>6. Whole' BY <1>2 DEF Inv, Whole
    <2>7. Migrates' BY <1>2, <1>7, StoreOK DEF Migrates, Found
    <2> QED BY <1>3, <2>2, <2>3, <2>4, <2>5, <2>6, <2>7 DEF Inv
<1> QED BY <1>6, <1>7 DEF Load

\* A save or a clear begins without touching the disk.
LEMMA StartKeeps ==
    ASSUME Inv, NEW t \in Tasks,
           \/ \E s \in Sessions : SaveStart(t, s)
           \/ ClearStart(t)
    PROVE  Inv' /\ Found' = Found
<1>1. /\ task \in [Procs -> Task] /\ Main \in Procs /\ t \in Procs /\ t # Main
      /\ 1 \in 1..NKeys
    BY StoreOK DEF Inv, TypeOK, Procs
<1>2. UNCHANGED <<record, plain, legacy, loaded, restarts>>
    BY DEF SaveStart, ClearStart, disk
<1>3. Found' = Found BY <1>2 DEF Found
<1>4. PICK pc \in {"set", "wipe"}, s \in Sessions \cup {NoSession} :
          Move(t, pc, s, 1) /\ (pc = "set" => s \in Sessions)
    BY DEF SaveStart, ClearStart
<1>5. /\ task' \in [Procs -> Task]
      /\ task'[t] = [pc |-> pc, sess |-> s, key |-> 1]
      /\ \A u \in Procs \ {t} : task'[u] = task[u]
    BY <1>1, <1>4, MoveType DEF PCs
<1>6. At(Main, "idle") BY DEF SaveStart, ClearStart
<1>7. task'[Main] = task[Main] BY <1>1, <1>5
<1>8. TypeOK' BY <1>2, <1>5 DEF Inv, TypeOK
<1>9. StartsAlone' BY <1>4, <1>5, <1>6, <1>7 DEF Inv, StartsAlone, At, Procs
<1>10. Writes' BY <1>4, <1>5, <1>6, <1>7 DEF Inv, Writes, At
<1>11. AccessFirst' BY <1>2, <1>4, <1>5 DEF Inv, AccessFirst, At
<1>12. Whole' BY <1>2 DEF Inv, Whole
<1>13. Migrates' BY <1>2, <1>7 DEF Inv, Migrates
<1> QED BY <1>3, <1>8, <1>9, <1>10, <1>11, <1>12, <1>13 DEF Inv

\* Writing the record makes its session the one a load finds.
LEMMA SetKeeps ==
    ASSUME Inv, NEW t \in Procs, SetRecord(t)
    PROVE  Inv' /\ Found' = task[t].sess
<1>1. task \in [Procs -> Task] /\ 1 \in 1..NKeys /\ task[t].sess \in Sessions
    BY StoreOK DEF Inv, TypeOK, Writes, SetRecord
<1>2. /\ record' = task[t].sess /\ plain' = FALSE /\ legacy' = legacy
      /\ loaded' = loaded /\ restarts' = restarts
    BY DEF SetRecord
<1>3. record' # NoSession /\ Found' = task[t].sess BY <1>1, <1>2, StoreOK DEF Found
<1>4. /\ task' \in [Procs -> Task]
      /\ task'[t] = [pc |-> "tidy", sess |-> task[t].sess, key |-> 1]
      /\ \A u \in Procs \ {t} : task'[u] = task[u]
    BY <1>1, MoveType DEF SetRecord, PCs
<1>5. TypeOK' BY <1>1, <1>2, <1>4 DEF Inv, TypeOK
<1>6. StartsAlone' BY <1>4, StoreOK DEF Inv, StartsAlone, SetRecord, At, Procs
<1>7. Writes'
    <2>1. CASE t = Main BY <1>4, <2>1 DEF Inv, Writes, At
    <2>2. CASE t # Main
        <3>1. At(Main, "idle") BY <2>2 DEF SetRecord, Inv, StartsAlone, At, Procs
        <3>2. task'[Main] = task[Main] BY <1>4, <2>2 DEF Procs
        <3> QED BY <1>4, <3>1, <3>2 DEF Inv, Writes, At
    <2> QED BY <2>1, <2>2
<1>8. AccessFirst' BY <1>2, <1>4 DEF Inv, AccessFirst, At
<1>9. Whole' BY <1>2 DEF Inv, Whole
<1>10. Migrates' BY <1>3 DEF Migrates
<1> QED BY <1>3, <1>5, <1>6, <1>7, <1>8, <1>9, <1>10 DEF Inv

\* Deleting a legacy key hides no session a load would find.
LEMMA LegacyKeeps ==
    ASSUME Inv, NEW t \in Procs, DeleteLegacy(t)
    PROVE  Inv' /\ Found' = Found
<1>1. /\ task \in [Procs -> Task] /\ 1 \in 1..NKeys
      /\ task[t].key \in 1..NKeys /\ task[t].sess \in Sessions \cup {NoSession}
      /\ NKeys \in Nat
    BY StoreOK DEF Inv, TypeOK, Task
<1>2. /\ legacy' = legacy \ {task[t].key} /\ task[t].pc \in {"tidy", "wipe"}
      /\ UNCHANGED <<record, plain, loaded, restarts>>
    BY DEF DeleteLegacy
<1>3. AccessKey \notin legacy'
    BY <1>1, <1>2 DEF Inv, AccessFirst, AccessKey
<1>4. PICK pc \in {"tidy", "wipe", "last", "idle"},
           s \in Sessions \cup {NoSession}, k \in 1..NKeys :
           /\ Move(t, pc, s, k)
           /\ pc \in {"wipe", "last"} => task[t].pc = "wipe"
           /\ task[t].pc = "tidy" => pc \in {"tidy", "idle"}
    <2>1. CASE task[t].key < NKeys
        <3>1. task[t].key + 1 \in 1..NKeys BY <1>1, <2>1
        <3>2. Move(t, task[t].pc, task[t].sess, task[t].key + 1)
            BY <2>1 DEF DeleteLegacy
        <3> QED BY <1>1, <1>2, <3>1, <3>2
    <2>2. CASE ~(task[t].key < NKeys)
        BY <1>1, <1>2, <2>2 DEF DeleteLegacy, End, At
    <2> QED BY <2>1, <2>2
<1>5. /\ task' \in [Procs -> Task]
      /\ task'[t] = [pc |-> pc, sess |-> s, key |-> k]
      /\ \A u \in Procs \ {t} : task'[u] = task[u]
    BY <1>1, <1>4, MoveType DEF PCs
<1>6. ~(record = NoSession /\ AccessKey \in legacy)
    <2>1. CASE t = Main BY <1>2, <2>1 DEF Inv, Migrates
    <2>2. CASE t # Main
        <3>1. At(Main, "idle") BY <1>2, <2>2 DEF Inv, StartsAlone, At, Procs
        <3> QED BY <3>1 DEF Inv, Migrates, At
    <2> QED BY <2>1, <2>2
<1>7. Found' = Found BY <1>2, <1>3, <1>6 DEF Found
<1>8. TypeOK' BY <1>2, <1>5 DEF Inv, TypeOK
<1>9. StartsAlone'
    <2>1. CASE t = Main
        <3>1. task[Main].pc = "tidy" BY <1>2, <2>1 DEF Inv, StartsAlone
        <3>2. \A u \in Tasks : At(u, "idle") /\ task'[u] = task[u]
            BY <1>5, <2>1, <3>1, StoreOK DEF Inv, StartsAlone, At, Procs
        <3> QED BY <1>4, <1>5, <2>1, <3>1, <3>2 DEF StartsAlone, At
    <2>2. CASE t # Main
        <3>1. At(Main, "idle") /\ task'[Main] = task[Main]
            BY <1>2, <1>5, <2>2 DEF Inv, StartsAlone, At, Procs
        <3> QED BY <1>4, <1>5, <3>1 DEF Inv, StartsAlone, At, Procs
    <2> QED BY <2>1, <2>2
<1>10. Writes' BY <1>4, <1>5, <1>7 DEF Inv, Writes, At, Procs
<1>11. AccessFirst' BY <1>3 DEF AccessFirst
<1>12. Whole' BY <1>3 DEF Whole
<1>13. Migrates' BY <1>3 DEF Migrates
<1> QED BY <1>7, <1>8, <1>9, <1>10, <1>11, <1>12, <1>13 DEF Inv

\* Deleting the record leaves nothing to find.
LEMMA RecordKeeps ==
    ASSUME Inv, NEW t \in Procs, DeleteRecord(t)
    PROVE  Inv' /\ Found' = NoSession
<1>1. task \in [Procs -> Task] /\ 1 \in 1..NKeys /\ NoSession \in Sessions \cup {NoSession}
    BY StoreOK DEF Inv, TypeOK
<1>2. /\ record' = NoSession /\ UNCHANGED <<plain, legacy, loaded, restarts>>
      /\ At(t, "last")
    BY DEF DeleteRecord
<1>3. AccessKey \notin legacy BY <1>2 DEF Inv, AccessFirst
<1>4. Found' = NoSession BY <1>2, <1>3 DEF Found
<1>5. /\ task' \in [Procs -> Task]
      /\ task'[t] = [pc |-> "idle", sess |-> NoSession, key |-> 1]
      /\ \A u \in Procs \ {t} : task'[u] = task[u]
    BY <1>1, MoveType DEF DeleteRecord, End, PCs
<1>6. t # Main /\ At(Main, "idle") /\ task'[Main] = task[Main]
    BY <1>2, <1>5 DEF Inv, StartsAlone, At, Procs
<1>7. TypeOK' BY <1>2, <1>5 DEF Inv, TypeOK
<1>8. StartsAlone' BY <1>5, <1>6 DEF Inv, StartsAlone, At, Procs
<1>9. Writes' BY <1>5, <1>6 DEF Inv, Writes, At
<1>10. AccessFirst' BY <1>2, <1>3 DEF AccessFirst
<1>11. Whole' /\ Migrates' BY <1>2, <1>3 DEF Whole, Migrates
<1> QED BY <1>4, <1>7, <1>8, <1>9, <1>10, <1>11 DEF Inv

\* A crash leaves the disk to the next start.
LEMMA CrashKeeps == Inv /\ Crash => Inv' /\ Found' = Found
<1> SUFFICES ASSUME Inv, Crash PROVE Inv' /\ Found' = Found OBVIOUS
<1>1. /\ UNCHANGED <<record, plain, legacy>> /\ task' = Started
      /\ loaded' = NoSession /\ restarts' = restarts + 1 /\ restarts < MaxRestarts
    BY DEF Crash, disk
<1>2. Found' = Found BY <1>1 DEF Found
<1>3. restarts' \in 0..MaxRestarts BY <1>1, StoreOK DEF Inv, TypeOK
<1>4. TypeOK' BY <1>1, <1>3, StartedType DEF Inv, TypeOK
<1>5. StartsAlone' BY <1>1, StartedType DEF StartsAlone, At
<1>6. \A t \in Procs : task'[t].pc \in {"load", "idle"}
    BY <1>1, StartedType DEF Procs
<1>7. Writes' /\ AccessFirst' BY <1>6 DEF Writes, AccessFirst, At, Procs
<1>8. Whole' BY <1>1 DEF Inv, Whole
<1>9. Migrates' BY <1>1, StartedType DEF Migrates
<1> QED BY <1>2, <1>4, <1>5, <1>7, <1>8, <1>9 DEF Inv

\* Nothing happens.
LEMMA StutterKeeps == Inv /\ UNCHANGED vars => Inv' /\ Found' = Found
    BY DEF vars, Inv, TypeOK, StartsAlone, Writes, AccessFirst, Whole, Migrates,
           At, Found

\* Every step keeps the invariant.
LEMMA InvNext == Inv /\ [Next]_vars => Inv'
    BY LoadKeeps, StartKeeps, SetKeeps, LegacyKeeps, RecordKeeps, CrashKeeps, StutterKeeps
       DEF Next, Write

\* The inductive invariant.
THEOREM Invariance == Spec => []Inv
    BY InvInit, InvNext, PTL DEF Spec

\* Type correctness of the store.
THEOREM TypeCorrect == Spec => []TypeOK
<1>1. Inv => TypeOK BY DEF Inv
<1> QED BY Invariance, <1>1, PTL

\* A load never finds a legacy session some fields of which are gone.
THEOREM LegacyFoundWhole == Spec => []NoMixture
<1>1. Inv => NoMixture BY StoreOK DEF Inv, Whole, NoMixture, Found
<1> QED BY Invariance, <1>1, PTL

----------------------------------------------------------------------------
(* The store implements the register: the writes of the record, and the    *)
(* deletion of the record by clear, are the instants at which the register *)
(* changes.                                                                *)

\* A task about to write a record, or clearing, has something to do; the
\* others have not.
LEMMA PendingValues ==
    ASSUME Inv, NEW t \in Tasks
    PROVE  /\ At(t, "set") => Pending(t) = task[t].sess /\ Pending(t) # NoOp
           /\ task[t].pc \in {"wipe", "last"} => Pending(t) = NoSession /\ Pending(t) # NoOp
           /\ task[t].pc \in {"idle", "tidy"} => Pending(t) = NoOp
    BY StoreOK DEF Inv, Writes, Pending, At, Procs

\* What one task has still to write changes with that task only.
LEMMA PendingOthers ==
    ASSUME NEW t \in Tasks, task'[t] = task[t] PROVE Pending(t)' = Pending(t)
    BY DEF Pending, At

\* If only task t's intention changes, the register sees only that.
LEMMA OneIntention ==
    ASSUME NEW t \in Tasks, \A u \in Tasks \ {t} : Pending(u)' = Pending(u)
    PROVE  [u \in Tasks |-> Pending(u)]'
               = [[u \in Tasks |-> Pending(u)] EXCEPT ![t] = Pending(t)']
    OBVIOUS

\* A step after which every task intends what it did before.
LEMMA SameIntentions ==
    ASSUME \A u \in Tasks : Pending(u)' = Pending(u)
    PROVE  [u \in Tasks |-> Pending(u)]' = [u \in Tasks |-> Pending(u)]
    OBVIOUS

\* The initial states implement the register's.
LEMMA RegisterInit == Init => Register!Init
<1> SUFFICES ASSUME Init PROVE Register!Init OBVIOUS
<1>1. Found \in Sessions \cup {NoSession} BY InvInit, FoundType DEF Inv
<1>2. \A t \in Tasks : task[t].pc = "idle" BY StartedType DEF Init
<1>3. \A t \in Tasks : Pending(t) = NoOp BY <1>2 DEF Pending, At
<1> QED BY <1>1, <1>3 DEF Register!Init

\* A task's next place, when the task moves.
LEMMA Moved ==
    ASSUME TypeOK, NEW t \in Procs, NEW pc, NEW s, NEW k, Move(t, pc, s, k)
    PROVE  /\ task'[t].pc = pc /\ task'[t].sess = s
           /\ \A u \in Procs \ {t} : task'[u] = task[u]
    BY DEF TypeOK, Move

\* Every step is a step of the register, or leaves it as it is.
LEMMA RegisterNext ==
    Inv /\ Inv' /\ [Next]_vars
        => [Register!Next]_<<Found, [t \in Tasks |-> Pending(t)]>>
<1> SUFFICES ASSUME Inv, Inv', [Next]_vars
             PROVE  [Register!Next]_<<Found, [t \in Tasks |-> Pending(t)]>>
    OBVIOUS
<1> DEFINE Ops == [t \in Tasks |-> Pending(t)]
<1>0. /\ TypeOK /\ Main \in Procs
      /\ \A t \in Tasks : t \in Procs \ {Main} /\ Main \in Procs \ {t}
    BY StoreOK DEF Inv, Procs
<1>1. CASE Load
    <2>1. \A t \in Tasks : task'[t] = task[t]
        BY <1>0, <1>1, Moved DEF Load, End
    <2>2. Ops' = Ops BY <2>1, PendingOthers, SameIntentions
    <2> QED BY <1>1, <2>2, LoadKeeps
<1>2. ASSUME NEW t \in Tasks, NEW s \in Sessions \cup {NoSession},
             \/ SaveStart(t, s) /\ s # NoSession
             \/ ClearStart(t) /\ s = NoSession
      PROVE  Register!Next
    <2>1. /\ task'[t].pc \in {"set", "wipe"}
          /\ task'[t].pc = "set" => task'[t].sess = s
          /\ task'[t].pc = "wipe" => s = NoSession
          /\ \A u \in Procs \ {t} : task'[u] = task[u]
        BY <1>0, <1>2, Moved DEF SaveStart, ClearStart
    <2>2. Pending(t)' = s BY <2>1 DEF Pending, At
    <2>3. Ops' = [Ops EXCEPT ![t] = s] BY <1>0, <2>1, <2>2, PendingOthers, OneIntention
    <2>4. Ops[t] = NoOp BY <1>2, PendingValues DEF SaveStart, ClearStart, At
    <2>5. Found' = Found BY <1>2, StartKeeps
    <2>6. Register!Begin(t, s) BY <2>3, <2>4, <2>5 DEF Register!Begin
    <2> QED BY <2>6 DEF Register!Next
<1>3. ASSUME NEW t \in Tasks, SetRecord(t) \/ DeleteRecord(t) PROVE Register!Next
    <2>1. /\ task'[t].pc \in {"tidy", "idle"}
          /\ \A u \in Procs \ {t} : task'[u] = task[u]
        BY <1>0, <1>3, Moved DEF SetRecord, DeleteRecord, End
    <2>2. Pending(t)' = NoOp BY <2>1 DEF Pending, At
    <2>3. Ops' = [Ops EXCEPT ![t] = NoOp] BY <1>0, <2>1, <2>2, PendingOthers, OneIntention
    <2>4. Found' = Ops[t] /\ Ops[t] # NoOp
        <3>1. CASE SetRecord(t)
            BY <1>0, <3>1, SetKeeps, PendingValues DEF SetRecord
        <3>2. CASE DeleteRecord(t)
            BY <1>0, <3>2, RecordKeeps, PendingValues DEF DeleteRecord, At
        <3> QED BY <1>3, <3>1, <3>2
    <2>5. Register!Take(t) BY <2>3, <2>4 DEF Register!Take
    <2> QED BY <2>5 DEF Register!Next
<1>4. ASSUME NEW t \in Tasks, DeleteLegacy(t) PROVE Ops' = Ops /\ Found' = Found
    <2>1. /\ task[t].pc = "tidy" => task'[t].pc \in {"tidy", "idle"}
          /\ task[t].pc = "wipe" => task'[t].pc \in {"wipe", "last"}
          /\ task[t].pc \in {"tidy", "wipe"}
          /\ \A u \in Procs \ {t} : task'[u] = task[u]
        BY <1>0, <1>4, Moved DEF DeleteLegacy, End, At
    <2>2. Pending(t)' = Pending(t) BY <2>1 DEF Pending, At
    <2>3. Ops' = Ops BY <1>0, <2>1, <2>2, PendingOthers, SameIntentions
    <2> QED BY <1>0, <1>4, <2>3, LegacyKeeps
<1>5. ASSUME Write(Main) PROVE Ops' = Ops /\ Found' = Found
    <2>1. ~DeleteRecord(Main) BY DEF DeleteRecord, Inv, StartsAlone, At
    <2>2. \A t \in Tasks : task'[t] = task[t]
        BY <1>0, <1>5, <2>1, Moved DEF Write, SetRecord, DeleteLegacy, End
    <2>3. Ops' = Ops BY <2>2, PendingOthers, SameIntentions
    <2>4. CASE SetRecord(Main)
        BY <1>0, <2>3, <2>4, SetKeeps DEF SetRecord, Inv, Writes
    <2>5. CASE DeleteLegacy(Main) BY <1>0, <2>3, <2>5, LegacyKeeps
    <2> QED BY <1>5, <2>1, <2>4, <2>5 DEF Write
<1>6. CASE Crash
    <2>1. \A t \in Tasks : task'[t].pc = "idle" BY <1>6, StartedType DEF Crash
    <2>2. \A t \in Tasks : Pending(t)' = NoOp BY <2>1 DEF Pending, At
    <2>3. Ops' = [t \in Tasks |-> NoOp] BY <2>2
    <2>4. Register!Crash BY <1>6, <2>3, CrashKeeps DEF Register!Crash
    <2> QED BY <2>4 DEF Register!Next
<1>7. CASE UNCHANGED vars
    <2>1. \A t \in Tasks : task'[t] = task[t] BY <1>7 DEF vars
    <2>2. Ops' = Ops BY <2>1, PendingOthers, SameIntentions
    <2> QED BY <1>7, <2>2, StutterKeeps
<1>8. CASE \E t \in Tasks, s \in Sessions : SaveStart(t, s)
    BY <1>2, <1>8, StoreOK
<1>9. CASE \E t \in Tasks : ClearStart(t) BY <1>2, <1>9
<1>10. CASE \E t \in Procs : Write(t)
    BY <1>3, <1>4, <1>5, <1>10 DEF Write, Procs
<1> QED BY <1>1, <1>6, <1>7, <1>8, <1>9, <1>10 DEF Next

\* tokens.py, save: "readers either observe the previous complete record or
\* the new complete record"; clear: a crash "cannot resurrect an older legacy
\* token set".  For any tasks, sessions, legacy keys and crashes.
THEOREM StoreIsRegister == Spec => ImplementsRegister
<1>1. Init => Register!Init BY RegisterInit
<1>2. Inv /\ Inv' /\ [Next]_vars
          => [Register!Next]_<<Found, [t \in Tasks |-> Pending(t)]>>
    BY RegisterNext
<1> QED BY <1>1, <1>2, Invariance, PTL DEF Spec, ImplementsRegister, Register!Spec

----------------------------------------------------------------------------
(* The database file and its backups.                                      *)

\* A backup that is made has a name, and is whole when it is checked.
Making ==
    /\ service.pc \in {"copies", "checked"} => service.name \in Names
    /\ service.pc = "checked" => service.temp # 0

\* Where the state the database should hold is: in the file, in the journal of
\* a write that was begun, or lost to an alien journal.
Source ==
    /\ bot = "up" => journal = 0 /\ ~alien /\ db = origin
    /\ bot = "writes" => journal # 0 /\ ~alien /\ journal = origin /\ last < MaxStates
    /\ (bot = "down" /\ journal = 0) => ~alien /\ db = origin
    /\ (bot = "down" /\ journal # 0 /\ ~alien) => journal = origin
    /\ restore.pc = "replaces" => bot = "down"

\* Until the clock is set, the names are in the order of the making.
InOrder ==
    sets = 0 =>
        /\ \A n \in DOMAIN made : n =< clock /\ made[n] = {k \in DOMAIN made : k > n}
        /\ service.pc \in {"copies", "checked"} =>
              service.name =< clock /\ \A n \in DOMAIN made : n =< service.name

\* What a pruning round has not listed is among the newest, and what it has
\* listed is not among the last.
Listed ==
    service.pc = "prunes" =>
        /\ \A n \in kept \ service.doomed : Cardinality({k \in kept : k > n}) < Retention
        /\ sets = 0 => \A n \in service.doomed : Cardinality(made[n]) >= Retention

ServiceTypes(states, names) ==
    [pc : {"down", "asleep", "failed", "copies", "checked", "prunes"},
     name : 0..MaxClock, temp : states, doomed : SUBSET names]
RestoreTypes(states) == [pc : {"idle", "replaces"}, temp : states]

\* The type invariant in terms of these sets.
FilesTyped ==
    /\ clock \in Names /\ sets \in 0..MaxSets
    /\ last \in 1..MaxStates /\ db \in 0..last /\ journal \in 0..last /\ origin \in 0..last
    /\ bot \in {"up", "writes", "down"} /\ alien \in BOOLEAN
    /\ DOMAIN made \subseteq Names /\ made \in [DOMAIN made -> SUBSET DOMAIN made]
    /\ kept \subseteq DOMAIN made /\ holds \in [Names -> 0..last]
    /\ service \in ServiceTypes(0..last, kept) /\ restore \in RestoreTypes(0..last)

FilesInv == FilesTyped /\ BackupsWhole /\ Making /\ Source /\ InOrder /\ Listed /\ NewestKept

----------------------------------------------------------------------------
(* Counting names.                                                         *)

LEMMA NamesFinite ==
    ASSUME NEW S \in SUBSET Names
    PROVE  IsFiniteSet(S) /\ Cardinality(S) \in Nat
<1>1. IsFiniteSet(Names)
    BY BackupOK, FS_Interval DEF Names
<1>2. IsFiniteSet(S)
    BY <1>1, FS_Subset
<1> QED BY <1>2, FS_CardinalityType

\* Fewer names are fewer.
LEMMA FewerNames ==
    ASSUME NEW T \in SUBSET Names, NEW S \in SUBSET T
    PROVE  Cardinality(S) =< Cardinality(T) /\ Cardinality(S) \in Nat /\ Cardinality(T) \in Nat
<1>1. IsFiniteSet(T)
    BY NamesFinite
<1>2. Cardinality(S) =< Cardinality(T)
    BY <1>1, FS_Subset
<1>3. S \in SUBSET Names
    OBVIOUS
<1> QED BY <1>2, <1>3, NamesFinite

\* Names each of which has fewer newer ones than the limit are no more than
\* the limit: the numbers of newer ones differ.
LEMMA FewNewer ==
    ASSUME NEW S \in SUBSET Names,
           \A n \in S : Cardinality({k \in S : k > n}) < Retention
    PROVE  Cardinality(S) =< Retention
<1> DEFINE newer(n) == {k \in S : k > n}
           f == [n \in S |-> Cardinality(newer(n))]
<1>1. \A n \in S : newer(n) \in SUBSET Names /\ Cardinality(newer(n)) \in 0..(Retention - 1)
    <2> SUFFICES ASSUME NEW n \in S
                 PROVE  newer(n) \in SUBSET Names /\ Cardinality(newer(n)) \in 0..(Retention - 1)
        OBVIOUS
    <2>1. newer(n) \in SUBSET Names
        OBVIOUS
    <2>2. Cardinality(newer(n)) \in Nat
        BY <2>1, NamesFinite
    <2> QED BY <2>1, <2>2, BackupOK
<1>2. ASSUME NEW n \in S, NEW m \in S, m > n PROVE Cardinality(newer(m)) < Cardinality(newer(n))
    <2>1. n \in Int /\ m \in Int /\ \A k \in S : k \in Int
        BY DEF Names
    <2>2. m \notin newer(m) /\ newer(m) \cup {m} \in SUBSET newer(n)
        <3>1. ~(m > m) /\ \A k \in S : k > m => k > n
            BY <1>2, <2>1
        <3> QED BY <1>2, <3>1
    <2>3. IsFiniteSet(newer(m))
        BY <1>1, NamesFinite
    <2>4. Cardinality(newer(m) \cup {m}) = Cardinality(newer(m)) + 1
        BY <2>2, <2>3, FS_AddElement
    <2>5. Cardinality(newer(m) \cup {m}) =< Cardinality(newer(n))
        BY <1>1, <2>2, FewerNames
    <2>6. Cardinality(newer(m)) \in Nat /\ Cardinality(newer(n)) \in Nat
        BY <1>1
    <2> QED BY <2>4, <2>5, <2>6
<1> HIDE DEF newer
<1>3. \A n, m \in S : f[n] = f[m] => n = m
    <2> SUFFICES ASSUME NEW n \in S, NEW m \in S, n # m PROVE f[n] # f[m]
        OBVIOUS
    <2>1. n > m \/ m > n
        BY DEF Names
    <2>2. Cardinality(newer(m)) \in Nat /\ Cardinality(newer(n)) \in Nat
        BY <1>1
    <2> QED BY <1>2, <2>1, <2>2
<1>4. f \in Injection(S, 0..(Retention - 1))
    BY <1>1, <1>3 DEF Injection, IsInjective
<1>5. IsFiniteSet(0..(Retention - 1)) /\ Cardinality(0..(Retention - 1)) = Retention
    <2>1. Retention \in Nat /\ 0 \in Int /\ Retention - 1 \in Int
        BY BackupOK
    <2>2. /\ IsFiniteSet(0..(Retention - 1))
          /\ Cardinality(0..(Retention - 1)) =
                IF 0 > Retention - 1 THEN 0 ELSE (Retention - 1) - 0 + 1
        BY <2>1, FS_Interval
    <2> QED BY <2>1, <2>2
<1> HIDE DEF f
<1>6. Cardinality(S) =< Cardinality(0..(Retention - 1))
    BY <1>4, <1>5, FS_Injection
<1> QED BY <1>5, <1>6

----------------------------------------------------------------------------
(* The files.                                                              *)

LEMMA FilesTypedAsType == BackupTypeOK <=> FilesTyped
BY DEF BackupTypeOK, FilesTyped, ServiceTypes, RestoreTypes

LEMMA FilesInit == BackupInit => FilesInv
<1> SUFFICES ASSUME BackupInit PROVE FilesInv
    OBVIOUS
<1>1. FilesTyped
    <2>1. 1 \in Names /\ 0 \in 0..MaxSets /\ 1 \in 1..MaxStates /\ 0 \in 0..MaxClock
        BY BackupOK DEF Names
    <2>2. service \in ServiceTypes(0..last, kept)
        BY <2>1 DEF BackupInit, ServiceTypes, Asleep, Down
    <2>3. restore \in RestoreTypes(0..last)
        BY DEF BackupInit, RestoreTypes, NoRestore
    <2>4. holds \in [Names -> 0..last]
        BY DEF BackupInit
    <2>5. made \in [DOMAIN made -> SUBSET DOMAIN made] /\ DOMAIN made = {}
        BY DEF BackupInit
    <2>6. kept \subseteq DOMAIN made /\ DOMAIN made \subseteq Names
        BY <2>5 DEF BackupInit
    <2>7. /\ clock \in Names /\ sets \in 0..MaxSets
          /\ last \in 1..MaxStates /\ db \in 0..last /\ journal \in 0..last /\ origin \in 0..last
          /\ bot \in {"up", "writes", "down"}
        <3>1. 0 \in 0..1 /\ 1 \in 0..1
            OBVIOUS
        <3> QED BY <2>1, <3>1 DEF BackupInit
    <2>8. alien \in BOOLEAN
        BY DEF BackupInit
    <2> QED BY <2>2, <2>3, <2>4, <2>5, <2>6, <2>7, <2>8
            DEF FilesTyped
<1>2. BackupsWhole /\ Making /\ InOrder /\ Listed /\ NewestKept
    BY DEF BackupInit, BackupsWhole, Making, InOrder, Listed, NewestKept, Asleep, Down
<1>3. Source
    BY DEF BackupInit, Source, NoRestore
<1> QED BY <1>1, <1>2, <1>3 DEF FilesInv

\* The steps of the service up to the check, and the ends of its rounds, leave
\* all but itself alone.
LEMMA ServiceMoves ==
    ASSUME FilesInv, UNCHANGED <<clock, sets, database, directory, restore>>,
           service'.pc # "prunes",
           service' \in ServiceTypes(0..last, kept),
           service'.pc \in {"copies", "checked"} =>
               service'.name = clock \/ (service.pc = "copies" /\ service'.name = service.name),
           service'.pc = "checked" => service'.temp # 0
    PROVE  FilesInv'
<1> USE DEF database, directory
<1>1. FilesTyped'
    BY DEF FilesInv, FilesTyped
<1>2. BackupsWhole' /\ Source' /\ Listed' /\ NewestKept'
    BY DEF FilesInv, BackupsWhole, Source, Listed, NewestKept
<1>3. Making'
    BY DEF FilesInv, Making, FilesTyped
<1>4. InOrder'
    BY DEF FilesInv, InOrder, FilesTyped, Names
<1> QED BY <1>1, <1>2, <1>3, <1>4 DEF FilesInv

LEMMA NamedKeeps == FilesInv /\ Named => FilesInv'
<1> SUFFICES ASSUME FilesInv, Named PROVE FilesInv'
    OBVIOUS
<1> DEFINE name == service.name
           was == DOMAIN made
<1>0. /\ service.pc = "checked" /\ name \in Names /\ service.temp # 0
      /\ service.temp \in 0..last /\ service \in ServiceTypes(0..last, kept)
      /\ kept \subseteq was /\ was \subseteq Names /\ made \in [was -> SUBSET was]
    BY DEF Named, FilesInv, Making, FilesTyped, ServiceTypes
<1>1. /\ kept' = kept \cup {name} /\ made' = Completed(name)
      /\ holds' = [holds EXCEPT ![name] = service.temp]
      /\ service' = [service EXCEPT !.pc = "prunes", !.doomed = Doomed(kept')]
      /\ UNCHANGED <<clock, sets, db, journal, alien, bot, last, origin, restore>>
    BY DEF Named, database
<1>2. /\ DOMAIN made' = was \cup {name}
      /\ made'[name] = {}
      /\ \A n \in was : n # name => made'[n] = made[n] \cup {name}
      /\ made' \in [was \cup {name} -> SUBSET (was \cup {name})]
    BY <1>0, <1>1 DEF Completed
<1>3. Doomed(kept') \in SUBSET kept' /\ kept' \in SUBSET Names
    BY <1>0, <1>1 DEF Doomed
<1>4. service' \in ServiceTypes(0..last, kept') /\ service'.pc = "prunes"
      /\ service'.doomed = Doomed(kept')
    BY <1>0, <1>1, <1>3 DEF ServiceTypes
<1>5. FilesTyped'
    <2>1. holds' \in [Names -> 0..last]
        BY <1>0, <1>1 DEF FilesInv, FilesTyped
    <2>2. kept' \subseteq DOMAIN made' /\ DOMAIN made' \subseteq Names
          /\ made' \in [DOMAIN made' -> SUBSET DOMAIN made']
        BY <1>0, <1>1, <1>2
    <2> QED BY <1>1, <1>4, <2>1, <2>2 DEF FilesInv, FilesTyped
<1>6. BackupsWhole'
    BY <1>0, <1>1 DEF FilesInv, BackupsWhole, FilesTyped
<1>7. Making' /\ Source'
    BY <1>1, <1>4 DEF FilesInv, Making, Source
<1>8. ASSUME sets = 0
      PROVE  \A n \in DOMAIN made' :
                n =< clock /\ made'[n] = {k \in DOMAIN made' : k > n}
    <2> SUFFICES ASSUME NEW n \in DOMAIN made'
                 PROVE  n =< clock /\ made'[n] = {k \in DOMAIN made' : k > n}
        OBVIOUS
    <2>1. /\ name =< clock /\ \A m \in was : m =< name /\ m =< clock
          /\ \A m \in was : made[m] = {k \in was : k > m}
        BY <1>0, <1>8 DEF FilesInv, InOrder
    <2>2. name \in Int /\ \A m \in was : m \in Int
        BY <1>0 DEF Names
    <2>3. CASE n = name
        <3>1. \A k \in DOMAIN made' : ~(k > name)
            BY <1>2, <2>1, <2>2
        <3> QED BY <1>2, <2>1, <2>3, <3>1
    <2>4. CASE n # name
        <3>1. n \in was /\ name > n
            BY <1>2, <2>1, <2>2, <2>4
        <3>2. made'[n] = {k \in was : k > n} \cup {name}
            BY <1>2, <2>1, <2>4, <3>1
        <3> QED BY <1>2, <2>1, <3>1, <3>2
    <2> QED BY <2>3, <2>4
<1>9. InOrder'
    BY <1>1, <1>4, <1>8 DEF InOrder
<1>10. \A n \in kept' : n \in service'.doomed
                          <=> Cardinality({k \in kept' : k > n}) >= Retention
    BY <1>4 DEF Doomed
<1>11. ASSUME NEW n \in kept'
       PROVE  /\ Cardinality({k \in kept' : k > n}) \in Nat
              /\ sets = 0 => Cardinality({k \in kept' : k > n}) =< Cardinality(made'[n])
              /\ sets = 0 => Cardinality(made'[n]) \in Nat
    <2>1. kept' \in SUBSET (was \cup {name}) /\ was \cup {name} \in SUBSET Names
        BY <1>0, <1>1
    <2>2. {k \in kept' : k > n} \in SUBSET {k \in was \cup {name} : k > n}
          /\ {k \in was \cup {name} : k > n} \in SUBSET Names
        BY <2>1
    <2>3. sets = 0 => made'[n] = {k \in was \cup {name} : k > n}
        BY <1>2, <1>8, <2>1
    <2> QED BY <2>2, <2>3, FewerNames
<1>12. Listed'
    <2>1. \A n \in kept' \ service'.doomed : Cardinality({k \in kept' : k > n}) < Retention
        <3> SUFFICES ASSUME NEW n \in kept', n \notin service'.doomed
                     PROVE  Cardinality({k \in kept' : k > n}) < Retention
            OBVIOUS
        <3>1. ~(Cardinality({k \in kept' : k > n}) >= Retention)
            BY <1>10
        <3>2. Cardinality({k \in kept' : k > n}) \in Nat
            BY <1>11
        <3> QED BY <3>1, <3>2, BackupOK
    <2>2. sets = 0 => \A n \in service'.doomed : Cardinality(made'[n]) >= Retention
        <3> SUFFICES ASSUME sets = 0, NEW n \in service'.doomed
                     PROVE  Cardinality(made'[n]) >= Retention
            OBVIOUS
        <3>1. n \in kept'
            BY <1>3, <1>4
        <3>2. Cardinality({k \in kept' : k > n}) >= Retention
            BY <1>10, <3>1
        <3>3. /\ Cardinality({k \in kept' : k > n}) \in Nat
              /\ Cardinality({k \in kept' : k > n}) =< Cardinality(made'[n])
              /\ Cardinality(made'[n]) \in Nat
            BY <1>11, <3>1
        <3> QED BY <3>2, <3>3, BackupOK
    <2> QED BY <1>1, <2>1, <2>2 DEF Listed
<1>13. NewestKept'
    <2> SUFFICES ASSUME sets = 0, NEW n \in DOMAIN made', Cardinality(made'[n]) < Retention,
                        n # name
                 PROVE  n \in kept
        BY <1>1 DEF NewestKept
    <2>1. n \in was /\ made'[n] = made[n] \cup {name} /\ made'[n] \in SUBSET Names
        BY <1>0, <1>2
    <2>2. made[n] \in SUBSET made'[n]
        BY <2>1
    <2>3. Cardinality(made[n]) < Retention
        BY <2>1, <2>2, FewerNames, BackupOK
    <2> QED BY <2>1, <2>3 DEF FilesInv, NewestKept
<1> QED BY <1>5, <1>6, <1>7, <1>9, <1>12, <1>13 DEF FilesInv

LEMMA UnlinkKeeps == FilesInv /\ Unlink => FilesInv'
<1> SUFFICES ASSUME FilesInv, Unlink PROVE FilesInv'
    OBVIOUS
<1>1. PICK n \in service.doomed :
        kept' = kept \ {n} /\ service' = [service EXCEPT !.doomed = @ \ {n}]
    BY DEF Unlink
<1>2. /\ service.pc = "prunes" /\ service \in ServiceTypes(0..last, kept)
      /\ UNCHANGED <<clock, sets, db, journal, alien, bot, last, origin, holds, made, restore>>
    BY DEF Unlink, database, FilesInv, FilesTyped
<1>3. /\ service' \in ServiceTypes(0..last, kept') /\ service'.pc = "prunes"
      /\ service'.doomed = service.doomed \ {n}
    BY <1>1, <1>2 DEF ServiceTypes
<1>4. FilesTyped'
    BY <1>1, <1>2, <1>3 DEF FilesInv, FilesTyped
<1>5. BackupsWhole' /\ Making' /\ Source' /\ InOrder'
    BY <1>1, <1>2, <1>3 DEF FilesInv, BackupsWhole, Making, Source, InOrder
<1>6. Listed'
    <2>1. \A m \in kept' \ service'.doomed :
                Cardinality({k \in kept' : k > m}) < Retention
        <3> SUFFICES ASSUME NEW m \in kept' \ service'.doomed
                     PROVE  Cardinality({k \in kept' : k > m}) < Retention
            OBVIOUS
        <3>1. m \in kept \ service.doomed
            BY <1>1, <1>3
        <3>2. Cardinality({k \in kept : k > m}) < Retention
            BY <1>2, <3>1 DEF FilesInv, Listed
        <3>3. {k \in kept : k > m} \in SUBSET Names
            BY DEF FilesInv, FilesTyped
        <3>4. {k \in kept' : k > m} \in SUBSET {k \in kept : k > m}
            BY <1>1
        <3> QED BY <3>2, <3>3, <3>4, FewerNames, BackupOK
    <2> QED BY <1>2, <1>3, <2>1 DEF FilesInv, Listed
<1>7. NewestKept'
    <2> SUFFICES ASSUME sets = 0, NEW m \in DOMAIN made, Cardinality(made[m]) < Retention
                 PROVE  m \in kept'
        BY <1>2 DEF NewestKept
    <2>1. m \in kept
        BY DEF FilesInv, NewestKept
    <2>2. Cardinality(made[n]) >= Retention
        BY <1>1, <1>2 DEF FilesInv, Listed
    <2>3. Cardinality(made[m]) \in Nat
        <3>1. made[m] \in SUBSET Names
            BY DEF FilesInv, FilesTyped
        <3> QED BY <3>1, NamesFinite
    <2>4. m # n
        BY <2>2, <2>3, BackupOK
    <2> QED BY <1>1, <2>1, <2>4
<1> QED BY <1>4, <1>5, <1>6, <1>7 DEF FilesInv

\* A step of the bot, of the restore tool or of the clock leaves the directory
\* and the service alone.
LEMMA OutsideKeeps ==
    ASSUME FilesInv, UNCHANGED <<directory, service>>,
           clock' \in Names, sets' \in 0..MaxSets,
           sets' = 0 => sets = 0 /\ clock =< clock',
           last' \in 1..MaxStates, last =< last',
           db' \in 0..last', journal' \in 0..last', origin' \in 0..last',
           bot' \in {"up", "writes", "down"}, alien' \in BOOLEAN,
           restore' \in RestoreTypes(0..last'), Source'
    PROVE  FilesInv'
<1>1. FilesTyped'
    <2>1. 0..last \subseteq 0..last'
        BY DEF FilesInv, FilesTyped
    <2>2. holds' \in [Names -> 0..last']
        BY <2>1 DEF FilesInv, FilesTyped, directory
    <2>3. service' \in ServiceTypes(0..last', kept')
        <3>1. service \in ServiceTypes(0..last, kept) /\ service' = service /\ kept' = kept
            BY DEF FilesInv, FilesTyped, directory
        <3> QED BY <2>1, <3>1 DEF ServiceTypes
    <2> QED BY <2>2, <2>3 DEF FilesInv, FilesTyped, directory
<1>2. BackupsWhole' /\ Making'
    BY DEF FilesInv, BackupsWhole, Making, directory
<1>3. InOrder'
    <2>1. clock \in Int /\ clock' \in Int /\ service.name \in Int
          /\ \A n \in DOMAIN made : n \in Int
        BY DEF FilesInv, FilesTyped, Names, ServiceTypes
    <2> QED BY <2>1 DEF FilesInv, InOrder, directory
<1>4. Listed' /\ NewestKept'
    BY DEF FilesInv, Listed, NewestKept, directory
<1> QED BY <1>1, <1>2, <1>3, <1>4 DEF FilesInv

LEMMA FilesNext == FilesInv /\ [BackupNext]_bvars => FilesInv'
<1> SUFFICES ASSUME FilesInv, [BackupNext]_bvars PROVE FilesInv'
    OBVIOUS
<1>0. /\ service \in ServiceTypes(0..last, kept) /\ restore \in RestoreTypes(0..last)
      /\ clock \in Names /\ sets \in 0..MaxSets /\ last \in 1..MaxStates
      /\ db \in 0..last /\ journal \in 0..last /\ origin \in 0..last
      /\ bot \in {"up", "writes", "down"} /\ alien \in BOOLEAN
      /\ holds \in [Names -> 0..last] /\ kept \subseteq Names
      /\ clock =< clock /\ last =< last
    BY DEF FilesInv, FilesTyped, Names
<1>1. 0 \in 0..last /\ 0 \in 0..MaxClock /\ clock \in 0..MaxClock
    BY <1>0, BackupOK DEF Names
<1>2. /\ Down \in ServiceTypes(0..last, kept) /\ Asleep \in ServiceTypes(0..last, kept)
      /\ [Asleep EXCEPT !.pc = "failed"] \in ServiceTypes(0..last, kept)
      /\ Down.pc = "down" /\ Asleep.pc = "asleep"
      /\ [Asleep EXCEPT !.pc = "failed"].pc = "failed"
      /\ NoRestore \in RestoreTypes(0..last) /\ NoRestore.pc = "idle"
    BY <1>1 DEF Down, Asleep, NoRestore, ServiceTypes, RestoreTypes
<1>3. CASE BackupBegins
    <2>1. /\ service' \in ServiceTypes(0..last, kept) /\ service'.pc = "copies"
          /\ service'.name = clock
        BY <1>0, <1>1, <1>3 DEF BackupBegins, ServiceTypes
    <2> QED BY <1>3, <2>1, ServiceMoves DEF BackupBegins
<1>4. CASE Copied
    <2>1. /\ service' \in ServiceTypes(0..last, kept) /\ service'.pc = "checked"
          /\ service'.name = service.name /\ service'.temp # 0
        BY <1>0, <1>4 DEF Copied, ServiceTypes
    <2> QED BY <1>4, <2>1, ServiceMoves DEF Copied
<1>5. CASE Pruned \/ BackupFails \/ ServiceDies \/ ServiceStarts
    <2>1. /\ service' \in {Asleep, Down, [Asleep EXCEPT !.pc = "failed"]}
          /\ UNCHANGED <<clock, sets, database, directory, restore>>
        BY <1>5 DEF Pruned, BackupFails, ServiceDies, ServiceStarts
    <2> QED BY <1>2, <2>1, ServiceMoves
<1>6. CASE Named
    BY <1>6, NamedKeeps
<1>7. CASE Unlink
    BY <1>7, UnlinkKeeps
<1> USE DEF directory
<1>8. CASE WriteBegins
    <2>1. Source'
        BY <1>8 DEF WriteBegins, FilesInv, Source
    <2> QED BY <1>0, <1>1, <1>8, <2>1, OutsideKeeps DEF WriteBegins
<1>9. CASE WriteEnds
    <2>0. last < MaxStates
        BY <1>9 DEF WriteEnds, FilesInv, Source
    <2>2. /\ last' \in 1..MaxStates /\ last =< last' /\ db' \in 0..last' /\ origin' \in 0..last'
          /\ 0..last \subseteq 0..last'
        BY <1>0, <1>9, <2>0, BackupOK DEF WriteEnds
    <2>3. restore' \in RestoreTypes(0..last')
        BY <1>0, <1>9, <2>2 DEF WriteEnds, RestoreTypes
    <2>1. Source'
        BY <1>9 DEF WriteEnds, FilesInv, Source
    <2> QED BY <1>0, <1>1, <1>9, <2>1, <2>2, <2>3, OutsideKeeps DEF WriteEnds
<1>10. CASE BotEnds
    <2>1. Source'
        BY <1>0, <1>10 DEF BotEnds, FilesInv, Source
    <2> QED BY <1>0, <1>10, <2>1, OutsideKeeps DEF BotEnds
<1>11. CASE BotStarts
    <2>1. Source'
        BY <1>11 DEF BotStarts, FilesInv, Source
    <2> QED BY <1>0, <1>1, <1>11, <2>1, OutsideKeeps DEF BotStarts
<1>12. ASSUME NEW n \in kept, RestoreBegins(n) PROVE FilesInv'
    <2>1. Source'
        BY <1>12 DEF RestoreBegins, FilesInv, Source, database
    <2>2. restore' \in RestoreTypes(0..last)
        BY <1>0, <1>12 DEF RestoreBegins, RestoreTypes
    <2> QED BY <1>0, <1>12, <2>1, <2>2, OutsideKeeps DEF RestoreBegins, database
<1>13. CASE Restored
    <2>1. Source'
        BY <1>2, <1>13 DEF Restored, FilesInv, Source
    <2>2. restore.temp \in 0..last
        BY <1>0 DEF RestoreTypes
    <2> QED BY <1>0, <1>2, <1>13, <2>1, <2>2, OutsideKeeps DEF Restored
<1>14. CASE RestoreFails
    <2>1. Source'
        BY <1>2, <1>14 DEF RestoreFails, FilesInv, Source, database
    <2> QED BY <1>0, <1>2, <1>14, <2>1, OutsideKeeps DEF RestoreFails, database
<1>15. CASE ClockTick
    <2>1. Source'
        BY <1>15 DEF ClockTick, FilesInv, Source, database
    <2>2. clock' \in Names /\ clock =< clock'
        BY <1>0, <1>15, BackupOK DEF ClockTick, Names
    <2> QED BY <1>0, <1>15, <2>1, <2>2, OutsideKeeps DEF ClockTick, database
<1>16. CASE ClockSet
    <2>1. Source'
        BY <1>16 DEF ClockSet, FilesInv, Source, database
    <2>2. clock' \in Names /\ sets' \in 0..MaxSets /\ sets' # 0
        BY <1>0, <1>16, BackupOK DEF ClockSet, Names
    <2> QED BY <1>0, <1>16, <2>1, <2>2, OutsideKeeps DEF ClockSet, database
<1>17. CASE UNCHANGED bvars
    <2>1. Source'
        BY <1>17 DEF bvars, FilesInv, Source
    <2> QED BY <1>0, <1>17, <2>1, OutsideKeeps DEF bvars
<1> QED BY <1>3, <1>4, <1>5, <1>6, <1>7, <1>8, <1>9, <1>10, <1>11, <1>12, <1>13, <1>14, <1>15,
           <1>16, <1>17 DEF BackupNext

LEMMA FilesInvariance == BackupSpec => []FilesInv
BY FilesInit, FilesNext, PTL DEF BackupSpec

\* Type correctness of the backups, the database and those who write them.
THEOREM FilesTypeCorrect == BackupSpec => []BackupTypeOK
<1>1. FilesInv => BackupTypeOK
    BY FilesTypedAsType DEF FilesInv
<1> QED BY <1>1, FilesInvariance, PTL

\* Whatever dies at whatever step, no file with the name of a backup is half
\* copied, and the bot works with the state committed or restored last.
THEOREM NothingHalfCopied == BackupSpec => []NothingTorn
<1>1. FilesInv => NothingTorn
    BY DEF FilesInv, Source, NothingTorn, DatabaseWhole
<1> QED BY <1>1, FilesInvariance, PTL

\* For any limit, and through any number of failed or interrupted rounds, the
\* last backups are all there until the clock is set back.
THEOREM NewestStay == BackupSpec => []NewestKept
<1>1. FilesInv => NewestKept
    BY DEF FilesInv
<1> QED BY <1>1, FilesInvariance, PTL

\* A round that got through leaves no more than the limit, whatever the rounds
\* before it have left.
THEOREM PruningReachesLimit == BackupSpec => PrunedToLimit
<1> DEFINE A == (service.pc = "prunes" /\ service'.pc = "asleep") => Cardinality(kept) =< Retention
<1>1. FilesInv /\ [BackupNext]_bvars => [A]_bvars
    <2> SUFFICES ASSUME FilesInv, BackupNext, service.pc = "prunes", service'.pc = "asleep"
                 PROVE  Cardinality(kept) =< Retention
        OBVIOUS
    <2>1. Pruned
        <3>1. service' # service
            OBVIOUS
        <3>2. ~(ServiceStarts \/ BackupBegins \/ Copied \/ Named)
            BY DEF ServiceStarts, BackupBegins, Copied, Named
        <3>5. Down.pc = "down" /\ [Asleep EXCEPT !.pc = "failed"].pc = "failed"
            BY DEF Down, Asleep
        <3>6. ~(BackupFails \/ ServiceDies)
            BY <3>5 DEF BackupFails, ServiceDies
        <3>3. ~Unlink
            BY DEF Unlink, FilesInv, FilesTyped, ServiceTypes
        <3>4. ~(\/ WriteBegins \/ WriteEnds \/ BotEnds \/ BotStarts
                \/ (\E n \in kept : RestoreBegins(n)) \/ Restored \/ RestoreFails
                \/ ClockTick \/ ClockSet)
            BY <3>1 DEF WriteBegins, WriteEnds, BotEnds, BotStarts, RestoreBegins, Restored,
                        RestoreFails, ClockTick, ClockSet
        <3> QED BY <3>2, <3>3, <3>4, <3>6 DEF BackupNext
    <2>2. \A n \in kept : Cardinality({k \in kept : k > n}) < Retention
        BY <2>1 DEF Pruned, FilesInv, Listed
    <2>3. kept \in SUBSET Names
        BY DEF FilesInv, FilesTyped
    <2> QED BY <2>2, <2>3, FewNewer
<1> HIDE DEF A
<1>2. BackupSpec => [][A]_bvars
    BY <1>1, FilesInvariance, PTL DEF BackupSpec
<1> QED BY <1>2 DEF PrunedToLimit, A

=============================================================================
