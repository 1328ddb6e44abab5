------------------------ MODULE TokenSessionProofs ------------------------
(***************************************************************************)
(* Proofs about TokenSession, for any tasks and any number of tokens and   *)
(* crashes, and about HubTransport, which uses the session it keeps.       *)
(***************************************************************************)
EXTENDS TokenSession, HubTransport, SequenceTheorems, TLAPS

----------------------------------------------------------------------------
(* The inductive invariant.                                                *)

States(n) == [pc : PCs, tok : 0..n, mine : 0..n]
Origins(n) == [from : 0..n, by : Tasks \cup {Background}, held : BOOLEAN]
Ops(n) == [op : {"set", "delete"}, by : Tasks \cup {Background}, tok : 0..n]

\* TypeOK, with every token one the server has really issued.
Typed ==
    /\ issued \in Tokens
    /\ mem \in 0..issued /\ invalid \in BOOLEAN /\ disk \in 0..issued
    /\ task \in [Tasks -> States(issued)]
    /\ db \in Seq(Ops(issued))
    /\ clears \in Nat
    /\ good \subseteq 1..issued /\ live \subseteq 1..issued /\ expired \subseteq 1..issued
    /\ origin \in [Tokens -> Origins(issued)] /\ lost \subseteq Token
    /\ restarts \in 0..MaxRestarts

\* A task waits for at most one statement, and at the place DbStep expects.
QueueOK ==
    /\ \A i \in 1..Len(db) :
          db[i].by # Background => task[db[i].by].pc \in {"save", "keep", "drop"}
    /\ \A i, j \in 1..Len(db) :
          db[i].by = db[j].by /\ db[i].by # Background => i = j

\* A task that wants a refresh has seen its access token refused.
Refused ==
    \A t \in Tasks \ Refreshers :
        task[t].pc \in {"wait", "post"} => task[t].tok \notin live

IInv == Typed /\ QueueOK /\ Refused

----------------------------------------------------------------------------
(* The queue of statements.                                                *)

\* Every entry of the queue is a statement of a task or of a clear().
LEMMA EntryFacts ==
    ASSUME Typed
    PROVE  \A i \in 1..Len(db) :
               /\ db[i] \in Ops(issued)
               /\ db[i].by \in Tasks \cup {Background}
<1>1. db \in Seq(Ops(issued))
    BY DEF Typed
<1>2. \A i \in 1..Len(db) : db[i] \in Ops(issued)
    BY <1>1, ElementOfSeq
<1> QED BY <1>2 DEF Ops

\* A statement added by a task that waits for none keeps the queue in order.
LEMMA QueueFacts ==
    ASSUME Typed, QueueOK, NEW n \in Nat, db \in Seq(Ops(n)),
           task \in [Tasks -> States(n)],
           NEW t \in Tasks, NEW op \in Ops(n), op.by = t,
           task[t].pc \notin {"save", "keep", "drop"},
           Execute(op),
           NEW r \in States(n), r.pc \in {"save", "keep", "drop"},
           task' = [task EXCEPT ![t] = r]
    PROVE  /\ db' \in Seq(Ops(n))
           /\ QueueOK'
<1>1. /\ db' \in Seq(Ops(n))
      /\ Len(db') = Len(db) + 1
      /\ \A i \in 1..Len(db) : db'[i] = db[i]
      /\ db'[Len(db) + 1] = op
    BY AppendProperties DEF Execute
<1>2. \A i \in 1..Len(db) : db[i].by # t
    BY TasksOK DEF QueueOK
<1>3. \A i \in 1..Len(db) : db[i].by \in Tasks \cup {Background}
    BY EntryFacts
<1>4. Len(db) \in Nat
    BY LenProperties
<1>5. \A i \in 1..Len(db') : db'[i].by # Background =>
          task'[db'[i].by].pc \in {"save", "keep", "drop"}
    BY <1>1, <1>2, <1>3, <1>4 DEF QueueOK
<1>6. \A i, j \in 1..Len(db') :
          db'[i].by = db'[j].by /\ db'[i].by # Background => i = j
    BY <1>1, <1>2, <1>4 DEF QueueOK
<1> QED BY <1>1, <1>5, <1>6 DEF QueueOK

\* A task that waits for no statement may move: the queue does not mention it.
LEMMA MoveFacts ==
    ASSUME Typed, QueueOK, NEW t \in Tasks, UNCHANGED db,
           task[t].pc \notin {"save", "keep", "drop"},
           NEW r, task' = [task EXCEPT ![t] = r]
    PROVE  QueueOK'
<1>1. \A i \in 1..Len(db) : db[i].by # t
    BY TasksOK DEF QueueOK
<1>2. \A i \in 1..Len(db) : db[i].by \in Tasks \cup {Background}
    BY EntryFacts
<1>3. \A i \in 1..Len(db') : db'[i].by # Background =>
          task'[db'[i].by].pc \in {"save", "keep", "drop"}
    BY <1>1, <1>2 DEF QueueOK, Typed
<1> QED BY <1>3 DEF QueueOK

\* A statement of a background clear() belongs to no task.
LEMMA BackgroundFacts ==
    ASSUME Typed, QueueOK, Execute(DelOp(Background)), UNCHANGED task
    PROVE  db' \in Seq(Ops(issued)) /\ QueueOK'
<1> DEFINE op == DelOp(Background)
<1>1. op \in Ops(issued) /\ op.by = Background
    BY DEF Ops, DelOp, Typed, Tokens
<1> HIDE DEF op
<1>2. /\ db' \in Seq(Ops(issued))
      /\ Len(db') = Len(db) + 1
      /\ \A i \in 1..Len(db) : db'[i] = db[i]
      /\ db'[Len(db) + 1] = op
    BY <1>1, AppendProperties DEF Execute, Typed, op
<1>3. Len(db) \in Nat
    BY DEF Typed
<1>4. \A i \in 1..Len(db') : db'[i].by # Background =>
          task'[db'[i].by].pc \in {"save", "keep", "drop"}
    BY <1>1, <1>2, <1>3 DEF QueueOK
<1>5. \A i, j \in 1..Len(db') :
          db'[i].by = db'[j].by /\ db'[i].by # Background => i = j
    BY <1>1, <1>2, <1>3 DEF QueueOK
<1> QED BY <1>2, <1>4, <1>5 DEF QueueOK

\* The thread executes the head of the queue and lets its task go on.
LEMMA DbStepFacts ==
    ASSUME Typed, QueueOK, Refused, DbStep
    PROVE  IInv'
<1> DEFINE h == Head(db)
<1>1. /\ h = db[1] /\ 1 \in 1..Len(db) /\ h \in Ops(issued)
      /\ db' \in Seq(Ops(issued)) /\ Len(db') = Len(db) - 1
      /\ \A i \in 1..Len(db') : db'[i] = db[i+1]
    BY HeadTailProperties DEF DbStep, Typed
<1>2. h.by # Background => task[h.by].pc \in {"save", "keep", "drop"}
    BY <1>1 DEF QueueOK
<1>3. h.by \in Tasks \cup {Background} /\ h.tok \in 0..issued
    BY <1>1 DEF Ops
<1>4. Len(db) \in Nat
    BY DEF Typed
<1> HIDE DEF h
<1>5. CASE h.by = Background
    <2>1. UNCHANGED task
        BY <1>5 DEF DbStep, h
    <2>2. Typed'
        BY <1>1, <1>3, <2>1 DEF DbStep, h, Typed, server
    <2>3. \A i \in 1..Len(db') : i + 1 \in 1..Len(db)
        BY <1>1, <1>4
    <2>4. QueueOK'
        <3>1. \A i, j \in 1..Len(db') :
                  db'[i].by = db'[j].by /\ db'[i].by # Background => i + 1 = j + 1
            BY <1>1, <2>3 DEF QueueOK
        <3> QED BY <1>1, <2>1, <2>3, <3>1 DEF QueueOK
    <2>5. Refused'
        BY <2>1 DEF DbStep, Refused, server
    <2> QED BY <2>2, <2>4, <2>5 DEF IInv
<1>6. CASE h.by # Background
    <2> DEFINE t == h.by
               next == Done[task[t].pc]
    <2>1. t \in Tasks
        BY <1>3, <1>6
    <2>2. task[t].pc \in {"save", "keep", "drop"}
        BY <1>2, <1>6
    <2>3. next \in {"saved", "kept", "dropped"}
        BY <2>2 DEF Done
    <2>4. task' = [task EXCEPT ![t].pc = next]
        BY <1>6 DEF DbStep, h
    <2> HIDE DEF next, t
    <2>5. task' \in [Tasks -> States(issued)]
        BY <2>1, <2>3, <2>4 DEF Typed, PCs, States
    <2>6. Typed'
        BY <1>1, <1>3, <2>5 DEF DbStep, h, Typed, server
    <2>7. \A i \in 1..Len(db') : i + 1 \in 1..Len(db) /\ i + 1 # 1
        BY <1>1, <1>4
    <2>8. \A i \in 1..Len(db') : db'[i].by # t
        BY <1>1, <1>6, <2>7 DEF QueueOK, t
    <2>9. \A i, j \in 1..Len(db') :
              db'[i].by = db'[j].by /\ db'[i].by # Background => i + 1 = j + 1
        BY <1>1, <2>7 DEF QueueOK
    <2>10. \A i \in 1..Len(db') : db'[i].by \in Tasks \cup {Background}
        BY <1>1, <2>7, EntryFacts
    <2>11. \A i \in 1..Len(db') : db'[i].by # Background =>
               task'[db'[i].by].pc \in {"save", "keep", "drop"}
        BY <1>1, <2>1, <2>4, <2>7, <2>8, <2>10 DEF QueueOK, Typed
    <2>12. QueueOK'
        BY <2>9, <2>11 DEF QueueOK
    <2>13. Refused'
        BY <2>1, <2>3, <2>4 DEF DbStep, Refused, server, Typed, Tasks
    <2> QED BY <2>6, <2>12, <2>13 DEF IInv
<1> QED BY <1>5, <1>6


----------------------------------------------------------------------------
(* Every step keeps the invariant.                                         *)

\* A step of one task that leaves the queue and the server alone.
LEMMA MoveKeepsAll ==
    ASSUME IInv, NEW t \in Tasks, NEW r \in States(issued),
           task[t].pc \notin {"save", "keep", "drop"},
           task' = [task EXCEPT ![t] = r],
           r.pc \in {"wait", "post"} => t \in Refreshers \/ r.tok \notin live,
           mem' \in 0..issued, invalid' \in BOOLEAN, clears' \in Nat,
           UNCHANGED <<db, disk, answers, restarts>>, lost' \subseteq Token
    PROVE  IInv'
<1>1. QueueOK'
    BY MoveFacts DEF IInv
<1>2. Typed'
    BY DEF IInv, Typed, States, answers
<1>3. Refused'
    <2> SUFFICES ASSUME NEW s \in Tasks \ Refreshers,
                        task'[s].pc \in {"wait", "post"}
                 PROVE  task'[s].tok \notin live
        BY DEF Refused, answers
    <2>1. CASE s = t
        BY <2>1 DEF IInv, Typed
    <2>2. CASE s # t
        BY <2>2 DEF IInv, Typed, Refused
    <2> QED BY <2>1, <2>2
<1> QED BY <1>1, <1>2, <1>3 DEF IInv

\* The same, where nothing is lost.
LEMMA MoveKeeps ==
    ASSUME IInv, NEW t \in Tasks, NEW r \in States(issued),
           task[t].pc \notin {"save", "keep", "drop"},
           task' = [task EXCEPT ![t] = r],
           r.pc \in {"wait", "post"} => t \in Refreshers \/ r.tok \notin live,
           mem' \in 0..issued, invalid' \in BOOLEAN, clears' \in Nat,
           UNCHANGED <<db, disk, server, restarts>>
    PROVE  IInv'
<1>1. UNCHANGED answers /\ lost' \subseteq Token
    BY DEF server, answers, IInv, Typed
<1> QED BY <1>1, MoveKeepsAll

\* A step of one task that also queues a statement.
LEMMA ExecuteKeeps ==
    ASSUME IInv, NEW t \in Tasks, NEW r \in States(issued),
           task[t].pc \notin {"save", "keep", "drop"},
           r.pc \in {"save", "keep", "drop"},
           task' = [task EXCEPT ![t] = r],
           NEW op \in Ops(issued), op.by = t, Execute(op),
           mem' \in 0..issued, invalid' \in BOOLEAN, clears' \in Nat,
           UNCHANGED <<disk, server, restarts>>
    PROVE  IInv'
<1>1. issued \in Nat /\ Typed /\ QueueOK
    BY DEF IInv, Typed, Tokens
<1>2. db' \in Seq(Ops(issued)) /\ QueueOK'
    BY <1>1, QueueFacts DEF Typed
<1>3. Typed'
    BY <1>2 DEF IInv, Typed, States, server
<1>4. Refused'
    BY DEF IInv, Typed, Refused, server, Tasks
<1> QED BY <1>2, <1>3, <1>4 DEF IInv

\* The server issues a pair: everything known before stays known.
LEMMA IssueFacts ==
    ASSUME Typed, NEW n \in Tokens, NEW old \in 0..issued, NEW held \in BOOLEAN,
           NEW u \in Tasks, Issue(n, old, u, held)
    PROVE  /\ issued' \in Tokens /\ issued' = n /\ issued < n
           /\ db \in Seq(Ops(n))
           /\ \A x \in 0..issued : x \in 0..n
           /\ task \in [Tasks -> States(n)]
           /\ good' \subseteq 1..n /\ live' = live \cup {n}
           /\ live' \subseteq 1..n /\ expired' \subseteq 1..n
           /\ origin' \in [Tokens -> Origins(n)] /\ lost' \subseteq Token
<1>1. n = issued + 1 /\ issued \in Nat /\ issued' = n
    BY DEF Issue, Typed, Tokens
<1>2. 0..issued \subseteq 0..n /\ 1..issued \subseteq 1..n /\ n \in 1..n
    BY <1>1
<1>3. Ops(issued) \subseteq Ops(n)
    BY <1>2 DEF Ops
<1>4. db \in Seq(Ops(n))
    BY <1>3, SeqMonotonic DEF Typed
<1>5. task \in [Tasks -> States(n)]
    BY <1>2 DEF Typed, States
<1>6. good' \subseteq 1..n
    BY <1>2 DEF Issue, Typed
<1>7. live' = live \cup {n} /\ live' \subseteq 1..n
    BY <1>2 DEF Issue, Typed
<1>8. expired' \subseteq 1..n
    BY <1>2 DEF Issue, Typed
<1>9. origin' \in [Tokens -> Origins(n)] /\ lost' \subseteq Token
    <2>1. origin \in [Tokens -> Origins(n)]
        BY <1>2 DEF Typed, Origins
    <2>2. [from |-> old, by |-> u, held |-> held] \in Origins(n)
        BY <1>2 DEF Origins
    <2> QED BY <2>1, <2>2 DEF Issue, Typed
<1> QED BY <1>1, <1>2, <1>4, <1>5, <1>6, <1>7, <1>8, <1>9

\* The pair issued for a task's code or refresh token, and what the task does.
LEMMA IssueKeeps ==
    ASSUME IInv, NEW t \in Tasks, NEW n \in Tokens, NEW old \in 0..issued, NEW held \in BOOLEAN,
           NEW u \in Tasks, Issue(n, old, u, held),
           NEW r \in States(n), task' = [task EXCEPT ![t] = r],
           task[t].pc \notin {"save", "keep", "drop"},
           r.pc \notin {"wait", "post"},
           mem' \in 0..n, invalid' \in BOOLEAN,
           db' \in Seq(Ops(n)), QueueOK',
           UNCHANGED <<disk, clears, restarts>>
    PROVE  IInv'
<1>0. /\ issued' \in Tokens /\ issued' = n /\ issued < n
      /\ \A x \in 0..issued : x \in 0..n
      /\ task \in [Tasks -> States(n)]
      /\ good' \subseteq 1..n /\ live' = live \cup {n}
      /\ live' \subseteq 1..n /\ expired' \subseteq 1..n
      /\ origin' \in [Tokens -> Origins(n)] /\ lost' \subseteq Token
    <2>1. Typed
        BY DEF IInv
    <2> QED BY <2>1, IssueFacts
<1>1. Typed'
    BY <1>0 DEF IInv, Typed, States
<1>2. Refused'
    <2> SUFFICES ASSUME NEW s \in Tasks \ Refreshers,
                        task'[s].pc \in {"wait", "post"}
                 PROVE  task'[s].tok \notin live'
        BY DEF Refused
    <2>1. s \in Tasks
        OBVIOUS
    <2>2. task \in [Tasks -> States(issued)]
        BY DEF IInv, Typed, States
    <2>3. s # t /\ task'[s] = task[s]
        BY <2>1, <2>2
    <2>4. task[s].tok \notin live /\ task[s].tok \in 0..issued
        BY <2>1, <2>2, <2>3 DEF IInv, Refused, States
    <2>5. task[s].tok # n
        BY <1>0, <2>4 DEF IInv, Tokens, Typed
    <2> QED BY <1>0, <2>3, <2>4, <2>5
<1> QED BY <1>1, <1>2 DEF IInv

\* A task's confirmed code: the login pair is saved, or used first.
LEMMA ConfirmedKeeps ==
    ASSUME IInv, NEW t \in Tasks, Confirmed(t)
    PROVE  IInv'
<1>1. PICK n \in Tokens :
        /\ Issue(n, 0, t, restarts \in Register)
        /\ SetTokens(n)
        /\ IF restarts \in Register
           THEN /\ task' = [task EXCEPT ![t] = [pc |-> "call", tok |-> n, mine |-> n]]
                /\ UNCHANGED db
           ELSE Go(t, "keep", n) /\ Execute(SetOp(t, n))
    BY DEF Confirmed
<1>2. /\ task[t].pc = "confirm" /\ UNCHANGED <<disk, clears, restarts>>
      /\ mem' = n /\ invalid' = FALSE /\ n \in 0..n /\ n \in Nat
    BY <1>1 DEF Confirmed, At, SetTokens, Tokens
<1>a. 0 \in 0..issued /\ (restarts \in Register) \in BOOLEAN /\ Typed /\ QueueOK
    BY DEF IInv, Typed, Tokens
<1>b. Issue(n, 0, t, restarts \in Register)
    BY <1>1
<1>3. /\ Typed /\ QueueOK /\ db \in Seq(Ops(n)) /\ task \in [Tasks -> States(n)]
    <2> DEFINE held == restarts \in Register
    <2>1. held \in BOOLEAN /\ Issue(n, 0, t, held)
        BY <1>a, <1>b
    <2> HIDE DEF held
    <2> QED BY <1>a, <2>1, IssueFacts
<1>c. ASSUME NEW r \in States(n), task' = [task EXCEPT ![t] = r],
             r.pc \notin {"wait", "post"}, db' \in Seq(Ops(n)), QueueOK'
      PROVE  IInv'
    <2> DEFINE held == restarts \in Register
    <2>1. held \in BOOLEAN /\ Issue(n, 0, t, held)
        BY <1>a, <1>b
    <2> HIDE DEF held
    <2> QED BY <1>2, <1>a, <1>c, <2>1, IssueKeeps
<1>4. CASE restarts \in Register
    <2> DEFINE r == [pc |-> "call", tok |-> n, mine |-> n]
    <2>1. r \in States(n)
        BY <1>2 DEF States, PCs
    <2>2. task' = [task EXCEPT ![t] = r] /\ UNCHANGED db
        BY <1>1, <1>4
    <2> HIDE DEF r
    <2>3. QueueOK'
        BY <1>2, <1>3, <2>2, MoveFacts
    <2>4. r.pc = "call"
        BY DEF r
    <2> QED BY <1>3, <1>c, <2>1, <2>2, <2>3, <2>4
<1>5. CASE restarts \notin Register
    <2> DEFINE r == [task[t] EXCEPT !.pc = "keep", !.tok = n]
    <2>1. r \in States(n) /\ r.pc = "keep"
        BY <1>2, <1>3 DEF States, PCs
    <2>2. task' = [task EXCEPT ![t] = r]
        BY <1>1, <1>3, <1>5 DEF Go, States
    <2>3. SetOp(t, n) \in Ops(n) /\ SetOp(t, n).by = t /\ Execute(SetOp(t, n))
        BY <1>1, <1>2, <1>5 DEF SetOp, Ops
    <2> HIDE DEF r
    <2>4. db' \in Seq(Ops(n)) /\ QueueOK'
        BY <1>2, <1>3, <2>1, <2>2, <2>3, QueueFacts
    <2> QED BY <1>c, <2>1, <2>2, <2>4
<1> QED BY <1>4, <1>5

\* What a call to _invalidate_refresh leaves.
LEMMA InvalidateFacts ==
    ASSUME IInv, Invalidate
    PROVE  mem' \in 0..issued /\ invalid' \in BOOLEAN /\ clears' \in Nat
<1>1. mem \in 0..issued /\ invalid \in BOOLEAN /\ clears \in Nat /\ issued \in Nat
    BY DEF IInv, Typed, Tokens
<1>2. CASE UNCHANGED <<mem, invalid, clears>>
    BY <1>1, <1>2
<1>3. CASE mem' = 0 /\ invalid' = TRUE /\ clears' = clears + 1
    BY <1>1, <1>3
<1>4. \/ UNCHANGED <<mem, invalid, clears>>
      \/ mem' = 0 /\ invalid' = TRUE /\ clears' = clears + 1
    BY Zenon DEF Invalidate
<1> QED BY <1>2, <1>3, <1>4

\* The steps of the token owner that only move a task.
LEMMA ContinueKeeps ==
    ASSUME IInv, NEW t \in Tasks, Continue(t)
    PROVE  IInv'
<1> DEFINE To(pc, tok) == [task[t] EXCEPT !.pc = pc, !.tok = tok]
<1>0. /\ task \in [Tasks -> States(issued)] /\ task[t] \in States(issued)
      /\ Idle \in States(issued) /\ mem \in 0..issued /\ 0 \in 0..issued
      /\ invalid \in BOOLEAN /\ clears \in Nat
    BY DEF IInv, Typed, States, Idle, PCs, Tokens
<1>a. ASSUME NEW pc \in PCs, NEW tok \in 0..issued, Go(t, pc, tok)
      PROVE  /\ To(pc, tok) \in States(issued)
             /\ To(pc, tok).pc = pc /\ To(pc, tok).tok = tok
             /\ task' = [task EXCEPT ![t] = To(pc, tok)]
    BY <1>0, <1>a DEF Go, States
<1>b. Idle.pc = "idle"
    BY DEF Idle
<1>c. {"wait", "post", "retry", "denied", "saved", "drop", "keep", "save"} \subseteq PCs
    BY DEF PCs
<1> HIDE DEF To
<1>1. CASE Answered(t)
    <2>1. task[t].pc \notin {"save", "keep", "drop"}
          /\ UNCHANGED <<mem, invalid, disk, clears, server, restarts>>
        BY <1>1 DEF Answered
    <2>2. CASE End(t) /\ UNCHANGED db
        BY <1>0, <1>b, <2>1, <2>2, MoveKeeps DEF End
    <2>3. CASE Go(t, "keep", task[t].mine) /\ Execute(SetOp(t, task[t].mine))
        <3>1. task[t].mine \in 0..issued
            BY <1>0 DEF States
        <3>2. SetOp(t, task[t].mine) \in Ops(issued) /\ SetOp(t, task[t].mine).by = t
            BY <3>1 DEF SetOp, Ops
        <3> QED BY <1>0, <1>a, <1>c, <2>1, <2>3, <3>1, <3>2, ExecuteKeeps
    <2> QED BY <1>1, <2>2, <2>3 DEF Answered
<1>2. CASE Unauthorized(t)
    <2>1. /\ task[t].pc = "call" /\ task[t].tok \notin live
          /\ UNCHANGED <<db, disk, server, restarts>> /\ task[t].tok \in 0..issued
        BY <1>0, <1>2 DEF Unauthorized, At, States
    <2>2. CASE End(t) /\ UNCHANGED <<mem, invalid, clears>>
        BY <1>0, <1>b, <2>1, <2>2, MoveKeeps DEF End
    <2>3. CASE End(t) /\ Invalidate
        BY <1>0, <1>b, <2>1, <2>3, InvalidateFacts, MoveKeeps DEF End
    <2>4. CASE Go(t, "wait", task[t].tok) /\ UNCHANGED <<mem, invalid, clears>>
        BY <1>0, <1>a, <1>c, <2>1, <2>4, MoveKeeps
    <2> QED BY <1>2, <2>2, <2>3, <2>4 DEF Unauthorized, IfRefreshAvailable
<1>3. CASE Enter(t)
    <2>1. /\ task[t].pc = "wait" /\ UNCHANGED <<db, disk, server, restarts>>
        BY <1>3 DEF Enter, At
    <2>2. CASE End(t) /\ UNCHANGED <<mem, invalid, clears>>
        BY <1>0, <1>b, <2>1, <2>2, MoveKeeps DEF End
    <2>3. CASE End(t) /\ Invalidate
        BY <1>0, <1>b, <2>1, <2>3, InvalidateFacts, MoveKeeps DEF End
    <2>4. CASE Go(t, "retry", mem) /\ UNCHANGED <<mem, invalid, clears>>
        BY <1>0, <1>a, <1>c, <2>1, <2>4, MoveKeeps
    <2>5. CASE /\ Go(t, "post", mem) /\ UNCHANGED <<mem, invalid, clears>>
               /\ mem = task[t].tok
        <3>1. t \in Refreshers \/ mem \notin live
            BY <2>1, <2>5 DEF IInv, Refused
        <3> QED BY <1>0, <1>a, <1>c, <2>1, <2>5, <3>1, MoveKeeps
    <2> QED BY <1>3, <2>2, <2>3, <2>4, <2>5 DEF Enter, IfRefreshAvailable
<1>4. CASE Exchange(t)
    <2>1. task[t].pc = "post" /\ UNCHANGED <<mem, invalid, db, disk, clears, restarts>>
        BY <1>4 DEF Exchange, At
    <2>2. ASSUME NEW n \in Tokens, Issue(n, task[t].tok, t, FALSE), Go(t, "granted", n)
          PROVE  IInv'
        <3> DEFINE r == [task[t] EXCEPT !.pc = "granted", !.tok = n]
        <3>1. /\ Typed /\ QueueOK /\ db \in Seq(Ops(n)) /\ task \in [Tasks -> States(n)]
              /\ mem \in 0..n /\ n \in 0..n
            <4>1. Typed /\ QueueOK /\ task[t].tok \in 0..issued /\ FALSE \in BOOLEAN
                BY <1>0 DEF IInv, States
            <4>2. /\ db \in Seq(Ops(n)) /\ task \in [Tasks -> States(n)]
                  /\ \A x \in 0..issued : x \in 0..n
                BY <2>2, <4>1, IssueFacts
            <4> QED BY <1>0, <4>1, <4>2 DEF Tokens
        <3>2. r \in States(n) /\ r.pc = "granted" /\ task' = [task EXCEPT ![t] = r]
            BY <2>2, <3>1 DEF Go, States, PCs
        <3> HIDE DEF r
        <3>3. QueueOK'
            BY <2>1, <3>1, <3>2, MoveFacts
        <3>4. task[t].tok \in 0..issued /\ FALSE \in BOOLEAN
            BY <1>0 DEF States
        <3>5. db' \in Seq(Ops(n)) /\ mem' \in 0..n /\ invalid' \in BOOLEAN
            BY <1>0, <2>1, <3>1
        <3> QED BY <2>1, <2>2, <3>2, <3>3, <3>4, <3>5, IssueKeeps
    <2>3. CASE Go(t, "denied", task[t].tok) /\ UNCHANGED server
        <3>1. task[t].tok \in 0..issued
            BY <1>0 DEF States
        <3> QED BY <1>0, <1>a, <1>c, <2>1, <2>3, <3>1, MoveKeeps
    <2> QED BY <1>4, <2>2, <2>3 DEF Exchange
<1>5. CASE RefreshFails(t)
    <2>1. lost' \subseteq Token
        <3>1. task[t].tok \in Token
            BY <1>0, TasksOK DEF IInv, Typed, States, Tokens, Token
        <3> QED BY <1>5, <3>1 DEF RefreshFails, IInv, Typed
    <2> QED BY <1>0, <1>b, <1>5, <2>1, MoveKeepsAll DEF RefreshFails, End
<1>6. CASE Granted(t)
    <2>1. /\ task[t].pc = "granted" /\ task[t].tok \in 0..issued
          /\ mem' \in 0..issued /\ invalid' \in BOOLEAN
          /\ UNCHANGED <<disk, clears, server, restarts>>
        BY <1>0, <1>6 DEF Granted, At, States, SetTokens
    <2>2. SetOp(t, task[t].tok) \in Ops(issued) /\ SetOp(t, task[t].tok).by = t
        BY <2>1 DEF SetOp, Ops
    <2>3. Execute(SetOp(t, task[t].tok)) /\ Go(t, "save", task[t].tok)
        BY <1>6 DEF Granted
    <2> QED BY <1>0, <1>a, <1>c, <2>1, <2>2, <2>3, ExecuteKeeps
<1>7. CASE Denied(t)
    BY <1>0, <1>b, <1>7, InvalidateFacts, MoveKeeps DEF Denied, At, End
<1>8. CASE Saved(t)
    <2>1. /\ task[t].pc = "saved"
          /\ UNCHANGED <<mem, invalid, db, disk, clears, server, restarts>>
        BY <1>8 DEF Saved, At
    <2>2. CASE End(t)
        BY <1>0, <1>b, <2>1, <2>2, MoveKeeps DEF End
    <2>3. CASE Go(t, "retry", mem)
        BY <1>0, <1>a, <1>c, <2>1, <2>3, MoveKeeps
    <2> QED BY <1>8, <2>2, <2>3 DEF Saved
<1>9. CASE Confirmed(t)
    BY <1>9, ConfirmedKeeps
<1>10. CASE NotConfirmed(t)
    BY <1>0, <1>b, <1>10, MoveKeeps DEF NotConfirmed, At, End
<1>11. CASE Kept(t)
    BY <1>0, <1>b, <1>11, MoveKeeps DEF Kept, At, End
<1>12. CASE LogoutDeletes(t)
    <2>1. /\ task[t].pc = "clear" /\ Execute(DelOp(t)) /\ Go(t, "drop", 0)
          /\ UNCHANGED <<mem, invalid, disk, clears, server, restarts>>
        BY <1>12 DEF LogoutDeletes, At
    <2>2. DelOp(t) \in Ops(issued) /\ DelOp(t).by = t
        BY <1>0 DEF DelOp, Ops
    <2> QED BY <1>0, <1>a, <1>c, <2>1, <2>2, ExecuteKeeps
<1>13. CASE LoggedOut(t)
    BY <1>0, <1>b, <1>13, InvalidateFacts, MoveKeeps DEF LoggedOut, At, End
<1> QED BY <1>1, <1>2, <1>3, <1>4, <1>5, <1>6, <1>7, <1>8, <1>9, <1>10,
           <1>11, <1>12, <1>13 DEF Continue

\* A task is started.
LEMMA StartKeeps ==
    ASSUME IInv, Start
    PROVE  IInv'
<1>0. /\ task \in [Tasks -> States(issued)] /\ mem \in 0..issued /\ 0 \in 0..issued
      /\ invalid \in BOOLEAN /\ clears \in Nat
    BY DEF IInv, Typed, Tokens
<1>a. ASSUME NEW t \in Tasks, NEW pc \in {"call", "post", "confirm", "clear"},
             NEW tok \in 0..issued, Go(t, pc, tok), task[t].pc = "idle",
             pc = "post" => t \in Refreshers,
             mem' \in 0..issued, invalid' \in BOOLEAN, clears' \in Nat,
             UNCHANGED <<db, disk, server, restarts>>
      PROVE  IInv'
    <2> DEFINE r == [task[t] EXCEPT !.pc = pc, !.tok = tok]
    <2>1. r \in States(issued) /\ r.pc = pc /\ task' = [task EXCEPT ![t] = r]
        BY <1>0, <1>a DEF Go, States, PCs
    <2> HIDE DEF r
    <2> QED BY <1>a, <2>1, MoveKeeps
<1>1. ASSUME NEW t \in Requests, RequestStart(t)
      PROVE  IInv'
    <2>0. t \in Tasks
        BY DEF Tasks
    <2>1. task[t].pc = "idle" /\ UNCHANGED <<db, disk, server, restarts>>
        BY <1>1 DEF RequestStart, At
    <2>2. CASE Invalidate /\ UNCHANGED task
        <3>1. Typed'
            BY <2>1, <2>2, InvalidateFacts DEF IInv, Typed, server
        <3> QED BY <2>1, <2>2, <3>1 DEF IInv, QueueOK, Refused, server
    <2>3. CASE Go(t, "call", mem) /\ UNCHANGED <<mem, invalid, clears>>
        BY <1>0, <1>a, <2>0, <2>1, <2>3
    <2> QED BY <1>1, <2>2, <2>3 DEF RequestStart
<1>2. ASSUME NEW t \in Refreshers, RefreshSession(t)
      PROVE  IInv'
    <2>0. t \in Tasks
        BY DEF Tasks
    <2> QED BY <1>0, <1>a, <1>2, <2>0 DEF RefreshSession, At
<1>3. ASSUME NEW t \in Logins, LoginStart(t)
      PROVE  IInv'
    <2>0. t \in Tasks
        BY DEF Tasks
    <2> QED BY <1>0, <1>a, <1>3, <2>0 DEF LoginStart, At
<1>4. ASSUME NEW t \in Logouts, LogoutStart(t)
      PROVE  IInv'
    <2>0. t \in Tasks
        BY DEF Tasks
    <2> QED BY <1>0, <1>a, <1>4, <2>0 DEF LogoutStart, At
<1> QED BY <1>1, <1>2, <1>3, <1>4 DEF Start

\* The server changes its mind, a background clear() ends, or the process dies.
LEMMA OtherKeeps ==
    ASSUME IInv, Server \/ ClearDeletes \/ Crash
    PROVE  IInv'
<1>1. ASSUME NEW n \in Tokens, AccessExpires(n) \/ SessionEnds(n) \/ RefreshExpires(n)
      PROVE  IInv'
    <2>1. /\ UNCHANGED <<mem, invalid, task, db, disk, clears, issued, restarts>>
          /\ good' \subseteq 1..issued /\ live' \subseteq live /\ UNCHANGED <<origin, lost>>
          /\ expired' \subseteq 1..issued
        BY <1>1 DEF AccessExpires, SessionEnds, RefreshExpires, IInv, Typed
    <2>2. Typed'
        BY <2>1 DEF IInv, Typed
    <2> QED BY <2>1, <2>2 DEF IInv, QueueOK, Refused
<1>2. CASE ClearDeletes
    <2>1. db' \in Seq(Ops(issued)) /\ QueueOK'
        BY <1>2, BackgroundFacts DEF ClearDeletes, IInv
    <2>2. Typed'
        BY <1>2, <2>1 DEF ClearDeletes, IInv, Typed, server
    <2> QED BY <1>2, <2>1, <2>2 DEF ClearDeletes, IInv, Refused, server
<1>3. CASE Crash
    <2>1. Idle \in States(issued)
        BY DEF Idle, States, PCs, IInv, Typed, Tokens
    <2>2. task' \in [Tasks -> States(issued)]
        BY <1>3, <2>1 DEF Crash
    <2>6. db' \in Seq(Ops(issued))
        BY <1>3, EmptySeq DEF Crash
    <2>7. restarts' \in 0..MaxRestarts
        <3>1. restarts < MaxRestarts /\ restarts' = restarts + 1
            BY <1>3 DEF Crash
        <3>2. restarts \in 0..MaxRestarts /\ MaxRestarts \in Nat
            BY TasksOK DEF IInv, Typed
        <3> QED BY <3>1, <3>2
    <2>8. lost' \subseteq Token
        <3>1. lost' = lost \cup {n \in Tokens : Underway(n)}
            BY <1>3 DEF Crash
        <3>2. Tokens \subseteq Token /\ lost \subseteq Token
            BY TasksOK DEF IInv, Typed, Token, Tokens
        <3> QED BY <3>1, <3>2
    <2>3. Typed'
        BY <1>3, <2>2, <2>6, <2>7, <2>8 DEF Crash, IInv, Typed, answers
    <2>4. QueueOK'
        BY <1>3, EmptySeq DEF Crash, QueueOK
    <2>5. Refused'
        BY <1>3 DEF Crash, Refused, Idle, answers
    <2> QED BY <2>3, <2>4, <2>5 DEF IInv
<1> QED BY <1>1, <1>2, <1>3 DEF Server

----------------------------------------------------------------------------
(* The theorems.                                                           *)

\* The strengthened invariant holds in every reachable state.
THEOREM Invariance == Spec => []IInv
<1>1. Init => IInv
    <2> SUFFICES ASSUME Init PROVE IInv
        OBVIOUS
    <2>1. Idle \in States(issued)
        BY DEF Init, Idle, States, PCs
    <2>2. issued \in Tokens /\ restarts \in 0..MaxRestarts
        BY TasksOK DEF Init, Tokens
    <2>5. task \in [Tasks -> States(issued)] /\ db \in Seq(Ops(issued))
        BY <2>1, EmptySeq DEF Init
    <2>6. /\ mem \in 0..issued /\ disk \in 0..issued
          /\ good \subseteq 1..issued /\ live \subseteq 1..issued /\ expired \subseteq 1..issued
        BY DEF Init
    <2>8. origin \in [Tokens -> Origins(issued)] /\ lost \subseteq Token
        BY <2>2 DEF Init, Unknown, Origins, Tokens
    <2>7. Typed
        BY <2>2, <2>5, <2>6, <2>8 DEF Init, Typed
    <2>3. QueueOK
        BY EmptySeq DEF Init, QueueOK
    <2>4. Refused
        BY DEF Init, Refused, Idle
    <2> QED BY <2>3, <2>4, <2>7 DEF IInv
<1>2. IInv /\ [Next]_vars => IInv'
    <2> SUFFICES ASSUME IInv, [Next]_vars PROVE IInv'
        OBVIOUS
    <2>1. CASE Next
        <3>1. CASE DbStep
            BY <3>1, DbStepFacts DEF IInv
        <3> QED BY <2>1, <3>1, StartKeeps, ContinueKeeps, OtherKeeps DEF Next
    <2>2. CASE UNCHANGED vars
        BY <2>2 DEF vars, IInv, Typed, QueueOK, Refused
    <2> QED BY <2>1, <2>2
<1> QED BY <1>1, <1>2, PTL DEF Spec

\* Every variable has its type, for any tasks and bounds.
THEOREM TypeCorrect == Spec => []TypeOK
<1>1. IInv => TypeOK
    <2> SUFFICES ASSUME IInv PROVE TypeOK
        OBVIOUS
    <2>1. 0..issued \subseteq Token
        BY TasksOK DEF IInv, Typed, Tokens, Token
    <2>2. task \in [Tasks -> [pc : PCs, tok : Token, mine : Token]]
        BY <2>1 DEF IInv, Typed, States
    <2>3. Ops(issued) \subseteq
            [op : {"set", "delete"}, by : Tasks \cup {Background}, tok : Token]
        BY <2>1 DEF Ops
    <2>4. db \in Seq([op : {"set", "delete"}, by : Tasks \cup {Background}, tok : Token])
        BY <2>3, SeqMonotonic DEF IInv, Typed
    <2>5. Origins(issued)
            \subseteq [from : Token, by : Tasks \cup {Background}, held : BOOLEAN]
        BY <2>1 DEF Origins
    <2> QED BY <2>1, <2>2, <2>4, <2>5 DEF IInv, Typed, TypeOK
<1> QED BY <1>1, Invariance, PTL

\* However many requests are refused together, a refresh token is spent by
\* them only while the access token of its pair is refused.
THEOREM NoNeedlessRefresh == Spec => []RefreshOnlyWhenRefused
<1>1. IInv => RefreshOnlyWhenRefused
    BY TasksOK DEF IInv, Refused, RefreshOnlyWhenRefused, At, Tasks
<1> QED BY <1>1, Invariance, PTL

----------------------------------------------------------------------------
(* A session the server takes is dropped only by a logout, or by the       *)
(* rejection of a pair that a refresh outside the lock or a login replaced.*)

\* The session in memory comes from outside the lock.
Foreign == mem # 0 /\ origin[mem].by \in Refreshers \cup Logins

Locked == Tasks \ Refreshers

\* One task refreshes under the lock at a time, it refreshes the tokens in memory,
\* and a rejection it carries is about them, unless they come from outside; a
\* rejected token, and one past its date, are dead.
Alone ==
    /\ \A s, t \in Locked :
           task[s].pc \in Holding /\ task[t].pc \in Holding => s = t
    /\ \A t \in Locked :
           task[t].pc \in {"post", "denied"} => mem \in {0, task[t].tok} \/ Foreign
    /\ \A t \in Tasks :
           /\ task[t].pc = "denied" => task[t].tok \notin good
           /\ task[t].pc = "granted" => task[t].tok # 0 /\ origin[task[t].tok].by = t
           /\ task[t].pc = "confirm" => t \in Logins
           /\ task[t].pc \in {"clear", "drop", "dropped"} => t \in Logouts
    /\ expired \cap good = {}

\* What is known of the origin of a pair stays known.
KnownStays == \A x \in 1..issued : origin'[x] = origin[x]

\* What a step of one task must respect.
LEMMA AloneMove ==
    ASSUME IInv, Alone, NEW t \in Tasks, NEW r, task' = [task EXCEPT ![t] = r],
           t \in Locked /\ r.pc \in Holding =>
               task[t].pc \in Holding \/ \A s \in Locked : task[s].pc \notin Holding,
           t \in Locked /\ r.pc \in {"post", "denied"} => mem' \in {0, r.tok} \/ Foreign',
           r.pc = "denied" => r.tok \notin good',
           r.pc = "granted" => r.tok # 0 /\ origin'[r.tok].by = t,
           r.pc = "confirm" => t \in Logins,
           r.pc \in {"clear", "drop", "dropped"} => t \in Logouts,
           mem' \in {mem, 0} \/ (t \in Locked /\ task[t].pc \in Holding) \/ Foreign',
           good' \subseteq good \cup {issued + 1},
           KnownStays,
           expired' \cap good' = {}
    PROVE  Alone'
<1>1. \A s \in Tasks : task'[s] = IF s = t THEN r ELSE task[s]
    BY DEF IInv, Typed
<1>2. \A s \in Tasks : task[s].tok \in 0..issued /\ issued \in Nat /\ mem \in 0..issued
    BY DEF IInv, Typed, States, Tokens
<1>3. \A s, u \in Locked :
          task'[s].pc \in Holding /\ task'[u].pc \in Holding => s = u
    BY <1>1 DEF Alone, Locked
<1>4. Foreign /\ mem' = mem => Foreign'
    <2>1. mem # 0 => mem \in 1..issued
        BY <1>2, t \in Tasks
    <2> QED BY <2>1 DEF Foreign, KnownStays
<1>5. ASSUME NEW s \in Locked, task'[s].pc \in {"post", "denied"}
      PROVE  mem' \in {0, task'[s].tok} \/ Foreign'
    <2>1. CASE s = t
        BY <1>1, <1>5, <2>1 DEF Locked
    <2>2. CASE s # t
        <3>1. task'[s] = task[s] /\ s \in Tasks
            BY <1>1, <2>2 DEF Locked
        <3>2. task[s].pc \in Holding
            BY <1>5, <3>1 DEF Holding
        <3>3. mem' \in {mem, 0} \/ Foreign'
            BY <2>2, <3>2 DEF Alone
        <3>4. mem \in {0, task[s].tok} \/ Foreign
            BY <1>5, <3>1 DEF Alone
        <3> QED BY <1>4, <3>1, <3>3, <3>4
    <2> QED BY <2>1, <2>2
<1>6. ASSUME NEW s \in Tasks
      PROVE  /\ task'[s].pc = "denied" => task'[s].tok \notin good'
             /\ task'[s].pc = "granted" => task'[s].tok # 0 /\ origin'[task'[s].tok].by = s
             /\ task'[s].pc = "confirm" => s \in Logins
             /\ task'[s].pc \in {"clear", "drop", "dropped"} => s \in Logouts
    <2>1. CASE s = t
        BY <1>1, <2>1
    <2>2. CASE s # t
        <3>1. task'[s] = task[s]
            BY <1>1, <2>2
        <3>2. task[s].tok # issued + 1 /\ (task[s].tok # 0 => task[s].tok \in 1..issued)
            BY <1>2
        <3>3. task[s].pc = "denied" => task[s].tok \notin good'
            BY <3>2 DEF Alone
        <3>4. task[s].pc = "granted" => task[s].tok # 0 /\ origin'[task[s].tok].by = s
            BY <3>2 DEF Alone, KnownStays
        <3> QED BY <3>1, <3>3, <3>4 DEF Alone
    <2> QED BY <2>1, <2>2
<1> QED BY <1>3, <1>5, <1>6 DEF Alone

\* What WipeOnlyDead asks of a step.
DropIsDue ==
    mem \in good /\ mem' = 0 =>
        \/ \E t \in Logouts : Leaves(t, "dropped")
        \/ \E t \in Tasks :
              /\ Leaves(t, "denied") /\ task[t].tok # mem
              /\ t \in Refreshers \/ origin[mem].by \in Refreshers \cup Logins

\* Every continuation of a task keeps Alone and drops only what is due.
LEMMA AloneContinue ==
    ASSUME IInv, Alone, NEW t \in Tasks, Continue(t)
    PROVE  Alone' /\ DropIsDue
<1> DEFINE To(pc, tok) == [task[t] EXCEPT !.pc = pc, !.tok = tok]
<1>0. /\ task \in [Tasks -> States(issued)] /\ task[t] \in States(issued)
      /\ expired \cap good = {} /\ issued \in Nat /\ 0 \notin good
      /\ origin \in [Tokens -> Origins(issued)]
    BY DEF IInv, Typed, Alone, Tokens
<1>a. ASSUME NEW pc, NEW tok, Go(t, pc, tok)
      PROVE  /\ To(pc, tok).pc = pc /\ To(pc, tok).tok = tok
             /\ task' = [task EXCEPT ![t] = To(pc, tok)]
    BY <1>0, <1>a DEF Go, States
<1>b. ASSUME End(t), mem' \in {mem, 0}, UNCHANGED answers
      PROVE  Alone' /\ ~At(t, "denied")' /\ ~At(t, "dropped")'
    <2>1. Idle.pc = "idle"
        BY DEF Idle
    <2>2. /\ task' = [task EXCEPT ![t] = Idle] /\ good' = good /\ expired' = expired
          /\ KnownStays /\ task'[t] = Idle
        BY <1>0, <1>b DEF End, answers, KnownStays
    <2>3. Alone'
        BY <1>0, <1>b, <2>1, <2>2, AloneMove DEF Holding
    <2> QED BY <2>1, <2>2, <2>3 DEF At
<1>c. Invalidate => mem' \in {mem, 0}
    BY DEF Invalidate
<1>d. UNCHANGED server => UNCHANGED answers /\ good' = good /\ expired' = expired /\ KnownStays
    BY DEF server, answers, KnownStays
<1>f. ASSUME NEW pc \in {"wait", "retry", "keep"}, NEW tok, Go(t, pc, tok), UNCHANGED server,
             mem' = mem
      PROVE  Alone'
    BY <1>0, <1>a, <1>d, <1>f, AloneMove DEF Holding
<1>g. mem' = mem => DropIsDue
    BY <1>0 DEF DropIsDue
<1> HIDE DEF To
<1>1. CASE Answered(t)
    <2>1. task[t].pc \in {"call", "retry"} /\ mem' = mem /\ UNCHANGED server
        BY <1>1 DEF Answered
    <2>2. CASE End(t)
        BY <1>b, <1>d, <1>g, <2>1, <2>2
    <2>3. CASE Go(t, "keep", task[t].mine)
        BY <1>f, <1>g, <2>1, <2>3
    <2> QED BY <1>1, <2>2, <2>3 DEF Answered
<1>2. CASE Unauthorized(t)
    <2>1. UNCHANGED server
        BY <1>2 DEF Unauthorized
    <2>2. CASE End(t) /\ mem' = mem
        BY <1>b, <1>d, <1>g, <2>1, <2>2
    <2>3. CASE End(t) /\ Invalidate /\ mem \in expired
        BY <1>0, <1>b, <1>c, <1>d, <2>1, <2>3 DEF DropIsDue
    <2>4. CASE Go(t, "wait", task[t].tok) /\ mem' = mem
        BY <1>f, <1>g, <2>1, <2>4
    <2> QED BY <1>2, <2>2, <2>3, <2>4 DEF Unauthorized, IfRefreshAvailable
<1>3. CASE Enter(t)
    <2>1. task[t].pc = "wait" /\ UNCHANGED server
        BY <1>3 DEF Enter, At
    <2>2. \A s \in Locked : task[s].pc \notin Holding
        BY <1>3 DEF Enter, LockFree, Locked
    <2>3. CASE End(t) /\ mem' = mem
        BY <1>b, <1>d, <1>g, <2>1, <2>3
    <2>4. CASE End(t) /\ Invalidate /\ mem \in expired
        BY <1>0, <1>b, <1>c, <1>d, <2>1, <2>4 DEF DropIsDue
    <2>5. CASE Go(t, "retry", mem) /\ mem' = mem
        BY <1>f, <1>g, <2>1, <2>5
    <2>6. CASE Go(t, "post", mem) /\ mem' = mem
        <3>1. Alone'
            BY <1>0, <1>a, <1>d, <2>1, <2>2, <2>6, AloneMove
        <3> QED BY <1>g, <2>6, <3>1
    <2> QED BY <1>3, <2>3, <2>4, <2>5, <2>6 DEF Enter, IfRefreshAvailable
<1>4. CASE Exchange(t)
    <2>1. task[t].pc = "post" /\ mem' = mem /\ task[t].pc \in Holding
        BY <1>4 DEF Exchange, At, Holding
    <2>2. ASSUME NEW n \in Tokens, Issue(n, task[t].tok, t, FALSE), Go(t, "granted", n)
          PROVE  Alone'
        <3>1. good' \subseteq good \cup {issued + 1} /\ expired' = expired /\ n = issued + 1
            BY <2>2 DEF Issue
        <3>2. issued + 1 \notin expired /\ n # 0
            BY <1>0 DEF IInv, Typed, Tokens
        <3>3. KnownStays
            <4>1. issued \in Nat /\ MaxTokens \in Nat /\ n \in 1..MaxTokens /\ n = issued + 1
                BY <1>0, <3>1, TasksOK DEF Tokens
            <4>2. \A x \in 1..issued : x # n /\ x \in 1..MaxTokens
                BY <4>1
            <4> QED BY <1>0, <2>2, <4>2 DEF Issue, KnownStays, Tokens
        <3>4. origin'[n].by = t
            BY <1>0, <2>2 DEF Issue
        <3> QED BY <1>0, <1>a, <2>1, <2>2, <3>1, <3>2, <3>3, <3>4, AloneMove
    <2>3. CASE Go(t, "denied", task[t].tok) /\ UNCHANGED server /\ task[t].tok \notin good
        <3>1. t \in Locked => mem \in {0, task[t].tok} \/ Foreign
            BY <2>1 DEF Alone
        <3>2. Foreign => Foreign'
            BY <2>1, <2>3 DEF Foreign, server
        <3>3. Alone'
            BY <1>0, <1>a, <1>d, <2>1, <2>3, <3>1, <3>2, AloneMove
        <3> QED BY <1>g, <2>1, <3>3
    <2> QED BY <1>4, <1>g, <2>1, <2>2, <2>3 DEF Exchange
<1>5. CASE RefreshFails(t)
    <2>1. End(t) /\ mem' = mem /\ UNCHANGED answers
        BY <1>5 DEF RefreshFails
    <2> QED BY <1>b, <1>g, <2>1
<1>6. CASE Granted(t)
    <2>1. /\ task[t].pc = "granted" /\ Go(t, "save", task[t].tok) /\ UNCHANGED server
          /\ mem' = task[t].tok
        BY <1>6 DEF Granted, At, SetTokens
    <2>2. task[t].tok # 0 /\ origin[task[t].tok].by = t
        BY <2>1 DEF Alone
    <2>3. t \in Refreshers => Foreign'
        BY <2>1, <2>2 DEF Foreign, server
    <2>4. Alone'
        BY <1>0, <1>a, <1>d, <2>1, <2>3, AloneMove DEF Holding, Locked
    <2> QED BY <2>1, <2>2, <2>4 DEF DropIsDue
<1>7. CASE Denied(t)
    <2>1. At(t, "denied") /\ End(t) /\ Invalidate /\ UNCHANGED server
        BY <1>7 DEF Denied
    <2>2. Alone' /\ Leaves(t, "denied")
        BY <1>b, <1>c, <1>d, <2>1 DEF Leaves
    <2>3. task[t].tok \notin good
        BY <2>1 DEF Alone, At
    <2>4. t \in Refreshers \/ mem \in {0, task[t].tok} \/ Foreign
        BY <2>1 DEF Alone, At, Locked
    <2> QED BY <1>0, <2>2, <2>3, <2>4 DEF DropIsDue, Foreign
<1>8. CASE Saved(t)
    <2>1. mem' = mem /\ UNCHANGED server
        BY <1>8 DEF Saved
    <2>2. CASE End(t)
        BY <1>b, <1>d, <1>g, <2>1, <2>2
    <2>3. CASE Go(t, "retry", mem)
        BY <1>f, <1>g, <2>1, <2>3
    <2> QED BY <1>8, <2>2, <2>3 DEF Saved
<1>9. CASE Confirmed(t)
    <2>1. PICK n \in Tokens :
            /\ Issue(n, 0, t, restarts \in Register)
            /\ SetTokens(n)
            /\ IF restarts \in Register
               THEN /\ task' = [task EXCEPT ![t] = [pc |-> "call", tok |-> n, mine |-> n]]
                    /\ UNCHANGED db
               ELSE Go(t, "keep", n) /\ Execute(SetOp(t, n))
        BY <1>9 DEF Confirmed
    <2>2. t \in Logins
        BY <1>9 DEF Confirmed, At, Alone
    <2>3. /\ good' \subseteq good \cup {issued + 1} /\ expired' = expired /\ n = issued + 1
          /\ mem' = n /\ n # 0
        BY <1>0, <2>1 DEF Issue, SetTokens
    <2>4. issued + 1 \notin expired
        BY <1>0 DEF IInv, Typed
    <2>5. KnownStays /\ origin'[n].by = t
        <3>1. issued \in Nat /\ MaxTokens \in Nat /\ n \in 1..MaxTokens /\ n = issued + 1
            BY <1>0, <2>3, TasksOK DEF Tokens
        <3>2. \A x \in 1..issued : x # n /\ x \in 1..MaxTokens
            BY <3>1
        <3> QED BY <1>0, <2>1, <3>2 DEF Issue, KnownStays, Tokens
    <2>6. Foreign'
        BY <2>2, <2>3, <2>5 DEF Foreign
    <2>7. PICK r : task' = [task EXCEPT ![t] = r] /\ r.pc \in {"call", "keep"}
        <3>1. [pc |-> "call", tok |-> n, mine |-> n].pc = "call"
            OBVIOUS
        <3> QED BY <1>a, <2>1, <3>1
    <2>8. Alone'
        BY <1>0, <2>3, <2>4, <2>5, <2>6, <2>7, AloneMove DEF Holding
    <2> QED BY <2>3, <2>8 DEF DropIsDue
<1>10. CASE NotConfirmed(t) \/ Kept(t)
    <2>1. End(t) /\ mem' = mem /\ UNCHANGED server
        BY <1>10 DEF NotConfirmed, Kept
    <2> QED BY <1>b, <1>d, <1>g, <2>1
<1>12. CASE LogoutDeletes(t)
    <2>1. task[t].pc = "clear" /\ Go(t, "drop", 0) /\ mem' = mem /\ UNCHANGED server
        BY <1>12 DEF LogoutDeletes, At
    <2>2. t \in Logouts
        BY <2>1 DEF Alone
    <2>3. Alone'
        BY <1>0, <1>a, <1>d, <2>1, <2>2, AloneMove DEF Holding
    <2> QED BY <1>g, <2>1, <2>3
<1>13. CASE LoggedOut(t)
    <2>1. At(t, "dropped") /\ End(t) /\ Invalidate /\ UNCHANGED server
        BY <1>13 DEF LoggedOut
    <2>2. t \in Logouts
        BY <2>1 DEF Alone, At
    <2>3. Alone' /\ Leaves(t, "dropped")
        BY <1>b, <1>c, <1>d, <2>1 DEF Leaves
    <2> QED BY <2>2, <2>3 DEF DropIsDue
<1> QED BY <1>1, <1>2, <1>3, <1>4, <1>5, <1>6, <1>7, <1>8, <1>9,
           <1>10, <1>12, <1>13 DEF Continue

\* The other steps: a start, the server, the storage, a crash.
LEMMA AloneOthers ==
    ASSUME IInv, Alone, Start \/ Server \/ ClearDeletes \/ DbStep \/ Crash
    PROVE  Alone' /\ (restarts' = restarts => DropIsDue)
<1>0. /\ task \in [Tasks -> States(issued)] /\ expired \cap good = {} /\ 0 \notin good
    BY DEF IInv, Typed, Alone
<1>g. mem' = mem => DropIsDue
    BY <1>0 DEF DropIsDue
<1>d. UNCHANGED server => good' = good /\ expired' = expired /\ KnownStays
    BY DEF server, KnownStays
<1>a. ASSUME NEW t \in Tasks, NEW pc \in {"call", "clear", "confirm", "post"}, NEW tok,
             Go(t, pc, tok), pc = "clear" => t \in Logouts, pc = "confirm" => t \in Logins,
             pc = "post" => t \in Refreshers, mem' = mem, UNCHANGED server
      PROVE  Alone' /\ DropIsDue
    <2> DEFINE r == [task[t] EXCEPT !.pc = pc, !.tok = tok]
    <2>1. r.pc = pc /\ task' = [task EXCEPT ![t] = r]
        BY <1>0, <1>a DEF Go, States
    <2> HIDE DEF r
    <2>2. Alone'
        BY <1>0, <1>a, <1>d, <2>1, AloneMove DEF Holding, Locked
    <2> QED BY <1>a, <1>g, <2>2
<1>1. ASSUME NEW t \in Requests, RequestStart(t)
      PROVE  Alone' /\ DropIsDue
    <2>0. t \in Tasks /\ UNCHANGED server
        BY <1>1 DEF Tasks, RequestStart
    <2>1. CASE Invalidate /\ UNCHANGED task /\ mem \in expired
        <3>1. mem' \in {mem, 0}
            BY <2>1 DEF Invalidate
        <3>2. Alone'
            BY <2>0, <2>1, <3>1 DEF Alone, server, Foreign
        <3> QED BY <1>0, <2>1, <3>2 DEF DropIsDue
    <2>2. CASE Go(t, "call", mem) /\ mem' = mem
        BY <1>a, <2>0, <2>2
    <2> QED BY <1>1, <2>1, <2>2 DEF RequestStart
<1>2. ASSUME NEW t \in Logouts, LogoutStart(t)
      PROVE  Alone' /\ DropIsDue
    BY <1>a, <1>2 DEF LogoutStart, Tasks
<1>8. ASSUME NEW t \in Logins, LoginStart(t)
      PROVE  Alone' /\ DropIsDue
    BY <1>a, <1>8 DEF LoginStart, Tasks
<1>9. ASSUME NEW t \in Refreshers, RefreshSession(t)
      PROVE  Alone' /\ DropIsDue
    BY <1>a, <1>9 DEF RefreshSession, Tasks
<1>3. CASE Start
    BY <1>1, <1>2, <1>3, <1>8, <1>9 DEF Start
<1>4. ASSUME NEW n \in Tokens, AccessExpires(n) \/ SessionEnds(n) \/ RefreshExpires(n)
      PROVE  Alone' /\ DropIsDue
    <2>1. /\ UNCHANGED <<mem, task, origin>> /\ good' \subseteq good /\ expired' \cap good' = {}
        BY <1>0, <1>4 DEF AccessExpires, SessionEnds, RefreshExpires
    <2> QED BY <1>g, <2>1 DEF Alone, Foreign
<1>5. CASE ClearDeletes
    <2>1. UNCHANGED <<mem, task, server>>
        BY <1>5 DEF ClearDeletes
    <2> QED BY <1>g, <2>1 DEF Alone, Foreign, server
<1>6. CASE DbStep
    <2>0. UNCHANGED <<mem, server>>
        BY <1>6 DEF DbStep
    <2>1. CASE UNCHANGED task
        BY <1>g, <2>0, <2>1 DEF Alone, Foreign, server
    <2>2. CASE Head(db).by # Background
        <3> DEFINE t == Head(db).by
                   r == [task[t] EXCEPT !.pc = Done[@]]
        <3>1. t \in Tasks /\ task[t].pc \in {"save", "keep", "drop"}
            <4>1. Head(db) = db[1] /\ 1 \in 1..Len(db)
                BY <1>6, HeadTailProperties DEF DbStep, IInv, Typed
            <4> QED BY <2>2, <4>1, EntryFacts DEF IInv, QueueOK
        <3>2. task' = [task EXCEPT ![t] = r]
            BY <1>6, <2>2 DEF DbStep
        <3>3. /\ r.pc \in {"saved", "kept", "dropped"}
              /\ r.pc = "saved" => task[t].pc = "save"
              /\ r.pc = "dropped" => task[t].pc = "drop"
            BY <1>0, <3>1 DEF Done, States
        <3> HIDE DEF r, t
        <3>4. r.pc = "dropped" => t \in Logouts
            BY <3>1, <3>3 DEF Alone
        <3>5. Alone'
            BY <1>0, <1>d, <2>0, <3>1, <3>2, <3>3, <3>4, AloneMove DEF Holding
        <3> QED BY <1>g, <2>0, <3>5
    <2> QED BY <1>6, <2>1, <2>2 DEF DbStep
<1>7. CASE Crash
    <2>1. /\ task' = [t \in Tasks |-> Idle] /\ UNCHANGED answers
          /\ restarts' = restarts + 1
        BY <1>7 DEF Crash
    <2>2. Alone'
        BY <1>0, <2>1 DEF Alone, Idle, Holding, answers, Locked
    <2>3. restarts' # restarts
        BY <2>1 DEF IInv, Typed
    <2> QED BY <2>2, <2>3
<1> QED BY <1>3, <1>4, <1>5, <1>6, <1>7 DEF Server

\* For any tasks, refresh_session and logins among them, any tokens and crashes: a
\* session the server takes is dropped from memory only by a logout, or by the
\* rejection of another pair, of which a refresh outside the lock or a login is
\* the cause.
THEOREM OnlyDeadSessionsDropped == Spec => WipeOnlyDead
<1>1. Init => Alone
    BY DEF Init, Alone, Idle, Holding, Locked
<1>2. IInv /\ Alone /\ [Next]_vars => Alone'
    <2> SUFFICES ASSUME IInv, Alone, [Next]_vars PROVE Alone'
        OBVIOUS
    <2>1. CASE Next
        BY <2>1, AloneContinue, AloneOthers DEF Next
    <2>2. CASE UNCHANGED vars
        BY <2>2 DEF vars, Alone, Foreign
    <2> QED BY <2>1, <2>2
<1>3. IInv /\ Alone /\ [Next]_vars =>
        [(mem \in good /\ mem' = 0 /\ restarts' = restarts)
            => \/ \E t \in Logouts : Leaves(t, "dropped")
               \/ \E t \in Tasks :
                     /\ Leaves(t, "denied") /\ task[t].tok # mem
                     /\ t \in Refreshers
                        \/ origin[mem].by \in Refreshers \cup Logins]_vars
    <2> SUFFICES ASSUME IInv, Alone, Next, restarts' = restarts PROVE DropIsDue
        BY DEF DropIsDue
    <2> QED BY AloneContinue, AloneOthers DEF Next
<1> QED BY <1>1, <1>2, <1>3, Invariance, PTL DEF Spec, WipeOnlyDead

----------------------------------------------------------------------------
(* The disk never ends with another session than the one in memory, but    *)
(* for pairs that are saved late.                                          *)

AtEnds == {"idle", "confirm", "keep", "kept"}

\* A login that sends an authorized request before it has saved its pair registers
\* its device with it.
MineHeld == \A t \in Logins : task[t].pc \notin AtEnds => task[t].mine \in Held

NeverStaleInv == MineHeld /\ NeverStale

\* A statement added last is what the disk ends with, unless a clear follows.
LEMMA LastDecides ==
    ASSUME Typed, NEW op, Execute(op), db' \in Seq(Ops(issued'))
    PROVE  Durable' \in {0, op.tok}
<1>1. db' = Append(db, op) /\ Len(db) \in Nat
    BY LenProperties DEF Execute, Typed
<1>2. Len(db') = Len(db) + 1 /\ db'[Len(db) + 1] = op
    BY <1>1, AppendProperties DEF Typed, Ops
<1>3. db' # <<>>
    BY <1>1, <1>2
<1> QED BY <1>2, <1>3 DEF Durable

\* A task that moves neither from nor to a pending clear leaves the end alone.
LEMMA EndStays ==
    ASSUME Typed, NEW t \in Tasks, NEW r, task' = [task EXCEPT ![t] = r],
           t \in Logouts => task[t].pc # "clear" /\ r.pc # "clear",
           UNCHANGED <<clears, db, disk>>
    PROVE  Durable' = Durable
<1>1. \A s \in Tasks : task'[s] = IF s = t THEN r ELSE task[s]
    BY DEF Typed
<1>2. \A s \in Logouts : At(s, "clear")' <=> At(s, "clear")
    BY <1>1 DEF At, Tasks
<1>3. ClearPending' <=> ClearPending
    BY <1>2 DEF ClearPending
<1> QED BY <1>3 DEF Durable

\* What a moving login carries is held, as long as the held pairs stay held.
LEMMA MineStays ==
    ASSUME IInv, MineHeld, NEW t \in Tasks, NEW r, task' = [task EXCEPT ![t] = r],
           t \in Logins => \/ r.pc \in AtEnds \/ r.mine \in Held'
                           \/ task[t].pc \notin AtEnds /\ r.mine = task[t].mine,
           Held \subseteq Held'
    PROVE  MineHeld'
<1>1. \A s \in Tasks : task'[s] = IF s = t THEN r ELSE task[s]
    BY DEF IInv, Typed
<1> SUFFICES ASSUME NEW s \in Logins, task'[s].pc \notin AtEnds
             PROVE  task'[s].mine \in Held'
    BY DEF MineHeld
<1>2. s \in Tasks
    BY DEF Tasks
<1>3. CASE s = t
    BY <1>1, <1>2, <1>3 DEF MineHeld
<1>4. CASE s # t
    BY <1>1, <1>2, <1>4 DEF MineHeld
<1> QED BY <1>3, <1>4

\* Without a new pair, the same pairs are held.
LEMMA HeldStays == ASSUME UNCHANGED <<issued, origin>> PROVE Held' = Held
BY DEF Held

\* A task that ends, or moves on, where memory and queue stay.
LEMMA MoveStays ==
    ASSUME IInv, NeverStaleInv, NEW t \in Tasks, NEW r, task' = [task EXCEPT ![t] = r],
           t \in Logins => \/ r.pc \in AtEnds
                           \/ task[t].pc \notin AtEnds /\ r.mine = task[t].mine,
           t \in Logouts => task[t].pc # "clear" /\ r.pc # "clear",
           Held \subseteq Held', UNCHANGED <<mem, clears, db, disk>>
    PROVE  NeverStaleInv'
<1>1. Durable' = Durable
    BY EndStays DEF IInv
<1>2. MineHeld'
    BY MineStays DEF NeverStaleInv
<1> QED BY <1>1, <1>2 DEF NeverStaleInv, NeverStale

\* A session that is dropped is followed by a clear; one that is gone already
\* changes nothing.
LEMMA DropStays ==
    ASSUME IInv, NeverStaleInv, NEW t \in Tasks, End(t), Invalidate,
           t \in Logouts => task[t].pc # "clear",
           UNCHANGED <<db, disk, issued, origin>>
    PROVE  NeverStaleInv'
<1>1. task' = [task EXCEPT ![t] = Idle] /\ Idle.pc = "idle" /\ Idle.pc \in AtEnds
    BY DEF End, Idle, AtEnds
<1>2. Held \subseteq Held'
    BY HeldStays
<1>3. CASE UNCHANGED <<mem, invalid, clears>>
    BY <1>1, <1>2, <1>3, MoveStays
<1>4. CASE mem' = 0 /\ clears' = clears + 1
    <2>1. clears' > 0
        BY <1>4 DEF IInv, Typed
    <2>2. Durable' = 0
        BY <2>1 DEF Durable, ClearPending
    <2>3. MineHeld'
        BY <1>1, <1>2, MineStays DEF NeverStaleInv
    <2> QED BY <2>2, <2>3 DEF NeverStaleInv, NeverStale
<1> QED BY <1>3, <1>4 DEF Invalidate

\* A statement of a task is queued: it deletes, or saves what is in memory or held.
LEMMA QueuedStays ==
    ASSUME IInv, IInv', NeverStaleInv, NEW t \in Tasks, NEW r, task' = [task EXCEPT ![t] = r],
           t \in Logins => \/ r.pc \in AtEnds
                           \/ task[t].pc \notin AtEnds /\ r.mine = task[t].mine,
           NEW op, Execute(op), op.tok \in {0, mem'} \cup Held',
           Held \subseteq Held'
    PROVE  NeverStaleInv'
<1>1. Durable' \in {0, op.tok}
    BY LastDecides DEF IInv, Typed
<1>2. MineHeld'
    BY MineStays DEF NeverStaleInv
<1> QED BY <1>1, <1>2 DEF NeverStaleInv, NeverStale

\* A new pair leaves the held ones held, and is held itself if the login registers.
LEMMA HeldGrows ==
    ASSUME IInv, NEW n \in Tokens, NEW old, NEW t, NEW held, Issue(n, old, t, held)
    PROVE  Held \subseteq Held' /\ (held => n \in Held') /\ n = issued + 1 /\ issued' = n
<1>1. issued \in Nat /\ MaxTokens \in Nat /\ n = issued + 1 /\ issued' = n
    BY TasksOK DEF IInv, Typed, Tokens, Issue
<1>2. origin' = [origin EXCEPT ![n] = [from |-> old, by |-> t, held |-> held]]
      /\ origin \in [Tokens -> Origins(issued)]
    BY DEF Issue, IInv, Typed
<1>3. n \in 1..n /\ n \notin 1..issued /\ 1..issued \subseteq 1..n /\ 1..n \subseteq Tokens
    BY <1>1 DEF Tokens
<1>4. origin'[n].held = held
    BY <1>2
<1>5. \A x \in 1..issued : origin'[x] = origin[x]
    BY <1>2, <1>3
<1> QED BY <1>1, <1>3, <1>4, <1>5 DEF Held

\* Every continuation of a task keeps it.
LEMMA NeverStaleContinue ==
    ASSUME IInv, IInv', NeverStaleInv, NEW t \in Tasks, Continue(t)
    PROVE  NeverStaleInv'
<1> DEFINE To(pc, tok) == [task[t] EXCEPT !.pc = pc, !.tok = tok]
<1>0. /\ task \in [Tasks -> States(issued)] /\ task[t] \in States(issued)
      /\ t \in Logins /\ task[t].pc \notin AtEnds => task[t].mine \in Held
    BY DEF IInv, Typed, NeverStaleInv, MineHeld
<1>a. ASSUME NEW pc, NEW tok, Go(t, pc, tok)
      PROVE  /\ To(pc, tok).pc = pc /\ To(pc, tok).mine = task[t].mine
             /\ task' = [task EXCEPT ![t] = To(pc, tok)]
    BY <1>0, <1>a DEF Go, States
<1> HIDE DEF To
<1>b. ASSUME End(t), task[t].pc # "clear", UNCHANGED <<mem, clears, db, disk, issued, origin>>
      PROVE  NeverStaleInv'
    BY <1>b, HeldStays, MoveStays DEF End, Idle, AtEnds
<1>c. ASSUME NEW pc, NEW tok, Go(t, pc, tok), task[t].pc # "clear", pc # "clear",
             task[t].pc \notin AtEnds, Held \subseteq Held', UNCHANGED <<mem, clears, db, disk>>
      PROVE  NeverStaleInv'
    BY <1>0, <1>a, <1>c, MoveStays
<1>d. UNCHANGED server => UNCHANGED <<issued, origin>> /\ Held \subseteq Held'
    BY HeldStays DEF server
<1>1. CASE Answered(t)
    <2>1. task[t].pc \in {"call", "retry"} /\ UNCHANGED <<mem, clears, disk, server>>
        BY <1>1 DEF Answered
    <2>2. CASE End(t) /\ UNCHANGED db
        BY <1>b, <1>d, <2>1, <2>2
    <2>3. CASE t \in Logins /\ Go(t, "keep", task[t].mine) /\ Execute(SetOp(t, task[t].mine))
        <3> DEFINE op == SetOp(t, task[t].mine)
        <3>1. op.tok \in Held' /\ Execute(op)
            BY <1>0, <1>d, <2>1, <2>3 DEF SetOp, AtEnds
        <3>2. "keep" \in AtEnds
            BY DEF AtEnds
        <3> HIDE DEF op
        <3> QED BY <1>a, <1>d, <2>1, <2>3, <3>1, <3>2, QueuedStays
    <2> QED BY <1>1, <2>2, <2>3 DEF Answered
<1>2. CASE Unauthorized(t)
    <2>1. task[t].pc = "call" /\ UNCHANGED <<db, disk, server>>
        BY <1>2 DEF Unauthorized, At
    <2>2. CASE End(t) /\ UNCHANGED <<mem, clears>>
        BY <1>b, <1>d, <2>1, <2>2
    <2>3. CASE End(t) /\ Invalidate
        BY <1>d, <2>1, <2>3, DropStays
    <2>4. CASE Go(t, "wait", task[t].tok) /\ UNCHANGED <<mem, clears>>
        BY <1>c, <1>d, <2>1, <2>4 DEF AtEnds
    <2> QED BY <1>2, <2>2, <2>3, <2>4 DEF Unauthorized, IfRefreshAvailable
<1>3. CASE Enter(t)
    <2>1. task[t].pc = "wait" /\ UNCHANGED <<db, disk, server>>
        BY <1>3 DEF Enter, At
    <2>2. CASE End(t) /\ UNCHANGED <<mem, clears>>
        BY <1>b, <1>d, <2>1, <2>2
    <2>3. CASE End(t) /\ Invalidate
        BY <1>d, <2>1, <2>3, DropStays
    <2>4. ASSUME NEW pc \in {"retry", "post"}, Go(t, pc, mem), UNCHANGED <<mem, clears>>
          PROVE  NeverStaleInv'
        BY <1>c, <1>d, <2>1, <2>4 DEF AtEnds
    <2> QED BY <1>3, <2>2, <2>3, <2>4 DEF Enter, IfRefreshAvailable
<1>4. CASE Exchange(t)
    <2>1. task[t].pc = "post" /\ UNCHANGED <<mem, clears, db, disk>>
        BY <1>4 DEF Exchange, At
    <2>2. ASSUME NEW n \in Tokens, Issue(n, task[t].tok, t, FALSE), Go(t, "granted", n)
          PROVE  NeverStaleInv'
        <3>1. Held \subseteq Held'
            BY <2>2, HeldGrows
        <3> QED BY <1>c, <2>1, <2>2, <3>1 DEF AtEnds
    <2>3. CASE Go(t, "denied", task[t].tok) /\ UNCHANGED server
        BY <1>c, <1>d, <2>1, <2>3 DEF AtEnds
    <2> QED BY <1>4, <2>2, <2>3 DEF Exchange
<1>5. CASE RefreshFails(t)
    <2>1. End(t) /\ task[t].pc # "clear" /\ UNCHANGED <<mem, clears, db, disk, issued, origin>>
        BY <1>5 DEF RefreshFails, answers
    <2> QED BY <1>b, <2>1
<1>6. CASE Granted(t)
    <2> DEFINE op == SetOp(t, task[t].tok)
    <2>1. /\ task[t].pc = "granted" /\ Go(t, "save", task[t].tok) /\ Execute(op)
          /\ mem' = task[t].tok /\ UNCHANGED server
        BY <1>6 DEF Granted, At, SetTokens
    <2>2. op.tok = mem' /\ task[t].pc \notin AtEnds
        BY <2>1 DEF SetOp, AtEnds
    <2> HIDE DEF op
    <2> QED BY <1>a, <1>d, <2>1, <2>2, QueuedStays
<1>7. CASE Denied(t) \/ LoggedOut(t)
    <2>1. UNCHANGED <<db, disk, issued, origin>>
        BY <1>7, <1>d DEF Denied, LoggedOut
    <2> QED BY <1>7, <2>1, DropStays DEF Denied, LoggedOut, At
<1>8. CASE Saved(t)
    <2>1. task[t].pc = "saved" /\ UNCHANGED <<mem, clears, db, disk, server>>
        BY <1>8 DEF Saved, At
    <2>2. CASE End(t)
        BY <1>b, <1>d, <2>1, <2>2
    <2>3. CASE Go(t, "retry", mem)
        BY <1>c, <1>d, <2>1, <2>3 DEF AtEnds
    <2> QED BY <1>8, <2>2, <2>3 DEF Saved
<1>9. CASE Confirmed(t)
    <2>1. PICK n \in Tokens :
            /\ Issue(n, 0, t, restarts \in Register)
            /\ SetTokens(n)
            /\ IF restarts \in Register
               THEN /\ task' = [task EXCEPT ![t] = [pc |-> "call", tok |-> n, mine |-> n]]
                    /\ UNCHANGED db
               ELSE Go(t, "keep", n) /\ Execute(SetOp(t, n))
        BY <1>9 DEF Confirmed
    <2>2. Held \subseteq Held' /\ (restarts \in Register => n \in Held') /\ mem' = n
        <3> DEFINE held == restarts \in Register
        <3>1. Issue(n, 0, t, held)
            BY <2>1
        <3>2. Held \subseteq Held' /\ (held => n \in Held')
            <4> HIDE DEF held
            <4> QED BY <3>1, HeldGrows
        <3> QED BY <2>1, <3>2 DEF SetTokens
    <2>3. CASE restarts \in Register
        <3> DEFINE r == [pc |-> "call", tok |-> n, mine |-> n]
        <3>1. r.mine = n /\ task' = [task EXCEPT ![t] = r]
            BY <2>1, <2>3
        <3> HIDE DEF r
        <3>2. MineHeld'
            BY <2>2, <2>3, <3>1, MineStays DEF NeverStaleInv
        <3> QED BY <2>2, <2>3, <3>2 DEF NeverStaleInv, NeverStale
    <2>4. CASE restarts \notin Register
        <3> DEFINE op == SetOp(t, n)
        <3>1. op.tok = mem' /\ Execute(op) /\ Go(t, "keep", n) /\ "keep" \in AtEnds
            BY <2>1, <2>2, <2>4 DEF SetOp, AtEnds
        <3> HIDE DEF op
        <3> QED BY <1>a, <2>2, <3>1, QueuedStays
    <2> QED BY <2>3, <2>4
<1>10. CASE NotConfirmed(t) \/ Kept(t)
    BY <1>10, <1>b, <1>d DEF NotConfirmed, Kept, At
<1>11. CASE LogoutDeletes(t)
    <2> DEFINE op == DelOp(t)
    <2>1. /\ task[t].pc = "clear" /\ Go(t, "drop", 0) /\ Execute(op) /\ UNCHANGED server
          /\ task[t].pc \notin AtEnds
        BY <1>11 DEF LogoutDeletes, At, AtEnds
    <2>2. op.tok = 0
        BY DEF DelOp
    <2> HIDE DEF op
    <2> QED BY <1>a, <1>d, <2>1, <2>2, QueuedStays
<1> QED BY <1>1, <1>2, <1>3, <1>4, <1>5, <1>6, <1>7, <1>8, <1>9, <1>10, <1>11
        DEF Continue

\* Executing the oldest statement changes nothing of where the disk ends.
LEMMA DbStepStays ==
    ASSUME IInv, NeverStaleInv, DbStep
    PROVE  NeverStaleInv'
<1> DEFINE h == Head(db)
           r == [task[h.by] EXCEPT !.pc = Done[@]]
<1>1. /\ h = db[1] /\ 1 \in 1..Len(db) /\ Len(db) \in Nat
      /\ db' = Tail(db) /\ Len(db') = Len(db) - 1
      /\ \A i \in 1..Len(db') : db'[i] = db[i+1]
    BY HeadTailProperties DEF DbStep, IInv, Typed
<1>2. /\ db # <<>> /\ disk' = h.tok
      /\ UNCHANGED <<mem, clears, issued, origin>>
    BY DEF DbStep, server
<1>3. db' # <<>> => db'[Len(db')] = db[Len(db)]
    <2>1. db' # <<>> => Len(db') \in 1..Len(db') /\ Len(db') + 1 = Len(db)
        BY <1>1
    <2> QED BY <1>1, <2>1
<1>4. db' = <<>> => Len(db) = 1
    <2>1. db' = <<>> => Len(db') = 0
        OBVIOUS
    <2> QED BY <1>1, <2>1
<1>7. Held' = Held
    BY <1>2, HeldStays
<1>5. MineHeld' /\ (ClearPending' <=> ClearPending)
    <2>1. CASE h.by = Background
        BY <1>2, <1>7, <2>1 DEF DbStep, MineHeld, ClearPending, At, NeverStaleInv
    <2>2. CASE h.by # Background
        <3>1. h.by \in Tasks /\ task[h.by].pc \in {"save", "keep", "drop"}
            BY <1>1, <2>2, EntryFacts DEF IInv, QueueOK
        <3>2. task' = [task EXCEPT ![h.by] = r] /\ task \in [Tasks -> States(issued)]
            BY <2>2 DEF DbStep, IInv, Typed
        <3>3. /\ r.pc \in {"saved", "kept", "dropped"} /\ r.mine = task[h.by].mine
              /\ task[h.by].pc = "keep" => r.pc = "kept"
            BY <3>1, <3>2 DEF Done, States
        <3> HIDE DEF h, r
        <3>4. \A s \in Tasks : task'[s] = IF s = h.by THEN r ELSE task[s]
            BY <3>2
        <3>5. \A s \in Logouts : At(s, "clear")' <=> At(s, "clear")
            BY <3>1, <3>3, <3>4 DEF At, Tasks
        <3>6. r.pc \in AtEnds \/ (task[h.by].pc \notin AtEnds /\ r.mine = task[h.by].mine)
            BY <3>1, <3>3 DEF AtEnds
        <3>7. MineHeld'
            BY <1>7, <3>1, <3>2, <3>6, MineStays DEF NeverStaleInv
        <3> QED BY <1>2, <3>5, <3>7 DEF ClearPending
    <2> QED BY <2>1, <2>2
<1>6. Durable' = Durable
    <2>1. CASE db' = <<>>
        BY <1>1, <1>2, <1>5, <1>4, <2>1 DEF Durable
    <2>2. CASE db' # <<>>
        BY <1>2, <1>3, <1>5, <2>2 DEF Durable
    <2> QED BY <2>1, <2>2
<1> QED BY <1>2, <1>5, <1>6, <1>7 DEF NeverStaleInv, NeverStale

\* The starts, the server, the clears and a crash.
LEMMA NeverStaleOthers ==
    ASSUME IInv, IInv', NeverStaleInv, Start \/ Server \/ ClearDeletes \/ Crash
    PROVE  NeverStaleInv'
<1>d. UNCHANGED server => UNCHANGED <<issued, origin>> /\ Held' = Held
    BY HeldStays DEF server
<1>a. ASSUME NEW t \in Tasks, NEW pc, NEW tok, Go(t, pc, tok), task[t].pc # "clear", pc # "clear",
             t \in Logins => pc = "confirm",
             UNCHANGED <<mem, clears, db, disk, server>>
      PROVE  NeverStaleInv'
    <2> DEFINE r == [task[t] EXCEPT !.pc = pc, !.tok = tok]
    <2>1. r.pc = pc /\ task' = [task EXCEPT ![t] = r] /\ "confirm" \in AtEnds
        BY <1>a DEF Go, IInv, Typed, States, AtEnds
    <2> HIDE DEF r
    <2> QED BY <1>a, <1>d, <2>1, MoveStays
<1>1. ASSUME NEW t \in Requests, RequestStart(t)
      PROVE  NeverStaleInv'
    <2>0. t \in Tasks /\ t \notin Logins /\ task[t].pc = "idle" /\ UNCHANGED server
        BY <1>1, TasksOK DEF Tasks, RequestStart, At
    <2>1. CASE Invalidate /\ UNCHANGED task
        <3>1. UNCHANGED <<db, disk>> /\ mem # 0 /\ clears \in Nat
            BY <1>1 DEF RequestStart, IInv, Typed
        <3>2. clears' > 0
            BY <2>1, <3>1 DEF Invalidate
        <3>3. Durable' = 0
            BY <3>2 DEF Durable, ClearPending
        <3>4. MineHeld'
            BY <1>d, <2>0, <2>1 DEF MineHeld, NeverStaleInv
        <3> QED BY <3>3, <3>4 DEF NeverStaleInv, NeverStale
    <2>2. CASE Go(t, "call", mem) /\ UNCHANGED <<mem, clears>>
        BY <1>1, <1>a, <2>0, <2>2 DEF RequestStart
    <2> QED BY <1>1, <2>1, <2>2 DEF RequestStart
<1>2. ASSUME NEW t \in Refreshers, RefreshSession(t)
      PROVE  NeverStaleInv'
    BY <1>2, <1>a, TasksOK DEF RefreshSession, At, Tasks
<1>3. ASSUME NEW t \in Logins, LoginStart(t)
      PROVE  NeverStaleInv'
    BY <1>3, <1>a DEF LoginStart, At, Tasks
<1>4. ASSUME NEW t \in Logouts, LogoutStart(t)
      PROVE  NeverStaleInv'
    <2>1. t \in Tasks /\ t \notin Logins
        BY TasksOK DEF Tasks
    <2>2. /\ \A s \in Tasks \ {t} : task'[s] = task[s]
          /\ task'[t].pc = "clear"
        BY <1>4, <2>1 DEF LogoutStart, Go, IInv, Typed, States
    <2>3. Durable' = 0
        BY <2>2 DEF Durable, ClearPending, At
    <2>4. MineHeld'
        BY <1>4, <1>d, <2>1, <2>2 DEF MineHeld, Tasks, NeverStaleInv, LogoutStart
    <2> QED BY <2>3, <2>4 DEF NeverStaleInv, NeverStale
<1>5. CASE Server
    <2>1. UNCHANGED <<mem, task, db, disk, clears, issued, origin>>
        BY <1>5 DEF Server, AccessExpires, SessionEnds, RefreshExpires
    <2>2. Held' = Held
        BY <2>1, HeldStays
    <2> QED BY <2>1, <2>2 DEF NeverStaleInv, NeverStale, MineHeld, Durable, ClearPending, At
<1>6. CASE ClearDeletes
    <2> DEFINE op == DelOp(Background)
    <2>1. Execute(op) /\ UNCHANGED <<mem, task, server>> /\ op.tok = 0
        BY <1>6 DEF ClearDeletes, DelOp
    <2> HIDE DEF op
    <2>2. Durable' = 0
        BY <2>1, LastDecides DEF IInv, Typed
    <2> QED BY <1>d, <2>1, <2>2 DEF NeverStaleInv, NeverStale, MineHeld
<1>7. CASE Crash
    <2>1. Durable' \in {0, mem'}
        BY <1>7 DEF Crash, Durable
    <2>2. MineHeld'
        <3>1. task' = [t \in Tasks |-> Idle]
            BY <1>7 DEF Crash
        <3> QED BY <3>1 DEF MineHeld, Idle, Tasks, AtEnds
    <2> QED BY <2>1, <2>2 DEF NeverStaleInv, NeverStale
<1>8. CASE Start
    BY <1>1, <1>2, <1>3, <1>4, <1>8 DEF Start
<1> QED BY <1>5, <1>6, <1>7, <1>8

\* For any tasks, tokens and crashes, in every process the statements end with the
\* session in memory or with none, unless a login registers its device first.
THEOREM DiskNeverStale == Spec => []NeverStale
<1>1. Init => NeverStaleInv
    BY DEF Init, NeverStaleInv, NeverStale, MineHeld, Durable, Idle, Tasks, AtEnds
<1>2. IInv /\ IInv' /\ NeverStaleInv /\ [Next]_vars => NeverStaleInv'
    <2> SUFFICES ASSUME IInv, IInv', NeverStaleInv, [Next]_vars PROVE NeverStaleInv'
        OBVIOUS
    <2>1. CASE Next
        BY <2>1, NeverStaleContinue, DbStepStays, NeverStaleOthers DEF Next
    <2>2. CASE UNCHANGED vars
        <3>1. Held' = Held
            BY <2>2, HeldStays DEF vars
        <3> QED BY <2>2, <3>1 DEF vars, NeverStaleInv, NeverStale, MineHeld, Durable,
                                  ClearPending, At
    <2> QED BY <2>1, <2>2
<1>3. NeverStaleInv => NeverStale
    BY DEF NeverStaleInv
<1> QED BY <1>1, <1>2, <1>3, Invariance, PTL DEF Spec

----------------------------------------------------------------------------
(* What the disk gets, and is still to get, in order: a pair that was      *)
(* exchanged is followed by the one it was exchanged for.                  *)

Given(n) == \E t \in Tasks : At(t, "granted") /\ task[t].tok = n
Line(i) == IF i = 0 THEN disk ELSE db[i].tok
Follows(i, n) == \E j \in 1..Len(db) : j > i /\ db[j].tok = n
Spent(v, n) ==
    /\ v \in 1..issued /\ v \notin Held
    /\ n \in 1..issued /\ origin[n].from = v

\* The successor of a pair in the line comes later in it, or is still with the task
\* it was given to, or is lost.
InOrder ==
    \A i \in 0..Len(db), n \in Tokens :
        Spent(Line(i), n) => Given(n) \/ n \in lost \/ Follows(i, n)

\* A pair that was given to a task is known to this task alone.
Secret ==
    \A t \in Tasks : task[t].pc = "granted" =>
        /\ task[t].tok \in 1..issued /\ task[t].tok # mem
        /\ \A s \in Tasks : task[s].pc = "post" => task[s].tok # task[t].tok
        /\ \A s \in Tasks : task[s].pc = "granted" /\ task[s].tok = task[t].tok => s = t
        /\ \A n \in 1..issued : origin[n].from # task[t].tok

\* What keeps the line in order: the queue may grow by pairs nobody has exchanged,
\* and a pair that is given is queued or lost when its task moves on.
LEMMA OrderKeeps ==
    ASSUME IInv, InOrder, UNCHANGED disk, lost \subseteq lost',
           Len(db') \in Nat, Len(db') >= Len(db), \A i \in 1..Len(db) : db'[i] = db[i],
           \A i \in 1..Len(db'), n \in Tokens :
               i > Len(db) => \A v : db'[i].tok = v => ~Spent(v, n)',
           \A v \in 0..issued, n \in Tokens : Spent(v, n)' => Spent(v, n) \/ Given(n)',
           \A n \in Tokens : Given(n) => Given(n)' \/ n \in lost'
               \/ \E j \in 1..Len(db') : j > Len(db) /\ db'[j].tok = n
    PROVE  InOrder'
<1>0. Len(db) \in Nat /\ disk \in 0..issued
    BY LenProperties DEF IInv, Typed
<1>1. \A i \in 1..Len(db) : db[i].tok \in 0..issued
    BY EntryFacts DEF IInv, Ops
<1> SUFFICES ASSUME NEW i \in 0..Len(db'), NEW n \in Tokens, Spent(Line(i), n)'
             PROVE  (Given(n) \/ n \in lost \/ Follows(i, n))'
    BY Zenon DEF InOrder
<1>2. PICK v : v = Line(i)'
    OBVIOUS
<1>3. Spent(v, n)'
    BY <1>2 DEF Spent
<1>4. i <= Len(db)
    BY <1>0, <1>2, <1>3 DEF Line
<1>5. i \in 0..Len(db) /\ v = Line(i) /\ v \in 0..issued
    BY <1>0, <1>1, <1>2, <1>4 DEF Line
<1>6. CASE Given(n)'
    BY <1>6
<1>7. CASE Spent(v, n)
    <2>1. Given(n) \/ n \in lost \/ Follows(i, n)
        BY <1>5, <1>7 DEF InOrder
    <2>2. Follows(i, n) => Follows(i, n)'
        BY <1>0 DEF Follows
    <2>3. ASSUME NEW j \in 1..Len(db'), j > Len(db), db'[j].tok = n
          PROVE  Follows(i, n)'
        BY <1>0, <1>4, <2>3 DEF Follows
    <2> QED BY <2>1, <2>2, <2>3
<1> QED BY <1>3, <1>5, <1>6, <1>7

\* Without a new pair, what is exchanged stays the same.
LEMMA SpentStays ==
    ASSUME UNCHANGED <<issued, origin>>, NEW v, NEW n
    PROVE  Spent(v, n)' = Spent(v, n)
<1>1. Held' = Held
    BY HeldStays
<1> QED BY <1>1 DEF Spent

\* A task moves; the queue stays.
LEMMA OrderMove ==
    ASSUME IInv, InOrder, NEW t \in Tasks, NEW r, task' = [task EXCEPT ![t] = r],
           task[t].pc = "granted" => task[t].tok \in lost', lost \subseteq lost',
           UNCHANGED <<disk, db, issued, origin>>
    PROVE  InOrder'
<1>1. \A s \in Tasks : task'[s] = IF s = t THEN r ELSE task[s]
    BY DEF IInv, Typed
<1>2. ASSUME NEW n \in Tokens, Given(n)
      PROVE  Given(n)' \/ n \in lost'
    BY <1>1, <1>2 DEF Given, At
<1>3. Len(db) \in Nat
    BY LenProperties DEF IInv, Typed
<1>4. \A v \in 0..issued, n \in Tokens : Spent(v, n)' => Spent(v, n) \/ Given(n)'
    BY SpentStays
<1> QED BY <1>2, <1>3, <1>4, OrderKeeps

\* A task that moves queues a pair nobody has exchanged, or a deletion; a clear()
\* in the background does the same.
LEMMA OrderQueued ==
    ASSUME IInv, InOrder, NEW op, Execute(op),
           \A n \in Tokens : ~Spent(op.tok, n),
           \A n \in Tokens : Given(n) => Given(n)' \/ op.tok = n,
           UNCHANGED <<disk, issued, origin, lost>>
    PROVE  InOrder'
<1>1. Len(db) \in Nat /\ db' = Append(db, op)
    BY LenProperties DEF IInv, Typed, Execute
<1>2. /\ Len(db') = Len(db) + 1 /\ db'[Len(db) + 1] = op
      /\ \A i \in 1..Len(db) : db'[i] = db[i]
    BY <1>1, AppendProperties DEF IInv, Typed
<1>3. ASSUME NEW i \in 1..Len(db'), NEW n \in Tokens, i > Len(db), NEW v, db'[i].tok = v
      PROVE  ~Spent(v, n)'
    <2>1. i = Len(db) + 1
        BY <1>1, <1>2, <1>3
    <2> QED BY <1>2, <1>3, <2>1, SpentStays
<1>4. \A v \in 0..issued, n \in Tokens : Spent(v, n)' => Spent(v, n) \/ Given(n)'
    BY SpentStays
<1>5. ASSUME NEW n \in Tokens, Given(n)
      PROVE  Given(n)' \/ \E j \in 1..Len(db') : j > Len(db) /\ db'[j].tok = n
    <2>1. Len(db) + 1 \in 1..Len(db') /\ Len(db) + 1 > Len(db)
        BY <1>1, <1>2
    <2> QED BY <1>2, <1>5, <2>1
<1>6. Len(db') \in Nat /\ Len(db') >= Len(db)
    BY <1>1, <1>2
<1> QED BY <1>2, <1>3, <1>4, <1>5, <1>6, OrderKeeps

\* Who moves without being given a pair keeps the secrets, whatever becomes of its own.
LEMMA SecretMove ==
    ASSUME IInv, Secret, NEW t \in Tasks, NEW r, task' = [task EXCEPT ![t] = r],
           r.pc # "granted", r.pc = "post" => r.tok = mem,
           mem' \in {mem, 0} \/ (task[t].pc = "granted" /\ mem' = task[t].tok),
           UNCHANGED <<issued, origin>>
    PROVE  Secret'
<1>1. \A s \in Tasks : task'[s] = IF s = t THEN r ELSE task[s]
    BY DEF IInv, Typed
<1> SUFFICES ASSUME NEW s \in Tasks, task'[s].pc = "granted"
             PROVE  /\ task'[s].tok \in 1..issued /\ task'[s].tok # mem'
                    /\ \A u \in Tasks : task'[u].pc = "post" => task'[u].tok # task'[s].tok
                    /\ \A u \in Tasks :
                          task'[u].pc = "granted" /\ task'[u].tok = task'[s].tok => u = s
                    /\ \A n \in 1..issued : origin[n].from # task'[s].tok
    BY DEF Secret
<1>2. s # t /\ task'[s] = task[s]
    BY <1>1
<1>3. /\ task[s].tok \in 1..issued /\ task[s].tok # mem
      /\ \A n \in 1..issued : origin[n].from # task[s].tok
    BY <1>2 DEF Secret
<1>4. task[s].tok # mem'
    <2>1. task[t].pc = "granted" => task[t].tok # task[s].tok
        BY <1>2 DEF Secret
    <2>2. task[s].tok # 0
        BY <1>3 DEF IInv, Typed, Tokens
    <2> QED BY <1>3, <2>1, <2>2
<1>5. ASSUME NEW u \in Tasks, task'[u].pc = "post"
      PROVE  task'[u].tok # task[s].tok
    <2>1. CASE u = t
        BY <1>1, <1>3, <1>5, <2>1
    <2>2. CASE u # t
        BY <1>1, <1>2, <1>5, <2>2 DEF Secret
    <2> QED BY <2>1, <2>2
<1>6. ASSUME NEW u \in Tasks, task'[u].pc = "granted", task'[u].tok = task[s].tok
      PROVE  u = s
    <2>1. u # t
        BY <1>1, <1>6
    <2> QED BY <1>1, <1>2, <1>6, <2>1 DEF Secret
<1> QED BY <1>2, <1>3, <1>4, <1>5, <1>6

\* What is known of the pairs before and after the server issues one.
LEMMA OriginFacts ==
    ASSUME IInv, NEW n \in Tokens, NEW old \in 0..issued, NEW u, NEW held,
           Issue(n, old, u, held)
    PROVE  /\ issued \in Nat /\ issued' = n /\ n = issued + 1 /\ Held \subseteq Held'
           /\ \A m \in 1..issued : origin'[m] = origin[m] /\ origin[m].from \in 0..issued
           /\ origin'[n].from = old
<1>1. /\ issued \in Nat /\ MaxTokens \in Nat /\ n \in 1..MaxTokens
      /\ n = issued + 1 /\ issued' = n /\ Held \subseteq Held'
    BY HeldGrows, TasksOK DEF IInv, Typed, Tokens
<1>2. \A m \in 1..issued : m \in 1..MaxTokens /\ m # n
    BY <1>1
<1>3. /\ origin' = [origin EXCEPT ![n] = [from |-> old, by |-> u, held |-> held]]
      /\ origin \in [1..MaxTokens -> Origins(issued)]
    BY DEF Issue, IInv, Typed, Tokens
<1>4. \A m \in 1..issued : origin[m].from \in 0..issued
    BY <1>2, <1>3 DEF Origins
<1>5. origin'[n].from = old
    BY <1>1, <1>3
<1> QED BY <1>1, <1>2, <1>3, <1>4, <1>5

\* A pair is issued: to the task that gave its predecessor for it, or to a login,
\* which may queue it at once.
LEMMA OrderIssue ==
    ASSUME IInv, IInv', InOrder, NEW n \in Tokens, NEW old \in 0..issued, NEW u, NEW held,
           Issue(n, old, u, held), UNCHANGED disk, lost \subseteq lost',
           Len(db') >= Len(db), \A i \in 1..Len(db) : db'[i] = db[i],
           \A i \in 1..Len(db') : i > Len(db) => db'[i].tok = n,
           old # 0 => Given(n)',
           \A m \in Tokens : Given(m) => Given(m)'
    PROVE  InOrder'
<1>1. /\ issued \in Nat /\ issued' = n /\ n = issued + 1 /\ Held \subseteq Held'
      /\ \A m \in 1..issued : origin'[m] = origin[m] /\ origin[m].from \in 0..issued
      /\ origin'[n].from = old
    BY OriginFacts
<1>2. ASSUME NEW v \in 0..issued, NEW m \in Tokens, Spent(v, m)'
      PROVE  Spent(v, m) \/ Given(m)'
    <2>1. v \in 1..n /\ v \notin Held' /\ m \in 1..n /\ origin'[m].from = v
        BY <1>1, <1>2 DEF Spent
    <2>2. CASE m = n
        BY <1>1, <2>1, <2>2
    <2>3. CASE m # n
        <3>1. m \in 1..issued /\ v \in 1..issued
            BY <1>1, <2>1, <2>3
        <3> QED BY <1>1, <2>1, <3>1 DEF Spent
    <2> QED BY <2>2, <2>3
<1>3. ASSUME NEW m \in Tokens
      PROVE  ~Spent(n, m)'
    <2>1. SUFFICES ASSUME m \in 1..n, origin'[m].from = n PROVE FALSE
        BY <1>1 DEF Spent
    <2>2. m = n \/ m \in 1..issued
        BY <1>1, <2>1
    <2>3. \A x \in 0..issued : x # n
        BY <1>1
    <2> QED BY <1>1, <2>1, <2>2, <2>3
<1>4. Len(db') \in Nat
    BY LenProperties DEF IInv, Typed
<1>5. \A i \in 1..Len(db'), m \in Tokens :
          i > Len(db) => \A v : db'[i].tok = v => ~Spent(v, m)'
    BY <1>3
<1> QED BY <1>2, <1>4, <1>5, OrderKeeps

\* The new pair is known to nobody else.
LEMMA SecretIssue ==
    ASSUME IInv, Secret, NEW n \in Tokens, NEW old \in 0..issued, NEW u, NEW held,
           Issue(n, old, u, held), NEW t \in Tasks, NEW r, task' = [task EXCEPT ![t] = r],
           r.pc # "post", task[t].pc # "granted",
           r.pc = "granted" => r.tok = n /\ mem' = mem, mem' \in {mem, n},
           \A s \in Tasks : task[s].pc = "granted" => task[s].tok # old
    PROVE  Secret'
<1>1. /\ issued \in Nat /\ issued' = n /\ n = issued + 1
      /\ \A m \in 1..issued : origin'[m] = origin[m] /\ origin[m].from \in 0..issued
      /\ origin'[n].from = old
    BY OriginFacts
<1>2. \A s \in Tasks : task'[s] = IF s = t THEN r ELSE task[s]
    BY DEF IInv, Typed
<1>3. mem \in 0..issued /\ \A s \in Tasks : task[s].tok \in 0..issued
    BY DEF IInv, Typed, States
<1>4. \A x \in 0..issued : x # n
    BY <1>1
<1>5. \A m \in 1..n : m = n \/ m \in 1..issued
    BY <1>1
<1>6. ASSUME NEW s \in Tasks, task'[s].pc = "granted", s # t
      PROVE  /\ task'[s].tok \in 1..n /\ task'[s].tok # mem'
             /\ \A w \in Tasks : task'[w].pc = "post" => task'[w].tok # task'[s].tok
             /\ \A w \in Tasks :
                   task'[w].pc = "granted" /\ task'[w].tok = task'[s].tok => w = s
             /\ \A m \in 1..n : origin'[m].from # task'[s].tok
    <2>1. task'[s] = task[s] /\ task[s].pc = "granted"
        BY <1>2, <1>6
    <2>2. /\ task[s].tok \in 1..issued /\ task[s].tok # mem
          /\ \A m \in 1..issued : origin[m].from # task[s].tok
        BY <2>1 DEF Secret
    <2>3. task[s].tok \in 1..n /\ task[s].tok # n
        BY <1>1, <2>2
    <2>4. task[s].tok # mem'
        BY <2>2, <2>3
    <2>5. \A m \in 1..n : origin'[m].from # task[s].tok
        BY <1>1, <1>5, <2>1, <2>2
    <2>6. \A w \in Tasks : task'[w].pc = "post" => task'[w].tok # task[s].tok
        BY <1>2, <2>1 DEF Secret
    <2>7. \A w \in Tasks : task'[w].pc = "granted" /\ task'[w].tok = task[s].tok => w = s
        BY <1>2, <2>1, <2>3 DEF Secret
    <2> QED BY <2>1, <2>3, <2>4, <2>5, <2>6, <2>7
<1>7. ASSUME task'[t].pc = "granted"
      PROVE  /\ task'[t].tok \in 1..n /\ task'[t].tok # mem'
             /\ \A w \in Tasks : task'[w].pc = "post" => task'[w].tok # task'[t].tok
             /\ \A w \in Tasks :
                   task'[w].pc = "granted" /\ task'[w].tok = task'[t].tok => w = t
             /\ \A m \in 1..n : origin'[m].from # task'[t].tok
    <2>1. task'[t] = r /\ r.tok = n /\ mem' = mem /\ n \in 1..n
        BY <1>1, <1>2, <1>7
    <2>2. \A m \in 1..n : origin'[m].from # n
        BY <1>1, <1>4, <1>5
    <2>3. \A w \in Tasks : w # t => task'[w].tok # n
        BY <1>2, <1>3, <1>4
    <2>4. \A w \in Tasks : task'[w].pc = "post" => task'[w].tok # n
        BY <1>2, <2>3
    <2> QED BY <1>3, <1>4, <2>1, <2>2, <2>3, <2>4
<1> QED BY <1>1, <1>6, <1>7 DEF Secret

OrderInv == InOrder /\ Secret

\* Every continuation of a task keeps the line.
LEMMA OrderContinue ==
    ASSUME IInv, IInv', NeverStaleInv, OrderInv, NEW t \in Tasks, Continue(t)
    PROVE  OrderInv'
<1> DEFINE To(pc, tok) == [task[t] EXCEPT !.pc = pc, !.tok = tok]
<1>0. /\ task \in [Tasks -> States(issued)] /\ task[t] \in States(issued)
      /\ issued \in Nat /\ Len(db) \in Nat
      /\ InOrder /\ Secret
      /\ t \in Logins /\ task[t].pc \notin AtEnds => task[t].mine \in Held
    BY LenProperties DEF IInv, Typed, NeverStaleInv, MineHeld, Tokens, OrderInv
<1>a. ASSUME NEW pc, NEW tok, Go(t, pc, tok)
      PROVE  /\ To(pc, tok).pc = pc /\ To(pc, tok).tok = tok
             /\ task' = [task EXCEPT ![t] = To(pc, tok)]
    BY <1>0, <1>a DEF Go, States
<1> HIDE DEF To
<1>b. ASSUME End(t), mem' \in {mem, 0}, lost \subseteq lost',
             task[t].pc = "granted" => task[t].tok \in lost',
             UNCHANGED <<disk, db, issued, origin>>
      PROVE  OrderInv'
    <2>1. task' = [task EXCEPT ![t] = Idle] /\ Idle.pc = "idle"
        BY <1>b DEF End, Idle
    <2>2. InOrder'
        BY <1>0, <1>b, <2>1, OrderMove
    <2>3. Secret'
        BY <1>0, <1>b, <2>1, SecretMove
    <2> QED BY <2>2, <2>3 DEF OrderInv
<1>c. ASSUME NEW pc, NEW tok, Go(t, pc, tok), pc # "granted", pc = "post" => tok = mem,
             task[t].pc # "granted", mem' = mem, UNCHANGED <<disk, db, server>>
      PROVE  OrderInv'
    <2>1. UNCHANGED <<issued, origin, lost>>
        BY <1>c DEF server
    <2>2. InOrder'
        BY <1>0, <1>a, <1>c, <2>1, OrderMove
    <2>3. Secret'
        BY <1>0, <1>a, <1>c, <2>1, SecretMove
    <2> QED BY <2>2, <2>3 DEF OrderInv
<1>e. ASSUME NEW pc \in {"keep", "save", "drop"}, NEW tok, Go(t, pc, tok), NEW op, Execute(op),
             \A n \in Tokens : ~Spent(op.tok, n),
             task[t].pc = "granted" => op.tok = task[t].tok,
             mem' = mem \/ (task[t].pc = "granted" /\ mem' = task[t].tok),
             UNCHANGED <<disk, server>>
      PROVE  OrderInv'
    <2>1. UNCHANGED <<issued, origin, lost>>
        BY <1>e DEF server
    <2>2. \A s \in Tasks : s # t => task'[s] = task[s]
        BY <1>0, <1>a, <1>e
    <2>3. \A n \in Tokens : Given(n) => Given(n)' \/ op.tok = n
        BY <1>e, <2>2 DEF Given, At
    <2>4. InOrder'
        BY <1>0, <1>e, <2>1, <2>3, OrderQueued
    <2>5. Secret'
        BY <1>0, <1>a, <1>e, <2>1, SecretMove
    <2> QED BY <2>4, <2>5 DEF OrderInv
<1>d. UNCHANGED server => UNCHANGED <<issued, origin, lost>> /\ lost \subseteq lost'
    BY DEF server
<1>f. Invalidate => mem' \in {mem, 0}
    BY DEF Invalidate
<1>1. CASE Answered(t)
    <2>1. task[t].pc \in {"call", "retry"} /\ UNCHANGED <<mem, disk, server>>
        BY <1>1 DEF Answered
    <2>2. CASE End(t) /\ UNCHANGED db
        BY <1>b, <1>d, <2>1, <2>2
    <2>3. CASE t \in Logins /\ Go(t, "keep", task[t].mine) /\ Execute(SetOp(t, task[t].mine))
        <3> DEFINE op == SetOp(t, task[t].mine)
        <3>1. op.tok \in Held /\ Execute(op)
            BY <1>0, <2>1, <2>3 DEF SetOp, AtEnds
        <3> HIDE DEF op
        <3>2. \A n \in Tokens : ~Spent(op.tok, n)
            BY <3>1 DEF Spent
        <3> QED BY <1>e, <2>1, <2>3, <3>1, <3>2
    <2> QED BY <1>1, <2>2, <2>3 DEF Answered
<1>2. CASE Unauthorized(t)
    <2>1. task[t].pc = "call" /\ UNCHANGED <<db, disk, server>>
        BY <1>2 DEF Unauthorized, At
    <2>2. CASE End(t) /\ (UNCHANGED <<mem, clears>> \/ Invalidate)
        BY <1>b, <1>d, <1>f, <2>1, <2>2
    <2>3. CASE Go(t, "wait", task[t].tok) /\ UNCHANGED <<mem, clears>>
        BY <1>c, <2>1, <2>3
    <2> QED BY <1>2, <2>2, <2>3 DEF Unauthorized, IfRefreshAvailable
<1>3. CASE Enter(t)
    <2>1. task[t].pc = "wait" /\ UNCHANGED <<db, disk, server>>
        BY <1>3 DEF Enter, At
    <2>2. CASE End(t) /\ (UNCHANGED <<mem, clears>> \/ Invalidate)
        BY <1>b, <1>d, <1>f, <2>1, <2>2
    <2>3. ASSUME NEW pc \in {"retry", "post"}, Go(t, pc, mem), UNCHANGED <<mem, clears>>
          PROVE  OrderInv'
        BY <1>c, <2>1, <2>3
    <2> QED BY <1>3, <2>2, <2>3 DEF Enter, IfRefreshAvailable
<1>4. CASE Exchange(t)
    <2>1. task[t].pc = "post" /\ UNCHANGED <<mem, db, disk>>
        BY <1>4 DEF Exchange, At
    <2>2. ASSUME NEW n \in Tokens, Issue(n, task[t].tok, t, FALSE), Go(t, "granted", n)
          PROVE  OrderInv'
        <3>1. task[t].tok \in 0..issued
            BY <1>0 DEF States
        <3>2. PICK r : r.pc = "granted" /\ r.tok = n /\ task' = [task EXCEPT ![t] = r]
            BY <1>a, <2>2
        <3>3. \A s \in Tasks : task'[s] = IF s = t THEN r ELSE task[s]
            BY <1>0, <3>2
        <3>4. Given(n)' /\ \A m \in Tokens : Given(m) => Given(m)'
            BY <2>1, <3>2, <3>3 DEF Given, At
        <3>5. lost \subseteq lost' /\ Len(db') >= Len(db)
              /\ \A i \in 1..Len(db) : db'[i] = db[i]
            BY <1>0, <2>1, <2>2 DEF Issue
        <3>6. \A i \in 1..Len(db') : i > Len(db) => db'[i].tok = n
            BY <1>0, <2>1
        <3>7. InOrder'
            BY <1>0, <2>1, <2>2, <3>1, <3>4, <3>5, <3>6, OrderIssue
        <3>8. \A s \in Tasks : task[s].pc = "granted" => task[s].tok # task[t].tok
            BY <1>0, <2>1 DEF Secret
        <3>9. Secret'
            BY <1>0, <2>1, <2>2, <3>1, <3>2, <3>8, SecretIssue
        <3> QED BY <3>7, <3>9 DEF OrderInv
    <2>3. CASE Go(t, "denied", task[t].tok) /\ UNCHANGED server
        BY <1>c, <2>1, <2>3
    <2> QED BY <1>4, <2>2, <2>3 DEF Exchange
<1>5. CASE RefreshFails(t)
    <2>1. End(t) /\ UNCHANGED <<mem, disk, db, issued, origin>>
        BY <1>5 DEF RefreshFails, answers
    <2>2. lost \subseteq lost' /\ (task[t].pc = "granted" => task[t].tok \in lost')
        BY <1>5 DEF RefreshFails, At
    <2> QED BY <1>b, <2>1, <2>2
<1>6. CASE Granted(t)
    <2> DEFINE op == SetOp(t, task[t].tok)
    <2>1. /\ task[t].pc = "granted" /\ Go(t, "save", task[t].tok) /\ Execute(op)
          /\ mem' = task[t].tok /\ UNCHANGED <<disk, server>>
        BY <1>6 DEF Granted, At, SetTokens
    <2>2. op.tok = task[t].tok
        BY DEF SetOp
    <2>3. \A n \in Tokens : ~Spent(task[t].tok, n)
        BY <1>0, <2>1 DEF Secret, Spent
    <2> HIDE DEF op
    <2>4. \A n \in Tokens : ~Spent(op.tok, n)
        BY <2>2, <2>3
    <2> QED BY <1>e, <2>1, <2>2, <2>4
<1>7. CASE Denied(t) \/ LoggedOut(t)
    <2>1. /\ task[t].pc # "granted" /\ End(t) /\ Invalidate
          /\ UNCHANGED <<db, disk, server>>
        BY <1>7 DEF Denied, LoggedOut, At
    <2> QED BY <1>b, <1>d, <1>f, <2>1
<1>8. CASE Saved(t)
    <2>1. task[t].pc = "saved" /\ UNCHANGED <<mem, db, disk, server>>
        BY <1>8 DEF Saved, At
    <2>2. CASE End(t)
        BY <1>b, <1>d, <2>1, <2>2
    <2>3. CASE Go(t, "retry", mem)
        BY <1>c, <2>1, <2>3
    <2> QED BY <1>8, <2>2, <2>3 DEF Saved
<1>9. CASE Confirmed(t)
    <2>1. PICK n \in Tokens :
            /\ Issue(n, 0, t, restarts \in Register)
            /\ SetTokens(n)
            /\ IF restarts \in Register
               THEN /\ task' = [task EXCEPT ![t] = [pc |-> "call", tok |-> n, mine |-> n]]
                    /\ UNCHANGED db
               ELSE Go(t, "keep", n) /\ Execute(SetOp(t, n))
        BY <1>9 DEF Confirmed
    <2> DEFINE held == restarts \in Register
    <2>2. Issue(n, 0, t, held) /\ 0 \in 0..issued
        BY <1>0, <2>1
    <2> HIDE DEF held
    <2>3. task[t].pc = "confirm" /\ UNCHANGED disk /\ mem' = n
        BY <1>9, <2>1 DEF Confirmed, At, SetTokens
    <2>4. PICK r : task' = [task EXCEPT ![t] = r] /\ r.pc \in {"call", "keep"}
        <3>1. [pc |-> "call", tok |-> n, mine |-> n].pc = "call"
            OBVIOUS
        <3> QED BY <1>a, <2>1, <3>1
    <2>5. \A s \in Tasks : task'[s] = IF s = t THEN r ELSE task[s]
        BY <1>0, <2>4
    <2>6. \A m \in Tokens : Given(m) => Given(m)'
        BY <2>3, <2>5 DEF Given, At
    <2>7. /\ Len(db') >= Len(db) /\ \A i \in 1..Len(db) : db'[i] = db[i]
          /\ \A i \in 1..Len(db') : i > Len(db) => db'[i].tok = n
        <3>1. CASE UNCHANGED db
            BY <1>0, <3>1
        <3>2. CASE Execute(SetOp(t, n))
            <4> DEFINE op == SetOp(t, n)
            <4>1. op.tok = n /\ db' = Append(db, op)
                BY <3>2 DEF SetOp, Execute
            <4> HIDE DEF op
            <4>2. /\ Len(db') = Len(db) + 1 /\ db'[Len(db) + 1] = op
                  /\ \A i \in 1..Len(db) : db'[i] = db[i]
                BY <4>1, AppendProperties DEF IInv, Typed
            <4>3. \A i \in 1..Len(db') : i > Len(db) => i = Len(db) + 1
                BY <1>0, <4>2
            <4> QED BY <1>0, <4>1, <4>2, <4>3
        <3> QED BY <2>1, <3>1, <3>2
    <2>8. lost \subseteq lost'
        BY <2>1 DEF Issue
    <2>9. InOrder'
        BY <1>0, <2>2, <2>3, <2>6, <2>7, <2>8, OrderIssue
    <2>10. \A s \in Tasks : task[s].pc = "granted" => task[s].tok # 0
        BY <1>0 DEF Secret
    <2>11. Secret'
        BY <1>0, <2>2, <2>3, <2>4, <2>10, SecretIssue
    <2> QED BY <2>9, <2>11 DEF OrderInv
<1>10. CASE NotConfirmed(t) \/ Kept(t)
    <2>1. task[t].pc # "granted" /\ End(t) /\ UNCHANGED <<mem, db, disk, server>>
        BY <1>10 DEF NotConfirmed, Kept, At
    <2> QED BY <1>b, <1>d, <2>1
<1>11. CASE LogoutDeletes(t)
    <2> DEFINE op == DelOp(t)
    <2>1. /\ task[t].pc = "clear" /\ Go(t, "drop", 0) /\ Execute(op)
          /\ UNCHANGED <<mem, disk, server>>
        BY <1>11 DEF LogoutDeletes, At
    <2>2. op.tok = 0
        BY DEF DelOp
    <2>3. \A n \in Tokens : ~Spent(op.tok, n)
        BY <1>0, <2>2 DEF Spent
    <2> HIDE DEF op
    <2> QED BY <1>e, <2>1, <2>3
<1> QED BY <1>1, <1>2, <1>3, <1>4, <1>5, <1>6, <1>7, <1>8, <1>9, <1>10, <1>11
        DEF Continue

\* The thread takes the first statement of the line to the disk.
LEMMA OrderDbStep ==
    ASSUME IInv, OrderInv, DbStep
    PROVE  OrderInv'
<1> DEFINE h == Head(db)
           r == [task[h.by] EXCEPT !.pc = Done[@]]
<1>1. /\ h = db[1] /\ 1 \in 1..Len(db) /\ Len(db) \in Nat
      /\ Len(db') = Len(db) - 1
      /\ \A i \in 1..Len(db') : db'[i] = db[i+1]
    BY HeadTailProperties DEF DbStep, IInv, Typed
<1>2. disk' = h.tok /\ UNCHANGED <<mem, issued, origin, lost>>
    BY DEF DbStep, server
<1>3. Secret' /\ \A n \in Tokens : Given(n) => Given(n)'
    <2>1. CASE h.by = Background
        <3>1. UNCHANGED task
            BY <2>1 DEF DbStep
        <3> QED BY <1>2, <3>1 DEF Secret, Given, At, OrderInv
    <2>2. CASE h.by # Background
        <3>1. h.by \in Tasks /\ task[h.by].pc \in {"save", "keep", "drop"}
            BY <1>1, <2>2, EntryFacts DEF IInv, QueueOK
        <3>2. task' = [task EXCEPT ![h.by] = r] /\ task \in [Tasks -> States(issued)]
            BY <2>2 DEF DbStep, IInv, Typed
        <3>3. r.pc \in {"saved", "kept", "dropped"}
            BY <3>1, <3>2 DEF Done, States
        <3> HIDE DEF h, r
        <3>4. \A s \in Tasks : task'[s] = IF s = h.by THEN r ELSE task[s]
            BY <3>2
        <3>5. Secret'
            BY <1>2, <3>1, <3>2, <3>3, SecretMove DEF OrderInv
        <3> QED BY <3>1, <3>4, <3>5 DEF Given, At
    <2> QED BY <2>1, <2>2
<1>4. InOrder'
    <2> SUFFICES ASSUME NEW i \in 0..Len(db'), NEW n \in Tokens, Spent(Line(i), n)'
                 PROVE  (Given(n) \/ n \in lost \/ Follows(i, n))'
        BY Zenon DEF InOrder
    <2>1. i + 1 \in 0..Len(db) /\ i + 1 # 0
        BY <1>1
    <2>2. Line(i)' = Line(i + 1)
        <3>1. CASE i = 0
            BY <1>1, <1>2, <3>1 DEF Line
        <3>2. CASE i # 0
            <4>1. i \in 1..Len(db')
                BY <1>1, <3>2
            <4> QED BY <1>1, <2>1, <3>2, <4>1 DEF Line
        <3> QED BY <3>1, <3>2
    <2>3. Spent(Line(i + 1), n)
        <3>1. PICK v : v = Line(i)'
            OBVIOUS
        <3>2. Spent(v, n)'
            BY <3>1 DEF Spent
        <3> QED BY <1>2, <2>2, <3>1, <3>2, SpentStays
    <2>4. Given(n) \/ n \in lost \/ Follows(i + 1, n)
        BY <2>1, <2>3 DEF InOrder, OrderInv
    <2>5. Follows(i + 1, n) => Follows(i, n)'
        <3> SUFFICES ASSUME NEW j \in 1..Len(db), j > i + 1, db[j].tok = n
                     PROVE  Follows(i, n)'
            BY DEF Follows
        <3>1. j - 1 \in 1..Len(db') /\ j - 1 > i /\ (j - 1) + 1 = j
            BY <1>1
        <3>2. db'[j - 1] = db[j]
            BY <1>1, <3>1
        <3> QED BY <3>1, <3>2 DEF Follows
    <2> QED BY <1>2, <1>3, <2>4, <2>5
<1> QED BY <1>3, <1>4 DEF OrderInv

\* The starts, the server, the clears, and a crash, which loses what is under way.
LEMMA OrderOthers ==
    ASSUME IInv, OrderInv, Start \/ Server \/ ClearDeletes \/ Crash
    PROVE  OrderInv'
<1>0. /\ task \in [Tasks -> States(issued)] /\ InOrder /\ Secret
      /\ issued \in Nat /\ Len(db) \in Nat
    BY LenProperties DEF IInv, Typed, OrderInv, Tokens
<1>a. ASSUME NEW t \in Tasks, NEW pc \in {"call", "clear", "confirm", "post"}, NEW tok,
             Go(t, pc, tok), pc = "post" => tok = mem, task[t].pc # "granted",
             UNCHANGED <<mem, disk, db, server>>
      PROVE  OrderInv'
    <2>1. PICK r : r.pc = pc /\ r.tok = tok /\ task' = [task EXCEPT ![t] = r]
        <3> DEFINE r == [task[t] EXCEPT !.pc = pc, !.tok = tok]
        <3>1. r.pc = pc /\ r.tok = tok /\ task' = [task EXCEPT ![t] = r]
            BY <1>0, <1>a DEF Go, States
        <3> HIDE DEF r
        <3> QED BY <3>1
    <2>2. UNCHANGED <<issued, origin, lost>>
        BY <1>a DEF server
    <2>3. InOrder'
        BY <1>0, <1>a, <2>1, <2>2, OrderMove
    <2>4. Secret'
        BY <1>0, <1>a, <2>1, <2>2, SecretMove
    <2> QED BY <2>3, <2>4 DEF OrderInv
<1>b. ASSUME UNCHANGED <<task, disk, db, issued, origin, lost>>, mem' \in {mem, 0}
      PROVE  OrderInv'
    <2>1. InOrder'
        <3>1. \A n \in Tokens : Given(n)' = Given(n)
            BY <1>b DEF Given, At
        <3>2. \A v \in 0..issued, n \in Tokens : Spent(v, n)' => Spent(v, n) \/ Given(n)'
            BY <1>b, SpentStays
        <3> QED BY <1>0, <1>b, <3>1, <3>2, OrderKeeps
    <2>2. Secret'
        BY <1>0, <1>b DEF Secret
    <2> QED BY <2>1, <2>2 DEF OrderInv
<1>d. UNCHANGED server => UNCHANGED <<issued, origin, lost>>
    BY DEF server
<1>1. ASSUME NEW t \in Requests, RequestStart(t)
      PROVE  OrderInv'
    <2>0. t \in Tasks /\ task[t].pc = "idle" /\ UNCHANGED <<db, disk, server>>
        BY <1>1 DEF Tasks, RequestStart, At
    <2>1. CASE Invalidate /\ UNCHANGED task
        BY <1>b, <1>d, <2>0, <2>1 DEF Invalidate
    <2>2. CASE Go(t, "call", mem) /\ UNCHANGED <<mem, clears>>
        BY <1>a, <2>0, <2>2
    <2> QED BY <1>1, <2>1, <2>2 DEF RequestStart
<1>2. ASSUME NEW t \in Refreshers, RefreshSession(t)
      PROVE  OrderInv'
    BY <1>2, <1>a DEF RefreshSession, At, Tasks
<1>3. ASSUME NEW t \in Logins, LoginStart(t)
      PROVE  OrderInv'
    BY <1>3, <1>a DEF LoginStart, At, Tasks
<1>4. ASSUME NEW t \in Logouts, LogoutStart(t)
      PROVE  OrderInv'
    BY <1>4, <1>a DEF LogoutStart, At, Tasks
<1>5. CASE Server
    <2>1. UNCHANGED <<mem, task, db, disk, issued, origin, lost>>
        BY <1>5 DEF Server, AccessExpires, SessionEnds, RefreshExpires
    <2> QED BY <1>b, <2>1
<1>6. CASE ClearDeletes
    <2> DEFINE op == DelOp(Background)
    <2>1. Execute(op) /\ UNCHANGED <<mem, task, disk, server>> /\ op.tok = 0
        BY <1>6 DEF ClearDeletes, DelOp
    <2> HIDE DEF op
    <2>2. \A n \in Tokens : ~Spent(op.tok, n)
        BY <1>0, <2>1 DEF Spent
    <2>3. \A n \in Tokens : Given(n) => Given(n)'
        BY <2>1 DEF Given, At
    <2>4. InOrder'
        BY <1>0, <1>d, <2>1, <2>2, <2>3, OrderQueued
    <2>5. Secret'
        BY <1>0, <1>d, <2>1 DEF Secret
    <2> QED BY <2>4, <2>5 DEF OrderInv
<1>7. CASE Crash
    <2>1. /\ task' = [t \in Tasks |-> Idle] /\ db' = <<>>
          /\ lost' = lost \cup {n \in Tokens : Underway(n)}
          /\ UNCHANGED <<disk, issued, origin>>
        BY <1>7 DEF Crash, answers
    <2>2. Secret'
        BY <2>1 DEF Secret, Idle
    <2>3. ASSUME NEW i \in 0..Len(db'), NEW n \in Tokens, Spent(Line(i), n)'
          PROVE  n \in lost'
        <3>1. Len(db') = 0
            BY <2>1, EmptySeq
        <3>2. i = 0
            BY <3>1
        <3>3. Spent(Line(0), n)
            <4>1. Line(i)' = disk /\ Line(0) = disk
                BY <2>1, <3>2 DEF Line
            <4>2. Held' = Held
                BY <2>1, HeldStays
            <4> QED BY <2>1, <2>3, <4>1, <4>2 DEF Spent
        <3>4. Given(n) \/ n \in lost \/ Follows(0, n)
            BY <1>0, <3>3 DEF InOrder
        <3>5. Given(n) \/ Follows(0, n) => Underway(n)
            BY DEF Given, Follows, Underway
        <3> QED BY <2>1, <3>4, <3>5
    <2>4. InOrder'
        BY <2>3, Zenon DEF InOrder
    <2> QED BY <2>2, <2>4 DEF OrderInv
<1>8. CASE Start
    BY <1>1, <1>2, <1>3, <1>4, <1>8 DEF Start
<1> QED BY <1>5, <1>6, <1>7, <1>8

\* For any tasks, tokens and crashes: the disk holds a pair that was exchanged already
\* only while the pair it was exchanged for is under way, or if that one was lost
\* before it was saved.
THEOREM ExchangedPairsPass == Spec => []SpentOnlyUnderway
<1>1. Init => NeverStaleInv /\ OrderInv
    <2> SUFFICES ASSUME Init PROVE NeverStaleInv /\ OrderInv
        OBVIOUS
    <2>1. NeverStaleInv
        BY DEF Init, NeverStaleInv, NeverStale, MineHeld, Durable, Idle, Tasks, AtEnds
    <2>2. Secret
        BY DEF Init, Secret, Idle
    <2>3. InOrder
        <3>1. Len(db) = 0
            BY EmptySeq DEF Init
        <3>2. \A n \in Tokens, i \in 0..Len(db) : ~Spent(Line(i), n)
            BY <3>1 DEF Init, Spent, Line, Unknown
        <3> QED BY <3>2 DEF InOrder
    <2> QED BY <2>1, <2>2, <2>3 DEF OrderInv
<1>2. IInv /\ IInv' /\ NeverStaleInv /\ OrderInv /\ [Next]_vars => NeverStaleInv' /\ OrderInv'
    <2> SUFFICES ASSUME IInv, IInv', NeverStaleInv, OrderInv, [Next]_vars
                 PROVE  NeverStaleInv' /\ OrderInv'
        OBVIOUS
    <2>1. CASE Next
        BY <2>1, NeverStaleContinue, DbStepStays, NeverStaleOthers,
           OrderContinue, OrderDbStep, OrderOthers DEF Next
    <2>2. CASE UNCHANGED vars
        <3>1. UNCHANGED <<mem, task, disk, db, clears, issued, origin, lost>>
            BY <2>2 DEF vars
        <3>2. Held' = Held
            BY <3>1, HeldStays
        <3>3. NeverStaleInv'
            BY <3>1, <3>2 DEF NeverStaleInv, NeverStale, MineHeld, Durable, ClearPending, At
        <3>4. Secret'
            BY <3>1 DEF Secret, OrderInv
        <3>5. InOrder'
            BY <3>1, <3>2 DEF InOrder, OrderInv, Spent, Line, Given, Follows, At
        <3> QED BY <3>3, <3>4, <3>5 DEF OrderInv
    <2> QED BY <2>1, <2>2
<1>3. IInv /\ OrderInv => SpentOnlyUnderway
    <2> SUFFICES ASSUME IInv, OrderInv, disk \in (1..issued) \ Held,
                        NEW n \in 1..issued, origin[n].from = disk
                 PROVE  Underway(n) \/ n \in lost
        BY DEF SpentOnlyUnderway
    <2>1. n \in Tokens /\ 0 \in 0..Len(db)
        BY TasksOK, LenProperties DEF IInv, Typed, Tokens
    <2>2. Spent(Line(0), n)
        BY DEF Spent, Line
    <2>3. Given(n) \/ n \in lost \/ Follows(0, n)
        BY <2>1, <2>2 DEF InOrder, OrderInv
    <2> QED BY <2>3 DEF Given, Follows, Underway
<1> QED BY <1>1, <1>2, <1>3, Invariance, PTL DEF Spec

----------------------------------------------------------------------------
(* HubTransport: one hub session after another, and the stop.              *)

Places == {"polls", "negotiates", "refreshes", "upgrades", "connected", "handles", "cleans",
           "ended"}
HubTypes == [pc : Places, handshake : {1, 2}, negotiation : {1, 2},
             for : {"negotiates", "upgrades"}, leaving : BOOLEAN]
Stops == {"no", "waits", "insists", "done"}

\* HubTypeOK, with what a solver must treat apart.
Flags ==
    /\ ping \in BOOLEAN /\ ws \in BOOLEAN /\ http \in BOOLEAN /\ event \in BOOLEAN
    /\ orphan \in BOOLEAN
HubTyped ==
    /\ hub \in HubTypes /\ token \in {"good", "refused", "none"} /\ refreshes \in 0..3
    /\ stop \in Stops

\* The refreshes of a session are those its handshake and its negotiation
\* account for, and a refresh is asked for only by a first attempt.
Counted ==
    /\ hub.pc \in {"negotiates", "refreshes", "upgrades"} =>
          refreshes =< 2 * (hub.handshake - 1) + (hub.negotiation - 1)
    /\ hub.pc = "refreshes" =>
          \/ hub.for = "negotiates" /\ hub.negotiation = 1
          \/ hub.for = "upgrades" /\ hub.handshake = 1

HubInv == HubTyped /\ Counted /\ Flags /\ PingHasSession

LEMMA HubTypesAgree == HubTypeOK <=> HubTyped /\ Flags
BY Zenon DEF HubTypeOK, HubTyped, Flags, HubTypes, Places, Stops

\* The watcher outside a session, and where that may leave it.
LEMMA AtPolling ==
    /\ Polling \in HubTypes /\ Polling.pc = "polls"
    /\ \A place \in Places :
          /\ [Polling EXCEPT !.pc = place] \in HubTypes
          /\ [Polling EXCEPT !.pc = place].pc = place
BY DEF Polling, HubTypes, Places

\* Where a step that moves the watcher takes it.
LEMMA Moves ==
    ASSUME NEW place \in Places, hub \in HubTypes
    PROVE  /\ [hub EXCEPT !.pc = place] \in HubTypes
           /\ [hub EXCEPT !.pc = place].pc = place
BY DEF HubTypes, Places

\* A session is tried: with what attempt of the handshake and the negotiation.
LEMMA Attempts ==
    /\ [Polling EXCEPT !.pc = "negotiates"].handshake = 1
    /\ [Polling EXCEPT !.pc = "negotiates"].negotiation = 1
    /\ LET again == [Polling EXCEPT !.pc = "negotiates", !.handshake = 2]
       IN  /\ again \in HubTypes /\ again.pc = "negotiates"
           /\ again.handshake = 2 /\ again.negotiation = 1
    /\ hub \in HubTypes =>
          LET again == [hub EXCEPT !.pc = "negotiates", !.negotiation = 2]
          IN  /\ again \in HubTypes /\ again.pc = "negotiates"
              /\ again.handshake = hub.handshake /\ again.negotiation = 2
BY DEF Polling, HubTypes, Places

LEMMA HubInitially == HubInit => HubInv
<1> SUFFICES ASSUME HubInit PROVE HubInv
    OBVIOUS
<1>1. HubTyped
    BY AtPolling DEF HubInit, HubTyped, Stops
<1>2. Counted
    BY AtPolling DEF HubInit, Counted
<1>3. Flags /\ PingHasSession
    BY Zenon DEF HubInit, Flags, PingHasSession
<1>4. QED
    BY <1>1, <1>2, <1>3 DEF HubInv

\* Nothing but the position of the watcher, the token and the refreshes decides
\* how often a session asks for a refresh.
LEMMA RefreshesBounded == HubTyped /\ Counted /\ [HubNext]_hvars => (HubTyped /\ Counted)'
<1> SUFFICES ASSUME HubTyped, Counted, [HubNext]_hvars
             PROVE  (HubTyped /\ Counted)'
    OBVIOUS
<1> USE DEF HubTyped, HubTypes, Places, Stops, Counted, Goto
<1>1. CASE Listen
    <2>1. hub' \in HubTypes /\ hub'.pc = "negotiates"
        BY <1>1, AtPolling DEF Listen
    <2>2. hub'.handshake = 1 /\ hub'.negotiation = 1
        BY <1>1, Attempts DEF Listen
    <2>3. QED
        BY <1>1, <2>1, <2>2 DEF Listen
<1>2. CASE NegotiateRefused
    BY <1>2, AtPolling DEF NegotiateRefused
<1>3. CASE Negotiated
    BY <1>3 DEF Negotiated
<1>4. CASE UpgradeRefused
    BY <1>4, AtPolling DEF UpgradeRefused
<1>5. CASE Upgraded
    BY <1>5 DEF Upgraded
<1>6. CASE RequestFails
    BY <1>6, AtPolling DEF RequestFails
<1>7. CASE Refreshed
    <2>1. refreshes \in 0..2
        BY <1>7 DEF Refreshed
    <2>2. CASE hub' = Polling
        BY <1>7, <2>1, <2>2, AtPolling DEF Refreshed
    <2>3. CASE token' = "good" /\ hub.for = "negotiates"
               /\ hub' = [hub EXCEPT !.pc = "negotiates", !.negotiation = 2]
        <3>1. /\ hub' \in HubTypes /\ hub'.pc = "negotiates"
              /\ hub'.handshake = hub.handshake /\ hub'.negotiation = 2
            BY <2>3, Attempts
        <3>2. refreshes =< 2 * (hub.handshake - 1) /\ refreshes' = refreshes + 1
            BY <1>7, <2>3 DEF Refreshed
        <3>3. token' = "good" /\ stop' \in Stops
            BY <1>7, <2>3 DEF Refreshed
        <3>4. hub.handshake \in {1, 2}
            OBVIOUS
        <3>5. HubTyped'
            BY <2>1, <3>1, <3>2, <3>3
        <3>6. QED
            BY <2>1, <3>1, <3>2, <3>4, <3>5
    <2>4. CASE token' = "good" /\ hub.for # "negotiates"
               /\ hub' = [Polling EXCEPT !.pc = "negotiates", !.handshake = 2]
        <3>1. /\ hub' \in HubTypes /\ hub'.pc = "negotiates"
              /\ hub'.handshake = 2 /\ hub'.negotiation = 1
            BY <2>4, Attempts
        <3>2. refreshes =< 1 /\ refreshes' = refreshes + 1
            BY <1>7, <2>4 DEF Refreshed
        <3>3. token' = "good" /\ stop' \in Stops
            BY <1>7, <2>4 DEF Refreshed
        <3>4. HubTyped'
            BY <2>1, <3>1, <3>2, <3>3
        <3>5. QED
            BY <2>1, <3>1, <3>2, <3>4
    <2>5. QED
        BY <1>7, <2>2, <2>3, <2>4 DEF Refreshed
<1>8. CASE Push \/ Handled \/ Drops
    BY <1>8 DEF Push, Handled, Drops
<1>9. CASE HandlerFails
    BY <1>9, AtPolling DEF HandlerFails
<1>10. CASE CloseOrphan
    BY <1>10 DEF CloseOrphan
<1>11. CASE Cleaned
    <2>1. hub' \in HubTypes /\ hub'.pc \in {"ended", "polls"}
        BY <1>11, AtPolling DEF Cleaned
    <2>2. QED
        BY <1>11, <2>1 DEF Cleaned
<1>12. CASE PingEnds
    BY <1>12 DEF PingEnds
<1>13. ASSUME Cancelled, stop' \in Stops, UNCHANGED <<token, refreshes>>
       PROVE  (HubTyped /\ Counted)'
    <2>1. CASE hub.pc = "connected"
        BY <1>13, <2>1 DEF Cancelled
    <2>2. CASE hub.pc = "cleans"
        BY <1>13, <2>2 DEF Cancelled
    <2>3. CASE hub.pc \notin {"connected", "cleans"}
        BY <1>13, <2>3, AtPolling DEF Cancelled
    <2>4. QED
        BY <2>1, <2>2, <2>3
<1>14. CASE StopBegins \/ StopInsists
    BY <1>13, <1>14 DEF StopBegins, StopInsists
<1>15. CASE StopCloses
    BY <1>15 DEF StopCloses
<1>16. CASE TokenChanges
    BY <1>16 DEF TokenChanges
<1>17. CASE UNCHANGED hvars
    BY <1>17 DEF hvars
<1>18. QED
    BY <1>1, <1>2, <1>3, <1>4, <1>5, <1>6, <1>7, <1>8, <1>9, <1>10, <1>11, <1>12, <1>14,
       <1>15, <1>16, <1>17 DEF HubNext

LEMMA FlagsTyped == Flags /\ [HubNext]_hvars => Flags'
<1> SUFFICES ASSUME Flags, [HubNext]_hvars PROVE Flags'
    OBVIOUS
<1> USE DEF Flags, sockets
<1>1. CASE Listen \/ NegotiateRefused \/ Negotiated \/ UpgradeRefused \/ Upgraded \/ RequestFails
    BY <1>1, Zenon DEF Listen, NegotiateRefused, Negotiated, UpgradeRefused, Upgraded, RequestFails
<1>2. CASE Refreshed \/ Push \/ Handled \/ HandlerFails \/ CloseOrphan \/ Drops
    BY <1>2, Zenon DEF Refreshed, Push, Handled, HandlerFails, CloseOrphan, Drops
<1>3. CASE Cleaned \/ PingEnds \/ StopCloses \/ TokenChanges
    BY <1>3, Zenon DEF Cleaned, PingEnds, StopCloses, TokenChanges
<1>4. CASE StopBegins \/ StopInsists
    BY <1>4, Zenon DEF StopBegins, StopInsists, Cancelled
<1>5. CASE UNCHANGED hvars
    BY <1>5, Zenon DEF hvars
<1>6. QED
    BY <1>1, <1>2, <1>3, <1>4, <1>5 DEF HubNext

\* A keepalive task is started by the session that connects, and every way out
\* of that session ends it or leaves the session to be closed.
LEMMA PingsInSession ==
    HubTyped /\ PingHasSession /\ [HubNext]_hvars => PingHasSession'
<1> SUFFICES ASSUME HubTyped, PingHasSession, [HubNext]_hvars, ping'
             PROVE  hub'.pc \in {"connected", "handles", "cleans"} \/ orphan'
    BY DEF PingHasSession
<1> USE DEF HubTyped, PingHasSession, sockets, Goto, Places
<1>1. CASE Listen \/ NegotiateRefused \/ Negotiated \/ UpgradeRefused \/ RequestFails \/ Refreshed
    BY <1>1 DEF Listen, NegotiateRefused, Negotiated, UpgradeRefused, RequestFails, Refreshed
<1>2. CASE Upgraded \/ Push \/ Handled \/ Drops
    BY <1>2, Moves DEF Upgraded, Push, Handled, Drops
<1>3. CASE HandlerFails \/ CloseOrphan \/ Cleaned \/ PingEnds \/ StopCloses \/ TokenChanges
    BY <1>3 DEF HandlerFails, CloseOrphan, Cleaned, PingEnds, StopCloses, TokenChanges
<1>4. ASSUME Cancelled, ping
      PROVE  hub'.pc \in {"connected", "handles", "cleans"} \/ orphan'
    <2>1. CASE hub.pc = "connected"
        BY <1>4, <2>1 DEF Cancelled, HubTypes
    <2>2. CASE hub.pc = "cleans"
        BY <1>4, <2>2 DEF Cancelled
    <2>3. CASE hub.pc \notin {"connected", "cleans"}
        BY <1>4, <2>3 DEF Cancelled
    <2>4. QED
        BY <2>1, <2>2, <2>3
<1>5. CASE StopBegins \/ StopInsists
    BY <1>4, <1>5 DEF StopBegins, StopInsists
<1>6. CASE UNCHANGED hvars
    BY <1>6 DEF hvars
<1>7. QED
    BY <1>1, <1>2, <1>3, <1>5, <1>6 DEF HubNext

LEMMA HubInvariance == HubInv /\ [HubNext]_hvars => HubInv'
BY RefreshesBounded, FlagsTyped, PingsInSession DEF HubInv

\* However often the token expires and whatever fails, a hub session asks for at
\* most three refreshes, and its keepalive task does not outlive it, stops
\* included.
THEOREM HubIsSafe == HubSpec => []HubSafe
<1>1. HubInv => HubSafe
    BY HubTypesAgree DEF HubInv, HubSafe
<1>2. QED
    BY HubInitially, HubInvariance, <1>1, PTL DEF HubSpec

=============================================================================
