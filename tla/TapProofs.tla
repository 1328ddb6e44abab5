------------------------------ MODULE TapProofs ------------------------------
(***************************************************************************)
(* Proofs about what a tap goes through, for any keys, handlers and        *)
(* limits.  ActionCooldown: the table of marks is typed and bounded, and   *)
(* an action is not requested twice within the timeout except as           *)
(* RateLimited says.  CardControls: the invariant says what a handler      *)
(* knows of the card it is going to draw: what it was given as done has    *)
(* been done, and what it was given as live is live still, or has changed  *)
(* since the tap.                                                          *)
(***************************************************************************)
EXTENDS ActionCooldown, CardControls, FiniteSetTheorems, TLAPS

\* The variables' types, and the bound that GivenUp enforces.
Typed ==
    /\ mark \in [Keys -> Age \cup {None}]
    /\ task \in [Tasks -> [pc : {"idle", "ack", "post"}, key : Keys, late : BOOLEAN]]
    /\ past \in [Keys -> [age : Age, released : BOOLEAN]]

\* The last request is older than the timeout, or its mark was given up.
Over(k) == past[k].age = Timeout \/ past[k].released

\* A request that is not over is the one its key's mark remembers.
Remembered == \A k \in Keys : ~Over(k) => mark[k] = past[k].age

\* A tap that was let through found its key ready, or somebody marked the
\* key since.
LetThrough ==
    \A t \in Tasks : task[t].pc = "ack" => task[t].late \/ Over(task[t].key)

Bounded == Cardinality(Held) =< MaxEntries

IInv == Typed /\ Bounded /\ Remembered /\ LetThrough

LEMMA IdleTyped ==
    Idle \in [pc : {"idle", "ack", "post"}, key : Keys, late : BOOLEAN]
<1>1. (CHOOSE k \in Keys : TRUE) \in Keys
    BY LimitsOK
<1> QED BY <1>1 DEF Idle

LEMMA InitIInv == Init => IInv
<1> SUFFICES ASSUME Init PROVE IInv
    OBVIOUS
<1>1. Typed
    BY IdleTyped, LimitsOK DEF Init, Typed, Age
<1>2. Held = {}
    BY DEF Init, Held
<1>3. Bounded
    BY <1>2, FS_EmptySet, LimitsOK DEF Bounded
<1>4. Remembered
    BY LimitsOK DEF Init, Remembered, Over
<1>5. LetThrough
    BY DEF Init, LetThrough, Idle
<1> QED BY <1>1, <1>3, <1>4, <1>5 DEF IInv

\* A ready key has no request that is not over.
LEMMA ReadyIsOver ==
    ASSUME IInv, NEW k \in Keys, Ready(k)
    PROVE  Over(k)
BY LimitsOK DEF IInv, Typed, Remembered, Ready, Over, None, Age

\* Dropping marks, or changing none, keeps the bound.
LEMMA FewerHeld ==
    ASSUME Bounded, Held' \subseteq Held
    PROVE  Bounded'
<1>1. IsFiniteSet(Held)
    BY FS_Subset, LimitsOK DEF Held
<1>2. Cardinality(Held') =< Cardinality(Held) /\ IsFiniteSet(Held')
    BY <1>1, FS_Subset
<1>3. Cardinality(Held) \in Nat /\ Cardinality(Held') \in Nat
    BY <1>1, <1>2, FS_CardinalityType
<1> QED BY <1>2, <1>3, LimitsOK DEF Bounded

\* What Request leaves: the new mark and history, and the bound.
LEMMA RequestTyped ==
    ASSUME IInv, NEW t \in Tasks, NEW k \in Keys, Request(t, k)
    PROVE  Typed'
<1>1. PICK gone \in GivenUp(k) : Mark(k, gone) /\
        past' = [j \in Keys |->
                   IF j = k THEN [age |-> 0, released |-> FALSE]
                   ELSE IF j \in gone THEN [past[j] EXCEPT !.released = TRUE]
                   ELSE past[j]]
    BY DEF Request
<1>2. mark' \in [Keys -> Age \cup {None}]
    BY <1>1, LimitsOK DEF Mark, Age, IInv, Typed
<1>3. past' \in [Keys -> [age : Age, released : BOOLEAN]]
    <2>1. ASSUME NEW j \in Keys
          PROVE  [past[j] EXCEPT !.released = TRUE] \in [age : Age, released : BOOLEAN]
        BY DEF IInv, Typed
    <2>2. [age |-> 0, released |-> FALSE] \in [age : Age, released : BOOLEAN]
        BY LimitsOK DEF Age
    <2>3. past \in [Keys -> [age : Age, released : BOOLEAN]]
        BY DEF IInv, Typed
    <2> QED BY <1>1, <2>1, <2>2, <2>3
<1>4. task' \in [Tasks -> [pc : {"idle", "ack", "post"}, key : Keys, late : BOOLEAN]]
    <2> DEFINE R == [pc : {"idle", "ack", "post"}, key : Keys, late : BOOLEAN]
    <2>1. ASSUME NEW s \in Tasks
          PROVE  [task[s] EXCEPT !.late = TRUE] \in R /\ task[s] \in R
        BY DEF IInv, Typed
    <2>2. [pc |-> "post", key |-> k, late |-> FALSE] \in R
        OBVIOUS
    <2> HIDE DEF R
    <2>3. task' \in [Tasks -> R]
        BY <2>1, <2>2 DEF Request
    <2> QED BY <2>3 DEF R
<1> QED BY <1>2, <1>3, <1>4 DEF Typed

LEMMA RequestBounded ==
    ASSUME IInv, NEW t \in Tasks, NEW k \in Keys, Request(t, k)
    PROVE  Bounded'
<1>1. PICK gone \in GivenUp(k) : Mark(k, gone)
    BY DEF Request
<1>2. Held' \subseteq (Held \ gone) \cup {k}
    BY <1>1, LimitsOK DEF Held, Mark, None, IInv, Typed
<1>3. IsFiniteSet(Held) /\ Cardinality(Held) \in Nat /\ Cardinality(Held) =< MaxEntries
    BY FS_Subset, FS_CardinalityType, LimitsOK DEF Held, IInv, Bounded
<1>4. CASE k \in Held /\ gone = {}
    <2>1. Held' \subseteq Held
        BY <1>2, <1>4
    <2> QED BY <2>1, FewerHeld DEF IInv
<1>5. CASE k \notin Held /\ Cardinality(Held) < MaxEntries /\ gone = {}
    <2>1. IsFiniteSet(Held \cup {k}) /\ Cardinality(Held \cup {k}) = Cardinality(Held) + 1
        BY <1>3, <1>5, FS_AddElement
    <2>2. Held' \subseteq Held \cup {k}
        BY <1>2, <1>5
    <2>3. Cardinality(Held') =< Cardinality(Held) + 1 /\ Cardinality(Held') \in Nat
        BY <2>1, <2>2, FS_Subset, FS_CardinalityType
    <2> QED BY <1>3, <1>5, <2>3, LimitsOK DEF Bounded
<1>6. CASE k \notin Held /\ \E j \in gone : j \in Held
    <2>1. PICK j \in gone : j \in Held
        BY <1>6
    <2>2. IsFiniteSet(Held \ {j}) /\ Cardinality(Held \ {j}) = Cardinality(Held) - 1
        BY <1>3, <2>1, FS_RemoveElement
    <2>3. IsFiniteSet((Held \ {j}) \cup {k})
          /\ Cardinality((Held \ {j}) \cup {k}) = Cardinality(Held \ {j}) + 1
        BY <1>6, <2>2, FS_AddElement
    <2>4. Held' \subseteq (Held \ {j}) \cup {k}
        BY <1>2, <2>1
    <2>5. Cardinality(Held') =< Cardinality(Held) /\ Cardinality(Held') \in Nat
        BY <1>3, <2>2, <2>3, <2>4, FS_Subset, FS_CardinalityType
    <2> QED BY <1>3, <2>5, LimitsOK DEF Bounded
<1>7. (k \in Held /\ gone = {}) \/ (k \notin Held /\ Cardinality(Held) < MaxEntries /\ gone = {})
      \/ (k \notin Held /\ \E j \in gone : j \in Held)
    BY <1>1 DEF GivenUp, Expired
<1> QED BY <1>4, <1>5, <1>6, <1>7

LEMMA RequestRemembers ==
    ASSUME IInv, NEW t \in Tasks, NEW k \in Keys, Request(t, k)
    PROVE  Remembered' /\ LetThrough'
<1>1. PICK gone \in GivenUp(k) :
        /\ Mark(k, gone)
        /\ past' = [j \in Keys |->
                      IF j = k THEN [age |-> 0, released |-> FALSE]
                      ELSE IF j \in gone THEN [past[j] EXCEPT !.released = TRUE]
                      ELSE past[j]]
    BY DEF Request
<1>2. ASSUME NEW j \in Keys, ~Over(j)'
      PROVE  mark'[j] = past'[j].age
    <2>1. CASE j = k
        BY <1>1, <2>1 DEF Mark
    <2>2. CASE j # k
        <3>1. j \notin gone
            BY <1>1, <1>2, <2>2 DEF Over, IInv, Typed
        <3>2. past'[j] = past[j] /\ mark'[j] = mark[j]
            BY <1>1, <2>2, <3>1 DEF Mark
        <3> QED BY <1>2, <3>2 DEF Over, IInv, Remembered
    <2> QED BY <2>1, <2>2
<1>3. ASSUME NEW j \in Keys, j # k, Over(j)
      PROVE  Over(j)'
    BY <1>1, <1>3 DEF Over, IInv, Typed
<1>4. ASSUME NEW s \in Tasks, task'[s].pc = "ack"
      PROVE  (task[s].late \/ Over(task[s].key))'
    <2>1. s # t /\ task[s].pc = "ack"
        BY <1>4 DEF Request, IInv, Typed
    <2>2. CASE task[s].key = k
        BY <2>1, <2>2 DEF Request, IInv, Typed
    <2>3. CASE task[s].key # k
        <3>1. task'[s] = task[s] /\ task[s].key \in Keys
            BY <2>1, <2>3 DEF Request, IInv, Typed
        <3>2. task[s].late \/ Over(task[s].key)
            BY <2>1 DEF IInv, LetThrough
        <3> QED BY <1>3, <2>3, <3>1, <3>2
    <2> QED BY <2>2, <2>3
<1> QED BY <1>2, <1>4 DEF Remembered, LetThrough, Over

LEMMA RequestKeeps ==
    ASSUME IInv, NEW t \in Tasks, NEW k \in Keys, Request(t, k)
    PROVE  IInv'
BY RequestTyped, RequestBounded, RequestRemembers DEF IInv

LEMMA NextIInv == IInv /\ [Next]_vars => IInv'
<1> SUFFICES ASSUME IInv, [Next]_vars
             PROVE  IInv'
    OBVIOUS
<1>1. ASSUME NEW t \in Tasks, NEW k \in Keys, Tap(t, k)
      PROVE  IInv'
    <2>1. UNCHANGED <<mark, past>>
        BY <1>1 DEF Tap
    <2>2. Bounded' /\ Remembered'
        BY <2>1 DEF IInv, Bounded, Held, Remembered, Over
    <2>3. CASE UNCHANGED task
        BY <2>1, <2>2, <2>3 DEF IInv, Typed, LetThrough, Over
    <2>4. CASE /\ Ready(k)
               /\ task' = [task EXCEPT ![t] = [pc |-> "ack", key |-> k, late |-> FALSE]]
        <3>1. Over(k)
            BY <2>4, ReadyIsOver
        <3>2. Typed'
            BY <2>1, <2>4 DEF IInv, Typed
        <3>3. LetThrough'
            BY <2>1, <2>4, <3>1 DEF IInv, Typed, LetThrough, Over
        <3> QED BY <2>2, <3>2, <3>3 DEF IInv
    <2>5. \/ UNCHANGED task
          \/ /\ Ready(k)
             /\ task' = [task EXCEPT ![t] = [pc |-> "ack", key |-> k, late |-> FALSE]]
        BY <1>1, Zenon DEF Tap
    <2> QED BY <2>3, <2>4, <2>5
<1>2. ASSUME NEW t \in Tasks, NEW k \in Keys, Command(t, k)
      PROVE  IInv'
    <2>1. CASE Request(t, k)
        BY <2>1, RequestKeeps
    <2>2. CASE UNCHANGED vars
        BY <2>2 DEF vars, IInv, Typed, Bounded, Remembered, LetThrough, Over, Held
    <2>3. Request(t, k) \/ UNCHANGED vars
        BY <1>2, Zenon DEF Command
    <2> QED BY <2>1, <2>2, <2>3
<1>3. ASSUME NEW t \in Tasks, Acknowledged(t)
      PROVE  IInv'
    BY <1>3, RequestKeeps DEF Acknowledged, IInv, Typed
<1>4. ASSUME NEW t \in Tasks, NotAcknowledged(t) \/ Succeeds(t)
      PROVE  IInv'
    <2>1. End(t) /\ UNCHANGED <<mark, past>>
        BY <1>4 DEF NotAcknowledged, Succeeds
    <2>2. Typed'
        BY <2>1, IdleTyped DEF End, IInv, Typed
    <2>3. Bounded' /\ Remembered'
        BY <2>1 DEF IInv, Bounded, Held, Remembered, Over
    <2>4. LetThrough'
        BY <2>1 DEF End, Idle, IInv, Typed, LetThrough, Over
    <2> QED BY <2>2, <2>3, <2>4 DEF IInv
<1>5. ASSUME NEW t \in Tasks, Fails(t)
      PROVE  IInv'
    <2>1. PICK k \in Keys : k = task[t].key
        BY DEF IInv, Typed
    <2>2. Typed'
        BY <1>5, IdleTyped DEF Fails, End, IInv, Typed, Age
    <2>3. Held' \subseteq Held
        BY <1>5 DEF Fails, Held, IInv, Typed
    <2>4. Bounded'
        BY <2>3, FewerHeld DEF IInv
    <2>5. Over(k)' /\ \A j \in Keys : Over(j) => Over(j)'
        BY <1>5, <2>1 DEF Fails, Over, IInv, Typed
    <2>6. ASSUME NEW j \in Keys, ~Over(j)'
          PROVE  mark'[j] = past'[j].age
        <3>1. j # k
            BY <2>5, <2>6
        <3>2. past'[j] = past[j] /\ mark'[j] = mark[j]
            BY <1>5, <2>1, <3>1 DEF Fails, IInv, Typed
        <3> QED BY <2>5, <2>6, <3>2 DEF IInv, Remembered
    <2>7. ASSUME NEW s \in Tasks, task'[s].pc = "ack"
          PROVE  (task[s].late \/ Over(task[s].key))'
        <3>1. task'[s] = task[s]
            BY <1>5, <2>7 DEF Fails, End, Idle, IInv, Typed
        <3> QED BY <2>5, <2>7, <3>1 DEF IInv, Typed, LetThrough
    <2> QED BY <2>2, <2>4, <2>6, <2>7 DEF IInv, Remembered, LetThrough, Over
<1>6. ASSUME Tick
      PROVE  IInv'
    <2>1. \A a \in Age : Older(a) \in Age /\ (Older(a) # Timeout => a # Timeout)
        BY LimitsOK DEF Older, Age
    <2>2. Older(None) = None
        BY LimitsOK DEF Older, None
    <2>3. Typed'
        BY <1>6, <2>1, <2>2 DEF Tick, IInv, Typed
    <2>4. Held' \subseteq Held
        BY <1>6, <2>2 DEF Tick, Held
    <2>5. Bounded'
        BY <2>4, FewerHeld DEF IInv
    <2>6. \A j \in Keys : Over(j) => Over(j)'
        BY <1>6, LimitsOK DEF Tick, Older, Over, IInv, Typed
    <2>7. ASSUME NEW j \in Keys, ~Over(j)'
          PROVE  mark'[j] = past'[j].age
        <3>1. mark[j] = past[j].age
            BY <2>6, <2>7 DEF IInv, Remembered
        <3> QED BY <1>6, <3>1 DEF Tick, IInv, Typed
    <2>8. LetThrough'
        BY <1>6, <2>6 DEF Tick, IInv, Typed, LetThrough
    <2> QED BY <2>3, <2>5, <2>7, <2>8 DEF IInv, Remembered, Over
<1>7. CASE UNCHANGED vars
    BY <1>7 DEF vars, IInv, Typed, Bounded, Remembered, LetThrough, Over, Held
<1> QED BY <1>1, <1>2, <1>3, <1>4, <1>5, <1>6, <1>7 DEF Next, Handler

\* In every reachable state IInv holds.
THEOREM Invariance == Spec => []IInv
BY InitIInv, NextIInv, PTL DEF Spec

\* Every variable has its type and the table of marks its bound, for any
\* keys, handlers and limits (_MAX_COOLDOWN_ENTRIES, clear_expired).
THEOREM TypeCorrect == Spec => []TypeOK
<1>1. IInv => TypeOK
    BY DEF IInv, Typed, Bounded, TypeOK
<1> QED BY <1>1, Invariance, PTL

\* For any keys, handlers and limits, opening a door and answering or ending
\* a call are repeated within the timeout only after a failure, an eviction,
\* or by taps that overlapped the last request.
THEOREM RepeatsLimited == Spec => RateLimited
<1> DEFINE Allowed(t) ==
        (task[t].pc # "post" /\ task'[t].pc = "post") =>
            LET k == task'[t].key
            IN  \/ past[k].age = Timeout
                \/ past[k].released
                \/ task[t].pc = "ack" /\ task[t].late
<1>1. ASSUME IInv, [Next]_vars, NEW t \in Tasks
      PROVE  Allowed(t)
    <2> SUFFICES ASSUME task[t].pc # "post", task'[t].pc = "post"
                 PROVE  \/ Over(task'[t].key)
                        \/ task[t].pc = "ack" /\ task[t].late
        BY DEF Over
    <2>1. ASSUME NEW s \in Tasks, NEW k \in Keys, Tap(s, k)
          PROVE  FALSE
        BY <1>1, <2>1 DEF Tap, IInv, Typed
    <2>2. ASSUME NEW s \in Tasks, NotAcknowledged(s) \/ Succeeds(s) \/ Fails(s)
          PROVE  FALSE
        <3>1. End(s)
            BY <2>2 DEF NotAcknowledged, Succeeds, Fails
        <3> QED BY <1>1, <3>1 DEF End, Idle, IInv, Typed
    <2>3. CASE Tick \/ UNCHANGED vars
        BY <2>3 DEF Tick, vars
    <2>4. ASSUME NEW s \in Tasks, NEW k \in Keys, Request(s, k)
          PROVE  s = t /\ task'[t].key = k
        BY <1>1, <2>4 DEF Request, IInv, Typed
    <2>5. ASSUME NEW s \in Tasks, Acknowledged(s)
          PROVE  task[t].late \/ Over(task'[t].key)
        <3>1. s = t /\ task'[t].key = task[t].key /\ task[t].pc = "ack"
            BY <1>1, <2>4, <2>5 DEF Acknowledged, IInv, Typed
        <3> QED BY <1>1, <3>1 DEF IInv, LetThrough
    <2>6. ASSUME NEW s \in Tasks, NEW k \in Keys, Command(s, k)
          PROVE  Over(task'[t].key)
        <3>1. CASE Ready(k)
            BY <1>1, <2>4, <2>6, <3>1, ReadyIsOver DEF Command
        <3>2. CASE ~Ready(k)
            BY <2>6, <3>2 DEF Command, vars
        <3> QED BY <3>1, <3>2
    <2>7. ASSUME NEW s \in Tasks, Acknowledged(s)
          PROVE  task[t].pc = "ack"
        BY <1>1, <2>4, <2>7 DEF Acknowledged, IInv, Typed
    <2> QED BY <1>1, <2>1, <2>2, <2>3, <2>5, <2>6, <2>7 DEF Next, Handler
<1>2. IInv /\ [Next]_vars => [\A t \in Tasks : Allowed(t)]_vars
    BY <1>1
<1> QED BY <1>2, Invariance, PTL DEF Spec, RateLimited

----------------------------------------------------------------------------
(* The controls of a card.                                                 *)

CardTask == [pc : {"idle", "asked", "edits"}, row : Rows, saw : Controls]

\* What the card and the messages the handlers hold say is done, is done.
DoneIn(controls, rows) == \A r \in Rows : controls[r] = "done" => r \in rows

\* A control a handler was given live has not changed, unless it missed that.
Known(h) ==
    tap[h].pc # "idle" =>
        \A r \in Rows : (tap[h].saw[r] = "live" /\ card[r] # "live") => r \in missed[h]

CardInv ==
    /\ CardTypeOK
    /\ DoneIn(card, did)
    /\ \A h \in Handlers : DoneIn(tap[h].saw, did)
    /\ \A h \in Handlers : Known(h)

----------------------------------------------------------------------------

LEMMA InitialControls ==
    /\ Fresh \in Controls /\ Bare \in Controls /\ NoTap \in CardTask
    /\ \A r \in Rows : Bare[r] = "none" /\ Fresh[r] = "live"
BY DEF Fresh, Bare, NoTap, CardTask, Controls, Rows

\* Marking a row leaves the others, and a row it leaves live was live.
LEMMA MarkedFacts ==
    ASSUME NEW saw \in Controls, NEW row \in Rows, NEW success \in BOOLEAN,
           NEW rows, DoneIn(saw, rows)
    PROVE  /\ Marked(saw, row, success) \in Controls
           /\ DoneIn(Marked(saw, row, success), IF success THEN rows \cup {row} ELSE rows)
           /\ \A r \in Rows : Marked(saw, row, success)[r] = "live" => saw[r] = "live"
<1>1. CASE success
    BY <1>1 DEF Marked, Controls, DoneIn
<1>2. CASE ~success
    BY <1>2 DEF Marked, DoneIn
<1> QED BY <1>1, <1>2

LEMMA CardInitially == CardInit => CardInv
<1> SUFFICES ASSUME CardInit PROVE CardInv
    OBVIOUS
<1>1. CardTypeOK
    BY InitialControls DEF CardInit, CardTypeOK, CardTask
<1>2. DoneIn(card, did)
    BY InitialControls DEF CardInit, DoneIn
<1>3. \A h \in Handlers : DoneIn(tap[h].saw, did) /\ Known(h)
    BY InitialControls DEF CardInit, DoneIn, Known, NoTap
<1> QED BY <1>1, <1>2, <1>3 DEF CardInv

\* The tap of one handler changes and the card does not: enough to look at
\* what that handler holds.
LEMMA OneHandler ==
    ASSUME CardInv, NEW h \in Handlers, NEW t \in CardTask,
           tap' = [tap EXCEPT ![h] = t],
           UNCHANGED <<card, tracked>>, did' \subseteq Rows, did \subseteq did',
           missed' \in [Handlers -> SUBSET Rows],
           \A g \in Handlers : g # h => missed'[g] = missed[g],
           DoneIn(t.saw, did'),
           t.pc # "idle" =>
               \A r \in Rows : (t.saw[r] = "live" /\ card[r] # "live") => r \in missed'[h]
    PROVE  CardInv'
<1>1. CardTypeOK'
    BY DEF CardInv, CardTypeOK, CardTask
<1>2. DoneIn(card, did)'
    BY DEF CardInv, DoneIn
<1>3. ASSUME NEW g \in Handlers PROVE DoneIn(tap[g].saw, did)' /\ Known(g)'
    <2>1. CASE g = h
        BY <2>1 DEF CardInv, CardTypeOK, DoneIn, Known
    <2>2. CASE g # h
        BY <1>3, <2>2 DEF CardInv, CardTypeOK, DoneIn, Known
    <2> QED BY <2>1, <2>2
<1> QED BY <1>1, <1>2, <1>3 DEF CardInv

\* The card changes: every handler misses what changed.
LEMMA CardChanges ==
    ASSUME CardInv, card' \in Controls, DoneIn(card', did),
           tracked' \in BOOLEAN, UNCHANGED did,
           tap' \in [Handlers -> CardTask],
           \A g \in Handlers : tap'[g] = tap[g] \/ tap'[g] = NoTap,
           missed' = [g \in Handlers |-> missed[g] \cup {r \in Rows : card[r] # card'[r]}]
    PROVE  CardInv'
<1>1. CardTypeOK'
    BY DEF CardInv, CardTypeOK, CardTask
<1>2. DoneIn(card, did)'
    BY DEF DoneIn
<1>3. ASSUME NEW g \in Handlers PROVE DoneIn(tap[g].saw, did)' /\ Known(g)'
    <2>1. CASE tap'[g] = NoTap
        BY <2>1, InitialControls DEF NoTap, DoneIn, Known
    <2>2. CASE tap'[g] = tap[g]
        <3>1. DoneIn(tap[g].saw, did)'
            BY <1>3, <2>2 DEF CardInv, DoneIn
        <3>2. ASSUME NEW r \in Rows, tap[g].pc # "idle", tap[g].saw[r] = "live",
                     card'[r] # "live"
              PROVE  r \in missed'[g]
            BY <1>3, <3>2 DEF CardInv, Known
        <3> QED BY <2>2, <3>1, <3>2 DEF Known
    <2> QED BY <1>3, <2>1, <2>2
<1> QED BY <1>1, <1>2, <1>3 DEF CardInv

LEMMA CardKeeps == CardInv /\ [CardNext]_cvars => CardInv'
<1> SUFFICES ASSUME CardInv, [CardNext]_cvars PROVE CardInv'
    OBVIOUS
<1>1. ASSUME NEW h \in Handlers
      PROVE  /\ tap[h] \in CardTask /\ tap[h].saw \in Controls /\ tap[h].row \in Rows
             /\ DoneIn(tap[h].saw, did) /\ Known(h)
             /\ card \in Controls /\ did \subseteq Rows /\ tracked \in BOOLEAN
             /\ tap \in [Handlers -> CardTask]
             /\ missed \in [Handlers -> SUBSET Rows]
    BY <1>1 DEF CardInv, CardTypeOK, CardTask
<1>2. DoneIn(NoTap.saw, did)
    BY InitialControls DEF NoTap, DoneIn
<1>3. CASE CallEnded
    <2>1. card' \in Controls /\ DoneIn(card', did)
        BY <1>3, InitialControls DEF CallEnded, CardInv, CardTypeOK, DoneIn
    <2> QED BY <1>3, <2>1, CardChanges DEF CallEnded, CardInv, CardTypeOK, CardTask
<1>4. ASSUME NEW h \in Handlers, NEW row \in Rows, TapControl(h, row) PROVE CardInv'
    <2> DEFINE t == [pc |-> "asked", row |-> row, saw |-> card]
    <2>1. t \in CardTask /\ DoneIn(t.saw, did) /\ t.saw = card
        BY <1>1, <1>4 DEF CardTask, CardInv
    <2>2. /\ missed' \in [Handlers -> SUBSET Rows]
          /\ \A g \in Handlers : g # h => missed'[g] = missed[g]
        BY <1>1, <1>4 DEF TapControl
    <2>3. tap' = [tap EXCEPT ![h] = t] /\ UNCHANGED <<card, tracked, did>>
        BY <1>4 DEF TapControl
    <2> HIDE DEF t
    <2> QED BY <1>1, <2>1, <2>2, <2>3, OneHandler
<1>5. ASSUME NEW h \in Handlers, Refused(h) \/ NotDrawn(h) PROVE CardInv'
    <2>1. tap' = [tap EXCEPT ![h] = NoTap] /\ UNCHANGED <<card, tracked, did, missed>>
        BY <1>5 DEF Refused, NotDrawn
    <2> QED BY <1>1, <1>2, <2>1, InitialControls, OneHandler DEF NoTap
<1>6. ASSUME NEW h \in Handlers, Drawn(h) PROVE CardInv'
    <2>1. card' \in Controls /\ DoneIn(card', did)
        BY <1>1, <1>6 DEF Drawn
    <2>2. /\ tap' \in [Handlers -> CardTask]
          /\ \A g \in Handlers : tap'[g] = tap[g] \/ tap'[g] = NoTap
        BY <1>1, <1>6, InitialControls DEF Drawn
    <2> QED BY <1>1, <1>6, <2>1, <2>2, CardChanges DEF Drawn
<1>7. ASSUME NEW h \in Handlers, NEW success \in BOOLEAN, Answered(h, success) PROVE CardInv'
    <2> DEFINE m == Marked(tap[h].saw, tap[h].row, success)
               t == [pc |-> "edits", row |-> tap[h].row, saw |-> m]
    <2>1. /\ tap' = [tap EXCEPT ![h] = t] /\ UNCHANGED <<card, tracked, missed>>
          /\ did' = (IF success THEN did \cup {tap[h].row} ELSE did)
          /\ tap[h].pc = "asked"
        BY <1>7 DEF Answered
    <2>2. /\ m \in Controls /\ DoneIn(m, did')
          /\ \A r \in Rows : m[r] = "live" => tap[h].saw[r] = "live"
        BY <1>1, <1>7, <2>1, MarkedFacts
    <2> HIDE DEF m
    <2>3. t \in CardTask /\ t.saw = m
        BY <1>1, <1>7, <2>2 DEF CardTask
    <2>4. \A r \in Rows : (m[r] = "live" /\ card[r] # "live") => r \in missed'[h]
        BY <1>1, <1>7, <2>1, <2>2 DEF Known
    <2>5. did' \subseteq Rows /\ did \subseteq did'
        BY <1>1, <1>7, <2>1
    <2> HIDE DEF t
    <2> QED BY <1>1, <1>7, <2>1, <2>2, <2>3, <2>4, <2>5, OneHandler
<1>8. CASE UNCHANGED cvars
    BY <1>8 DEF cvars, CardInv, CardTypeOK, DoneIn, Known
<1> QED BY <1>3, <1>4, <1>5, <1>6, <1>7, <1>8 DEF CardNext

LEMMA CardInvariance == CardSpec => []CardInv
BY CardInitially, CardKeeps, PTL DEF CardSpec

----------------------------------------------------------------------------

\* Type correctness of the card and the taps on it, for any handlers.
THEOREM CardTypeCorrect == CardSpec => []CardTypeOK
<1>1. CardInv => CardTypeOK
    BY DEF CardInv
<1> QED BY <1>1, CardInvariance, PTL

\* However many taps overlap, fail or are refused, the card never says that a
\* door was opened or a call taken that was not.
THEOREM NoFalseDone == CardSpec => []ShownDoneWasDone
<1>1. CardInv => ShownDoneWasDone
    BY DEF CardInv, DoneIn, ShownDoneWasDone
<1> QED BY <1>1, CardInvariance, PTL

\* A control comes back to life only by the edit of a tap that was given it
\* live and has missed its end.
THEOREM RevivalsAreOverlaps == CardSpec => RevivedOnlyByOverlap
<1> DEFINE A ==
        \A r \in Rows :
            (card[r] # "live" /\ card'[r] = "live") =>
                \E h \in Handlers : tap[h].pc = "edits" /\ r \in missed[h]
<1>1. CardInv /\ [CardNext]_cvars => [A]_cvars
    <2> SUFFICES ASSUME CardInv, CardNext, NEW r \in Rows,
                        card[r] # "live", card'[r] = "live"
                 PROVE  \E h \in Handlers : tap[h].pc = "edits" /\ r \in missed[h]
        BY DEF cvars
    <2>1. CASE CallEnded
        BY <2>1, InitialControls DEF CallEnded
    <2>2. ASSUME NEW h \in Handlers, Drawn(h)
          PROVE  tap[h].pc = "edits" /\ r \in missed[h]
        BY <2>2 DEF Drawn, CardInv, Known
    <2>3. ASSUME NEW h \in Handlers,
                 \/ \E row \in Rows : TapControl(h, row)
                 \/ Refused(h) \/ NotDrawn(h)
                 \/ \E success \in BOOLEAN : Answered(h, success)
          PROVE  card' = card
        BY <2>3 DEF TapControl, Refused, NotDrawn, Answered
    <2> QED BY <2>1, <2>2, <2>3 DEF CardNext
<1> HIDE DEF A
<1>2. CardSpec => [][A]_cvars
    BY <1>1, CardInvariance, PTL DEF CardSpec
<1> QED BY <1>2 DEF RevivedOnlyByOverlap, A

=============================================================================
