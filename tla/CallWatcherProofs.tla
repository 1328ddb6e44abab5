------------------------- MODULE CallWatcherProofs -------------------------
(***************************************************************************)
(* Proofs about CallWatcher, for any users, calls and limits: its type     *)
(* invariant, that the two bounded caches stay consistent with each other  *)
(* and with the round in progress, that no seen id is dropped while the    *)
(* log page or a queue can bring its call up again, and that the watcher   *)
(* implements CallNotice, also when it forgets.                            *)
(***************************************************************************)
EXTENDS CallWatcher, FiniteSetTheorems, SequenceTheorems, TLAPS

----------------------------------------------------------------------------
(* Sequences without duplicates.                                           *)

\* Membership in the range of a sequence, by index.
LEMMA InRange ==
    ASSUME NEW S, NEW s \in Seq(S), NEW x
    PROVE  x \in Range(s) <=> \E i \in 1..Len(s) : s[i] = x
BY DEF Range

\* Removing an element of a duplicate-free sequence removes it altogether.
LEMMA RemoveFirstFacts ==
    ASSUME NEW S, NEW s \in Seq(S), NEW e, Distinct(s)
    PROVE  /\ RemoveFirst(s, e) \in Seq(S)
           /\ Distinct(RemoveFirst(s, e))
           /\ Range(RemoveFirst(s, e)) = Range(s) \ {e}
           /\ Len(RemoveFirst(s, e)) =< Len(s)
           /\ e \in Range(s) => Len(RemoveFirst(s, e)) = Len(s) - 1
<1>1. CASE \A i \in 1..Len(s) : s[i] # e
    <2>1. RemoveFirst(s, e) = s
        BY <1>1 DEF RemoveFirst, SelectInSeq
    <2>2. e \notin Range(s)
        BY <1>1 DEF Range
    <2> QED BY <2>1, <2>2
<1>2. CASE \E i \in 1..Len(s) : s[i] = e
    <2> DEFINE I == {i \in 1..Len(s) : s[i] = e}
               k == Min(I)
               r == RemoveAt(s, k)
    <2>1. k \in 1..Len(s) /\ s[k] = e
        <3>1. PICK i \in 1..Len(s) : s[i] = e
            BY <1>2
        <3>2. I = {i}
            BY <3>1 DEF Distinct
        <3>3. k = i
            BY <3>1, <3>2 DEF Min
        <3> QED BY <3>1, <3>3
    <2>2. RemoveFirst(s, e) = r
        BY <1>2 DEF RemoveFirst, SelectInSeq
    <2> HIDE DEF k, I
    <2> DEFINE front == SubSeq(s, 1, k-1)
               back == SubSeq(s, k+1, Len(s))
    <2>3. /\ front \in Seq(S) /\ Len(front) = k - 1
          /\ \A i \in 1..k-1 : front[i] = s[i]
        BY <2>1, SubSeqProperties
    <2>4. /\ back \in Seq(S) /\ Len(back) = Len(s) - k
          /\ \A i \in 1..Len(s)-k : back[i] = s[k+i]
        BY <2>1, SubSeqProperties
    <2>5. r = front \o back
        BY DEF RemoveAt
    <2> HIDE DEF r, front, back
    <2>6. r \in Seq(S) /\ Len(r) = Len(s) - 1
        <3>1. r \in Seq(S) /\ Len(r) = Len(front) + Len(back)
            BY <2>3, <2>4, <2>5, ConcatProperties
        <3>2. (k - 1) + (Len(s) - k) = Len(s) - 1
            BY <2>1
        <3> QED BY <3>1, <3>2, <2>3, <2>4
    <2>7. \A i \in 1..Len(r) : r[i] = IF i < k THEN s[i] ELSE s[i+1]
        <3> SUFFICES ASSUME NEW i \in 1..Len(r)
                     PROVE  r[i] = IF i < k THEN s[i] ELSE s[i+1]
            OBVIOUS
        <3>1. r[i] = IF i =< Len(front) THEN front[i] ELSE back[i - Len(front)]
            BY <2>1, <2>3, <2>4, <2>5, <2>6
        <3>2. CASE i < k
            BY <3>1, <3>2, <2>1, <2>3
        <3>3. CASE ~(i < k)
            <4>1. i - (k - 1) \in 1..Len(s)-k
                BY <3>3, <2>1, <2>6
            <4>2. back[i - (k-1)] = s[k + (i - (k-1))]
                BY <4>1, <2>4
            <4>3. k + (i - (k-1)) = i + 1
                BY <2>1
            <4> QED BY <3>1, <3>3, <4>2, <4>3, <2>1, <2>3
        <3> QED BY <3>2, <3>3
    <2>8. Distinct(r)
        BY <2>1, <2>6, <2>7, InRange DEF Distinct
    <2>9. Range(r) = Range(s) \ {e}
        <3>1. ASSUME NEW x \in Range(r) PROVE x \in Range(s) \ {e}
            <4>1. PICK i \in 1..Len(r) : x = r[i]
                BY <2>6, InRange
            <4>2. CASE i < k
                BY <4>1, <4>2, <2>1, <2>6, <2>7, InRange DEF Distinct
            <4>3. CASE ~(i < k)
                BY <4>1, <4>3, <2>1, <2>6, <2>7, InRange DEF Distinct
            <4> QED BY <4>2, <4>3
        <3>2. ASSUME NEW x \in Range(s) \ {e} PROVE x \in Range(r)
            <4>1. PICK i \in 1..Len(s) : x = s[i] /\ i # k
                BY <2>1, InRange
            <4>2. CASE i < k
                <5>1. i \in 1..Len(r) /\ r[i] = s[i]
                    BY <4>2, <2>1, <2>6, <2>7
                <5> QED BY <4>1, <5>1, <2>6, InRange
            <4>3. CASE i > k
                <5>1. i - 1 \in 1..Len(r) /\ r[i-1] = s[i]
                    BY <4>3, <2>1, <2>6, <2>7
                <5> QED BY <4>1, <5>1, <2>6, InRange
            <4> QED BY <4>1, <4>2, <4>3, <2>1
        <3> QED BY <3>1, <3>2
    <2> QED
        BY <2>2, <2>6, <2>8, <2>9, <2>1
<1> QED BY <1>1, <1>2

\* Appending a new element keeps a sequence duplicate-free.
LEMMA AppendFacts ==
    ASSUME NEW S, NEW s \in Seq(S), NEW e \in S, Distinct(s), e \notin Range(s)
    PROVE  /\ Append(s, e) \in Seq(S)
           /\ Distinct(Append(s, e))
           /\ Range(Append(s, e)) = Range(s) \cup {e}
           /\ Len(Append(s, e)) = Len(s) + 1
<1>1. Append(s, e) \in Seq(S) /\ Len(Append(s, e)) = Len(s) + 1
    OBVIOUS
<1>2. \A i \in 1..Len(s) : Append(s, e)[i] = s[i]
    OBVIOUS
<1>3. Append(s, e)[Len(s) + 1] = e
    OBVIOUS
<1>4. Distinct(Append(s, e))
    BY <1>1, <1>2, <1>3 DEF Distinct, Range
<1>5. Range(Append(s, e)) = Range(s) \cup {e}
    <2>1. Range(Append(s, e)) = {Append(s, e)[i] : i \in 1..Len(s)+1}
        BY <1>1 DEF Range
    <2>2. Range(s) = {s[i] : i \in 1..Len(s)}
        BY DEF Range
    <2> QED BY <2>1, <2>2, <1>2, <1>3
<1> QED BY <1>1, <1>4, <1>5

\* Dropping the first element of a duplicate-free sequence drops it from its range.
LEMMA TailFacts ==
    ASSUME NEW S, NEW s \in Seq(S), Distinct(s), s # <<>>
    PROVE  /\ Tail(s) \in Seq(S)
           /\ Distinct(Tail(s))
           /\ Range(Tail(s)) = Range(s) \ {Head(s)}
           /\ Len(Tail(s)) = Len(s) - 1
           /\ Head(s) \in Range(s)
<1>1. Tail(s) \in Seq(S) /\ Len(Tail(s)) = Len(s) - 1 /\ Len(s) \in Nat \ {0}
    OBVIOUS
<1>2. \A i \in 1..Len(s)-1 : Tail(s)[i] = s[i+1]
    OBVIOUS
<1>3. Head(s) = s[1] /\ s[1] \in Range(s)
    BY <1>1 DEF Range
<1>4. Distinct(Tail(s))
    BY <1>1, <1>2 DEF Distinct
<1>5. ASSUME NEW x \in Range(Tail(s)) PROVE x \in Range(s) \ {Head(s)}
    <2>0. \E i \in 1..Len(Tail(s)) : Tail(s)[i] = x
        BY <1>1, InRange
    <2>1. PICK i \in 1..Len(s)-1 : x = s[i+1]
        BY <2>0, <1>1, <1>2
    <2> QED BY <2>1, <1>1, <1>3 DEF Distinct, Range
<1>6. ASSUME NEW x \in Range(s) \ {Head(s)} PROVE x \in Range(Tail(s))
    <2>1. PICK i \in 1..Len(s) : x = s[i] /\ i # 1
        BY <1>3, InRange
    <2>2. i - 1 \in 1..Len(s)-1
        BY <2>1, <1>1
    <2>3. Tail(s)[i-1] = s[i]
        BY <2>1, <2>2, <1>2
    <2> QED BY <2>1, <2>2, <2>3, <1>1, InRange
<1> QED BY <1>1, <1>3, <1>4, <1>5, <1>6

----------------------------------------------------------------------------
(* The cache operations keep the caches consistent.                        *)

\* _add_seen keeps the set and the deque in step and bounded.
LEMMA AddSeenFacts ==
    ASSUME NEW s \in [ids : SUBSET Calls, order : Seq(Calls)], SeenOK(s),
           NEW c \in Calls
    PROVE  /\ AddSeen(s, c) \in [ids : SUBSET Calls, order : Seq(Calls)]
           /\ SeenOK(AddSeen(s, c))
           /\ AddSeen(s, c).ids \subseteq s.ids \cup {c}
<1>1. CASE c \in s.ids
    BY <1>1 DEF AddSeen
<1>2. CASE c \notin s.ids
    <2> DEFINE t == Append(s.order, c)
    <2>1. s.order \in Seq(Calls) /\ Distinct(s.order) /\ c \notin Range(s.order)
        BY <1>2 DEF SeenOK
    <2>2. /\ t \in Seq(Calls) /\ Distinct(t)
          /\ Range(t) = Range(s.order) \cup {c} /\ Len(t) = Len(s.order) + 1
        BY <2>1, AppendFacts
    <2>3. t # <<>>
        BY <2>1
    <2> HIDE DEF t
    <2>4. /\ Tail(t) \in Seq(Calls) /\ Distinct(Tail(t))
          /\ Range(Tail(t)) = Range(t) \ {Head(t)} /\ Len(Tail(t)) = Len(t) - 1
        BY <2>2, <2>3, TailFacts
    <2>5. AddSeen(s, c) = IF Len(t) > MaxSeen
            THEN [ids |-> (s.ids \cup {c}) \ {Head(t)}, order |-> Tail(t)]
            ELSE [ids |-> s.ids \cup {c}, order |-> t]
        BY <1>2 DEF AddSeen, t
    <2>6. s.ids = Range(s.order) /\ Len(s.order) =< MaxSeen /\ s.ids \subseteq Calls
          /\ Len(s.order) \in Nat
        BY <2>1 DEF SeenOK
    <2>7. CASE Len(t) > MaxSeen
        BY <2>2, <2>4, <2>5, <2>6, <2>7, ConstantsOK DEF SeenOK, ConstantsOK
    <2>8. CASE ~(Len(t) > MaxSeen)
        BY <2>2, <2>5, <2>6, <2>8, ConstantsOK DEF SeenOK, ConstantsOK
    <2> QED BY <2>7, <2>8
<1> QED BY <1>1, <1>2

PendType == [order : Seq(Calls), info : [Calls -> Delivery]]
SeenType == [ids : SUBSET Calls, order : Seq(Calls)]

\* Popping a delivery keeps the waiting list consistent.
LEMMA PopPendingFacts ==
    ASSUME NEW q \in PendType, PendOK(q), NEW c \in Calls
    PROVE  /\ PopPending(q, c) \in PendType
           /\ PendOK(PopPending(q, c))
<1> DEFINE r == PopPending(q, c)
<1>1. /\ RemoveFirst(q.order, c) \in Seq(Calls) /\ Distinct(RemoveFirst(q.order, c))
      /\ Range(RemoveFirst(q.order, c)) = Range(q.order) \ {c}
      /\ Len(RemoveFirst(q.order, c)) =< Len(q.order)
    BY RemoveFirstFacts DEF PendOK, PendType
<1>2. r.order = RemoveFirst(q.order, c) /\ r.info = [q.info EXCEPT ![c] = NoDelivery]
    BY DEF PopPending
<1>3. NoDelivery \in Delivery /\ NoDelivery.rounds = 0 /\ NoDelivery.recipients = {}
    BY ConstantsOK DEF NoDelivery, Delivery, ConstantsOK
<1>4. r \in PendType
    BY <1>1, <1>3 DEF PopPending, PendType
<1>5. Len(r.order) =< MaxPending
    BY <1>1, <1>2, ConstantsOK DEF PendOK, PendType, ConstantsOK
<1>6. \A d \in Calls : r.info[d] = IF d = c THEN NoDelivery ELSE q.info[d]
    BY <1>2 DEF PendType
<1>7. PendOK(r)
    BY <1>1, <1>2, <1>3, <1>5, <1>6 DEF PendOK
<1> QED BY <1>4, <1>7

\* Storing a delivery, with the eviction it may cause, keeps both caches consistent.
LEMMA StorePendingFacts ==
    ASSUME NEW s \in SeenType, SeenOK(s), NEW q \in PendType, PendOK(q), NoneBoth(s, q),
           NEW c \in Calls, c \notin s.ids, NEW failed \in SUBSET Users, failed # {},
           NEW rounds \in 1..MaxRounds-1
    PROVE  LET r == StorePending(s, q, c, failed, rounds)
           IN  /\ r.seen \in SeenType /\ SeenOK(r.seen)
               /\ r.pend \in PendType /\ PendOK(r.pend)
               /\ NoneBoth(r.seen, r.pend)
<1> DEFINE rest == RemoveFirst(q.order, c)
           order == Append(rest, c)
           info == [q.info EXCEPT ![c] = [recipients |-> failed, rounds |-> rounds]]
           r == StorePending(s, q, c, failed, rounds)
<1>1. /\ rest \in Seq(Calls) /\ Distinct(rest) /\ Range(rest) = Range(q.order) \ {c}
      /\ Len(rest) =< Len(q.order)
      /\ c \in Range(q.order) => Len(rest) = Len(q.order) - 1
    BY RemoveFirstFacts DEF PendOK, PendType
<1> HIDE DEF rest
<1>2. /\ order \in Seq(Calls) /\ Distinct(order) /\ Range(order) = Range(rest) \cup {c}
      /\ Len(order) = Len(rest) + 1 /\ order # <<>>
    BY <1>1, AppendFacts
<1>3. rest # <<>> => Head(order) = Head(rest) /\ Head(rest) \in Range(rest)
    BY <1>1, TailFacts, HeadTailAppend
<1>4. /\ [recipients |-> failed, rounds |-> rounds] \in Delivery
      /\ NoDelivery \in Delivery /\ NoDelivery.rounds = 0 /\ NoDelivery.recipients = {}
    BY ConstantsOK DEF Delivery, NoDelivery, ConstantsOK
<1>5. info \in [Calls -> Delivery]
    BY <1>4 DEF PendType
<1>6. \A d \in Calls : info[d] = IF d = c THEN [recipients |-> failed, rounds |-> rounds]
                                          ELSE q.info[d]
    BY DEF PendType
<1>7. Range(order) = {d \in Calls : info[d].rounds > 0}
    BY <1>1, <1>2, <1>6 DEF PendOK
<1>8. \A d \in Calls : info[d].rounds > 0 <=> info[d].recipients # {}
    BY <1>6 DEF PendOK
<1>9. Len(q.order) =< MaxPending /\ Len(q.order) \in Nat /\ MaxPending \in Nat \ {0}
    BY ConstantsOK DEF PendOK, PendType, ConstantsOK
<1> HIDE DEF order, info
<1>10. CASE Len(order) > MaxPending
    <2> DEFINE e == Head(order)
    <2>1. rest # <<>>
        BY <1>1, <1>2, <1>9, <1>10
    <2>2. e \in Calls /\ e # c /\ e \in Range(order)
        BY <2>1, <1>1, <1>2, <1>3
    <2>3. /\ Tail(order) \in Seq(Calls) /\ Distinct(Tail(order))
          /\ Range(Tail(order)) = Range(order) \ {e} /\ Len(Tail(order)) = Len(order) - 1
        BY <1>2, TailFacts
    <2> HIDE DEF e
    <2>4. r = [seen |-> AddSeen(s, e),
               pend |-> [order |-> Tail(order), info |-> [info EXCEPT ![e] = NoDelivery]]]
        BY <1>10 DEF StorePending, rest, order, info, e
    <2>5. /\ AddSeen(s, e) \in SeenType /\ SeenOK(AddSeen(s, e))
          /\ AddSeen(s, e).ids \subseteq s.ids \cup {e}
        BY <2>2, AddSeenFacts DEF SeenType
    <2> DEFINE left == [info EXCEPT ![e] = NoDelivery]
    <2>6. left \in [Calls -> Delivery] /\ \A d \in Calls :
              left[d] = IF d = e THEN NoDelivery ELSE info[d]
        BY <1>4, <1>5
    <2>7. Len(Tail(order)) =< MaxPending
        BY <2>3, <1>1, <1>2, <1>9
    <2> HIDE DEF left
    <2>8. r.pend = [order |-> Tail(order), info |-> left] /\ r.seen = AddSeen(s, e)
        BY <2>4 DEF left
    <2> HIDE DEF r
    <2>9. PendOK(r.pend) /\ r.pend \in PendType
        <3>1. r.pend \in PendType
            BY <2>3, <2>6, <2>8 DEF PendType
        <3>2. Range(r.pend.order) = {d \in Calls : r.pend.info[d].rounds > 0}
            BY <2>3, <2>6, <2>8, <1>4, <1>7
        <3>3. \A d \in Calls : r.pend.info[d].rounds > 0 <=> r.pend.info[d].recipients # {}
            BY <2>6, <2>8, <1>4, <1>8
        <3>4. Distinct(r.pend.order) /\ Len(r.pend.order) =< MaxPending
            BY <2>3, <2>7, <2>8
        <3> QED BY <3>1, <3>2, <3>3, <3>4 DEF PendOK
    <2>10. NoneBoth(r.seen, r.pend)
        BY <2>5, <2>6, <2>8, <1>4, <1>6 DEF NoneBoth
    <2> QED BY <2>5, <2>8, <2>9, <2>10 DEF r
<1>11. CASE ~(Len(order) > MaxPending)
    <2>1. r = [seen |-> s, pend |-> [order |-> order, info |-> info]]
        BY <1>11 DEF StorePending, rest, order, info
    <2>2. PendOK(r.pend) /\ r.pend \in PendType
        BY <2>1, <1>1, <1>2, <1>5, <1>7, <1>8, <1>9, <1>11 DEF PendOK, PendType
    <2>3. NoneBoth(r.seen, r.pend)
        BY <2>1, <1>6 DEF NoneBoth
    <2> QED BY <2>1, <2>2, <2>3
<1> QED BY <1>10, <1>11

\* _record_delivery_result keeps both caches consistent and apart.
LEMMA RecordedFacts ==
    ASSUME NEW s \in SeenType, SeenOK(s), NEW q \in PendType, PendOK(q), NoneBoth(s, q),
           NEW c \in Calls, c \notin s.ids, NEW failed \in SUBSET Users
    PROVE  LET r == Recorded(s, q, c, failed)
           IN  /\ r.seen \in SeenType /\ SeenOK(r.seen)
               /\ r.pend \in PendType /\ PendOK(r.pend)
               /\ NoneBoth(r.seen, r.pend)
<1> DEFINE n == q.info[c].rounds + 1
           r == Recorded(s, q, c, failed)
<1>1. q.info[c].rounds \in 0..MaxRounds-1 /\ MaxRounds \in Nat \ {0}
    BY ConstantsOK DEF PendType, Delivery, ConstantsOK
<1>2. CASE failed = {} \/ n >= MaxRounds
    <2>1. r.seen = AddSeen(s, c) /\ r.pend = PopPending(q, c)
        BY <1>2 DEF Recorded
    <2>2. r.seen \in SeenType /\ SeenOK(r.seen) /\ r.seen.ids \subseteq s.ids \cup {c}
        BY <2>1, AddSeenFacts DEF SeenType
    <2>3. r.pend \in PendType /\ PendOK(r.pend)
        BY <2>1, PopPendingFacts
    <2>4. \A d \in Calls : r.pend.info[d] = IF d = c THEN NoDelivery ELSE q.info[d]
        BY <2>1 DEF PopPending, PendType
    <2>5. NoneBoth(r.seen, r.pend)
        BY <2>2, <2>4 DEF NoneBoth, NoDelivery
    <2> QED BY <2>2, <2>3, <2>5
<1>3. CASE ~(failed = {} \/ n >= MaxRounds)
    <2>1. r = StorePending(s, q, c, failed, n)
        BY <1>3 DEF Recorded
    <2>2. n \in 1..MaxRounds-1 /\ failed # {}
        BY <1>1, <1>3
    <2> HIDE DEF n
    <2> QED BY <2>1, <2>2, StorePendingFacts
<1> QED BY <1>2, <1>3

----------------------------------------------------------------------------
(* The inductive invariant.  It adds that nothing has happened before the  *)
(* log is prepopulated (the page replaces an empty seen cache), and that a *)
(* round runs only inside a handler.                                       *)

IInv ==
    /\ TypeOK
    /\ SeenConsistent
    /\ PendingConsistent
    /\ PendingNotSeen
    /\ mode \in {"auth", "prepopulate"} => seen = EmptySeen /\ pend = EmptyPend
    /\ cur # NoRound => mode \in {"hub", "page"}

\* The caches of a new process are consistent.
LEMMA EmptyFacts ==
    /\ EmptySeen \in SeenType /\ SeenOK(EmptySeen)
    /\ EmptyPend \in PendType /\ PendOK(EmptyPend)
    /\ NoneBoth(EmptySeen, EmptyPend)
<1>1. Range(<<>>) = {} /\ <<>> \in Seq(Calls) /\ Distinct(<<>>) /\ Len(<<>>) = 0
    BY DEF Range, Distinct
<1>2. NoDelivery \in Delivery /\ NoDelivery.rounds = 0 /\ NoDelivery.recipients = {}
    BY ConstantsOK DEF NoDelivery, Delivery, ConstantsOK
<1>3. EmptySeen \in SeenType /\ SeenOK(EmptySeen)
    BY <1>1, ConstantsOK DEF EmptySeen, SeenType, SeenOK, ConstantsOK
<1>4. \A c \in Calls : EmptyPend.info[c] = NoDelivery
    BY DEF EmptyPend
<1>5. EmptyPend \in PendType /\ EmptyPend.order = <<>>
    BY <1>1, <1>2 DEF EmptyPend, PendType
<1>6. PendOK(EmptyPend)
    BY <1>1, <1>2, <1>4, <1>5, ConstantsOK DEF PendOK, ConstantsOK
<1>7. NoneBoth(EmptySeen, EmptyPend)
    BY DEF NoneBoth, EmptySeen
<1> QED BY <1>3, <1>5, <1>6, <1>7

\* A page of the log holds different calls, each one that rang.
LEMMA NewestFacts ==
    ASSUME last \in 0..NCalls, NEW n \in Nat
    PROVE  /\ Newest(n) \in Seq(Calls) /\ Distinct(Newest(n))
           /\ Len(Newest(n)) =< n /\ Range(Newest(n)) \in SUBSET Calls
<1> DEFINE k == IF n < last THEN n ELSE last
<1>1. k \in Nat /\ k =< n /\ k =< last /\ last \in Nat /\ NCalls \in Nat /\ last =< NCalls
    BY ConstantsOK DEF ConstantsOK
<1>2. Newest(n) = [i \in 1..k |-> last + 1 - i]
    BY DEF Newest
<1> HIDE DEF k
<1>3. \A i \in 1..k : last + 1 - i \in Calls
    BY <1>1 DEF Calls
<1>4. Newest(n) \in Seq(Calls) /\ Len(Newest(n)) = k
    BY <1>1, <1>2, <1>3
<1>5. Distinct(Newest(n))
    BY <1>1, <1>2, <1>4 DEF Distinct
<1> QED BY <1>1, <1>4, <1>5, RangeOfSeq

\* Recording a round, in terms of the state.
LEMMA RecordStep ==
    ASSUME TypeOK, SeenConsistent, PendingConsistent, NoneBoth(seen, pend),
           NEW c \in Calls, c \notin seen.ids, NEW failed \in SUBSET Users,
           Record(c, failed)
    PROVE  /\ seen' \in SeenType /\ pend' \in PendType
           /\ SeenConsistent' /\ PendingConsistent' /\ NoneBoth(seen', pend')
<1>1. seen \in SeenType /\ pend \in PendType
    BY DEF TypeOK, SeenType, PendType
<1>2. seen' = Recorded(seen, pend, c, failed).seen
    BY DEF Record
<1>3. pend' = Recorded(seen, pend, c, failed).pend
    BY DEF Record
<1>4. SeenOK(seen') /\ PendOK(pend') /\ seen' \in SeenType /\ pend' \in PendType
      /\ NoneBoth(seen', pend')
    BY <1>1, <1>2, <1>3, RecordedFacts DEF SeenConsistent, PendingConsistent
<1> QED BY <1>4 DEF SeenConsistent, PendingConsistent, SeenOK, PendOK

\* A recipient is served: there is one, and the next position is a round too.
LEMMA ServingFacts ==
    ASSUME NEW c \in Calls, NEW todo \in SUBSET Users, todo # {},
           NEW failed \in SUBSET Users, NEW photo \in BOOLEAN
    PROVE  Serving(c, todo, failed, photo) \in Round
           /\ Serving(c, todo, failed, photo) # NoRound
           /\ Serving(c, todo, failed, photo).call = c
<1>1. 0 \in 0..MaxAttempts-1
    BY ConstantsOK DEF ConstantsOK
<1>2. Serving(c, todo, failed, photo) \in Round
    BY <1>1 DEF Serving, Round
<1>3. Serving(c, todo, failed, photo).call = c
    BY DEF Serving
<1>4. c # 0
    BY DEF Calls
<1> QED BY <1>2, <1>3, <1>4 DEF NoRound

\* What a step of a handler keeps.
Kept == /\ seen' \in SeenType /\ pend' \in PendType
        /\ SeenConsistent' /\ PendingConsistent' /\ PendingNotSeen'
        /\ cur' \in Round \cup {NoRound}

\* The synchronous part of a handler keeps the invariant's parts.
LEMMA HandleStep ==
    ASSUME IInv, cur = NoRound, NEW c \in Calls, Handle(c)
    PROVE  Kept
<1>1. /\ TypeOK /\ SeenConsistent /\ PendingConsistent /\ NoneBoth(seen, pend)
      /\ seen \in SeenType /\ pend \in PendType
    BY DEF IInv, PendingNotSeen, TypeOK, SeenType, PendType
<1>2. CASE SkipSeen(c)
    BY <1>1, <1>2 DEF SkipSeen, Kept, SeenConsistent, PendingConsistent, PendingNotSeen
<1>3. CASE NobodyToTell(c)
    <2>1. Record(c, {}) /\ c \notin seen.ids /\ cur' = NoRound
        BY <1>3 DEF NobodyToTell
    <2>2. /\ seen' \in SeenType /\ pend' \in PendType
          /\ SeenConsistent' /\ PendingConsistent' /\ NoneBoth(seen', pend')
        BY <1>1, <2>1, RecordStep
    <2> QED BY <2>1, <2>2 DEF Kept, PendingNotSeen
<1>4. CASE BeginRound(c)
    <2>1. PICK photo \in BOOLEAN : cur' = Serving(c, Recipients(c), {}, photo)
        BY <1>4, ConstantsOK DEF BeginRound, ConstantsOK
    <2>2. Recipients(c) \in SUBSET Users /\ Recipients(c) # {}
        BY <1>1, <1>4 DEF BeginRound, Recipients, TypeOK
    <2>3. cur' \in Round /\ cur'.call = c
        BY <2>1, <2>2, ServingFacts
    <2>4. c \notin seen.ids /\ seen' = seen /\ pend' = pend
        BY <1>4 DEF BeginRound
    <2> QED BY <1>1, <2>3, <2>4 DEF Kept, SeenConsistent, PendingConsistent, PendingNotSeen
<1> QED BY <1>2, <1>3, <1>4 DEF Handle

\* Going on to the next recipient, or recording the round, keeps them too.
LEMMA NextRecipientStep ==
    ASSUME IInv, cur # NoRound, NEW failed \in SUBSET Users, NextRecipient(failed)
    PROVE  Kept
<1>1. /\ TypeOK /\ SeenConsistent /\ PendingConsistent /\ NoneBoth(seen, pend)
      /\ seen \in SeenType /\ pend \in PendType
      /\ cur \in Round /\ cur.call \notin seen.ids
    BY DEF IInv, PendingNotSeen, TypeOK, SeenType, PendType
<1>2. cur.call \in Calls /\ cur.todo \ {Uid} \in SUBSET Users /\ cur.photo \in BOOLEAN
    BY <1>1 DEF Round
<1>3. CASE cur.todo \ {Uid} = {}
    <2>1. cur' = NoRound /\ Record(cur.call, failed)
        BY <1>3 DEF NextRecipient
    <2>2. /\ seen' \in SeenType /\ pend' \in PendType
          /\ SeenConsistent' /\ PendingConsistent' /\ NoneBoth(seen', pend')
        BY <1>1, <1>2, <2>1, RecordStep
    <2> QED BY <2>1, <2>2 DEF Kept, PendingNotSeen
<1>4. CASE cur.todo \ {Uid} # {}
    <2>1. /\ cur' = Serving(cur.call, cur.todo \ {Uid}, failed, cur.photo)
          /\ seen' = seen /\ pend' = pend
        BY <1>4 DEF NextRecipient
    <2>2. cur' \in Round /\ cur'.call = cur.call
        BY <1>2, <1>4, <2>1, ServingFacts
    <2> QED BY <1>1, <2>1, <2>2 DEF Kept, SeenConsistent, PendingConsistent, PendingNotSeen
<1> QED BY <1>3, <1>4

\* The recipient being served is a user of the round.
LEMMA UidIsUser ==
    ASSUME TypeOK, cur # NoRound
    PROVE  Uid \in cur.todo /\ Uid \in Users /\ cur.call \in Calls
           /\ cur.failed \in SUBSET Users
BY DEF TypeOK, Round, Uid

\* The invariant holds initially.
LEMMA InitIInv == Init => IInv
<1> SUFFICES ASSUME Init PROVE IInv
    OBVIOUS
<1>1. /\ seen = EmptySeen /\ pend = EmptyPend /\ cur = NoRound
      /\ SeenConsistent /\ PendingConsistent /\ PendingNotSeen
      /\ seen \in SeenType /\ pend \in PendType
    BY EmptyFacts DEF Init, SeenConsistent, PendingConsistent, PendingNotSeen
<1>2. TypeOK
    BY <1>1, ConstantsOK
    DEF Init, TypeOK, Modes, NoActive, NoCards, SeenType, PendType, ConstantsOK
<1> QED BY <1>1, <1>2 DEF IInv

\* Every step keeps the invariant: one case per action.
LEMMA NextIInv == IInv /\ [Next]_vars => IInv'
<1> SUFFICES ASSUME IInv, [Next]_vars PROVE IInv'
    OBVIOUS
<1>1. /\ TypeOK /\ SeenConsistent /\ PendingConsistent /\ PendingNotSeen
      /\ NoneBoth(seen, pend) /\ seen \in SeenType /\ pend \in PendType
    BY DEF IInv, PendingNotSeen, TypeOK, SeenType, PendType
<1>2. ASSUME UNCHANGED <<seen, pend, cur>>, TypeOK',
             mode' = mode \/ mode' \in {"connect", "hub", "poll", "page"},
             cur = NoRound \/ mode' = mode
      PROVE  IInv'
    BY <1>1, <1>2 DEF IInv, SeenConsistent, PendingConsistent, PendingNotSeen, TypeOK, Modes
<1>3. ASSUME Kept, TypeOK', mode' = mode, mode \in {"hub", "page"}
      PROVE  IInv'
    BY <1>3 DEF IInv, Kept
<1>4. CASE Ring
    <2>1. last' \in 0..NCalls /\ last' \in Calls
        BY <1>1, <1>4, ConstantsOK DEF Ring, TypeOK, Calls, ConstantsOK
    <2>2. [kind |-> "DomofonCalling", call |-> last'] \in Event
        BY <2>1 DEF Event
    <2>3. hub' \in Seq(Event)
        <3>1. hub' = Append(hub, [kind |-> "DomofonCalling", call |-> last']) \/ hub' = hub
            BY <1>4 DEF Ring, Push
        <3>2. hub \in Seq(Event)
            BY <1>1 DEF TypeOK
        <3> QED BY <3>1, <3>2, <2>2, AppendProperties
    <2>4. TypeOK'
        BY <1>1, <1>4, <2>1, <2>3 DEF Ring, TypeOK
    <2> QED BY <1>2, <1>4, <2>4 DEF Ring
<1>5. ASSUME NEW c \in Calls, RecentPush(c) PROVE IInv'
    <2>1. TypeOK'
        BY <1>1, <1>5 DEF RecentPush, Push, TypeOK, Event
    <2> QED BY <1>2, <1>5, <2>1 DEF RecentPush
<1>6. ASSUME NEW u \in Users, Grant(u) \/ Revoke(u) PROVE IInv'
    <2>1. TypeOK'
        BY <1>1, <1>6 DEF Grant, Revoke, TypeOK
    <2> QED BY <1>2, <1>6, <2>1 DEF Grant, Revoke
<1>7. CASE WaitForAuth
    <2>1. TypeOK'
        BY <1>1, <1>7 DEF WaitForAuth, TypeOK, Modes
    <2> QED BY <1>7, <2>1 DEF WaitForAuth, IInv, SeenConsistent, PendingConsistent,
                              PendingNotSeen
<1>8. CASE PrepopulateSeen
    <2>1. pend = EmptyPend /\ cur = NoRound /\ mode' = "connect"
        BY <1>8 DEF PrepopulateSeen, IInv
    <2>2. CASE UNCHANGED seen
        <3>1. TypeOK'
            BY <1>1, <1>8, <2>2 DEF PrepopulateSeen, TypeOK, Modes
        <3> QED BY <1>2, <1>8, <2>1, <2>2, <3>1 DEF PrepopulateSeen
    <2>3. CASE seen' = [ids |-> Range(Newest(PrePage)), order |-> Newest(PrePage)]
        <3>1. /\ Newest(PrePage) \in Seq(Calls) /\ Distinct(Newest(PrePage))
              /\ Len(Newest(PrePage)) =< PrePage /\ Range(Newest(PrePage)) \in SUBSET Calls
            BY <1>1, NewestFacts, ConstantsOK DEF TypeOK, ConstantsOK
        <3>2. seen' \in SeenType /\ SeenOK(seen')
            BY <2>3, <3>1, ConstantsOK DEF SeenType, SeenOK, ConstantsOK
        <3>3. UNCHANGED <<last, allowed, hub, page, cur, pend, active, cards, restarts>>
            BY <1>8 DEF PrepopulateSeen
        <3>4. TypeOK'
            BY <1>1, <2>1, <3>2, <3>3 DEF TypeOK, SeenType, Modes
        <3>5. \A c \in Calls : pend.info[c].rounds = 0
            BY <2>1 DEF EmptyPend, NoDelivery
        <3>6. SeenConsistent' /\ PendingConsistent' /\ PendingNotSeen'
            BY <1>1, <2>1, <3>2, <3>3, <3>5
            DEF SeenConsistent, SeenOK, PendingConsistent, PendingNotSeen, NoneBoth
        <3> QED BY <2>1, <3>3, <3>4, <3>6 DEF IInv
    <2> QED BY <1>8, <2>2, <2>3 DEF PrepopulateSeen
<1>9. CASE HubConnect
    <2>1. cur = NoRound
        BY <1>9 DEF HubConnect, IInv
    <2>2. TypeOK'
        BY <1>1, <1>9 DEF HubConnect, TypeOK, Modes
    <2> QED BY <1>2, <1>9, <2>1, <2>2 DEF HubConnect
<1>10. CASE HubSessionEnds
    <2>1. TypeOK'
        BY <1>1, <1>10 DEF HubSessionEnds, TypeOK, Modes
    <2> QED BY <1>2, <1>10, <2>1 DEF HubSessionEnds
<1>11. CASE PollFetch \/ PollFails
    <2>1. cur = NoRound
        BY <1>11 DEF PollFetch, PollFails, IInv
    <2>2. Newest(PollPage) \in Seq(Calls)
        BY <1>1, NewestFacts, ConstantsOK DEF TypeOK, ConstantsOK
    <2>3. TypeOK'
        BY <1>1, <1>11, <2>2 DEF PollFetch, PollFails, TypeOK, Modes
    <2> QED BY <1>2, <1>11, <2>1, <2>3 DEF PollFetch, PollFails
<1>12. CASE PollDone
    <2>1. TypeOK'
        BY <1>1, <1>12 DEF PollDone, TypeOK, Modes
    <2> QED BY <1>2, <1>12, <2>1 DEF PollDone
<1>13. CASE PollEntry
    <2>1. Head(page) \in Calls /\ Tail(page) \in Seq(Calls) /\ cur = NoRound
        BY <1>1, <1>13 DEF PollEntry, TypeOK
    <2>2. Kept
        BY <1>13, <2>1, HandleStep DEF PollEntry
    <2>3. TypeOK'
        BY <1>1, <1>13, <2>1, <2>2 DEF PollEntry, TypeOK, Kept, SeenType, PendType
    <2> QED BY <1>3, <1>13, <2>2, <2>3 DEF PollEntry
<1>14. CASE HubCalling
    <2>1. Head(hub).call \in Calls /\ Tail(hub) \in Seq(Event) /\ cur = NoRound
        <3>1. hub \in Seq(Event) /\ hub # <<>> /\ cur = NoRound
            BY <1>1, <1>14 DEF HubCalling, TypeOK
        <3>2. Head(hub) \in Event /\ Tail(hub) \in Seq(Event)
            BY <3>1
        <3> QED BY <3>1, <3>2 DEF Event
    <2>2. Kept
        BY <1>14, <2>1, HandleStep DEF HubCalling
    <2>3. TypeOK'
        BY <1>1, <1>14, <2>1, <2>2 DEF HubCalling, TypeOK, Kept, SeenType, PendType
    <2> QED BY <1>3, <1>14, <2>2, <2>3 DEF HubCalling
<1>15. CASE HubEnded
    <2>1. Tail(hub) \in Seq(Event)
        BY <1>1, <1>15 DEF HubEnded, TypeOK
    <2>2. TypeOK'
        BY <1>1, <1>15, <2>1 DEF HubEnded, TypeOK
    <2> QED BY <1>2, <1>15, <2>2 DEF HubEnded
<1>16. CASE SendOk
    <2>1. cur # NoRound /\ Uid \in Users /\ cur.call \in Calls /\ cur.failed \in SUBSET Users
        BY <1>1, <1>16, UidIsUser DEF SendOk
    <2>2. Kept
        BY <1>16, <2>1, NextRecipientStep DEF SendOk
    <2>3. /\ cards' = [cards EXCEPT ![cur.call][Uid] = @ + 1]
          /\ active' = [active EXCEPT ![cur.call] = @ \cup {Uid}]
          /\ UNCHANGED <<last, allowed, hub, mode, page, restarts>>
        BY <1>16 DEF SendOk
    <2> HIDE DEF Uid
    <2>4. cards' \in [Calls -> [Users -> Nat]] /\ active' \in [Calls -> SUBSET Users]
        BY <1>1, <2>1, <2>3 DEF TypeOK
    <2>5. TypeOK'
        BY <1>1, <2>2, <2>3, <2>4 DEF TypeOK, Kept, SeenType, PendType
    <2> QED BY <1>3, <2>1, <2>2, <2>3, <2>5 DEF IInv
<1>17. CASE SendTransient
    <2>1. cur \in Round /\ cur.attempt + 1 < MaxAttempts /\ mode \in {"hub", "page"}
        BY <1>1, <1>17 DEF SendTransient, TypeOK, IInv
    <2>2. /\ cur' = [cur EXCEPT !.attempt = @ + 1]
          /\ UNCHANGED <<last, allowed, hub, mode, page, seen, pend, active, cards, restarts>>
        BY <1>17 DEF SendTransient
    <2>3. cur.attempt + 1 \in 0..MaxAttempts-1
        BY <2>1, ConstantsOK DEF Round, ConstantsOK
    <2>4. cur' \in Round /\ cur'.call = cur.call
        BY <2>1, <2>2, <2>3 DEF Round
    <2>5. cur.call \notin seen.ids
        BY <1>1, <1>17 DEF SendTransient, PendingNotSeen
    <2>6. Kept
        BY <1>1, <2>2, <2>4, <2>5
        DEF Kept, SeenConsistent, PendingConsistent, PendingNotSeen
    <2>7. TypeOK'
        BY <1>1, <2>2, <2>4 DEF TypeOK
    <2> QED BY <1>3, <2>1, <2>2, <2>6, <2>7
<1>18. CASE SendFails
    <2>1. cur # NoRound /\ Uid \in Users /\ cur.failed \in SUBSET Users
        BY <1>1, <1>18, UidIsUser DEF SendFails
    <2>2. UNCHANGED <<last, allowed, hub, mode, page, active, cards, restarts>>
        BY <1>18 DEF SendFails
    <2>5. Kept => TypeOK'
        BY <1>1, <2>2 DEF TypeOK, Kept, SeenType, PendType
    <2>6. Kept
        <3>1. CASE cur.kind = "photo"
            <4>1. cur' = [cur EXCEPT !.kind = "text", !.attempt = 0] /\ UNCHANGED <<seen, pend>>
                BY <1>18, <3>1 DEF SendFails
            <4>2. cur \in Round /\ cur.call \notin seen.ids /\ 0 \in 0..MaxAttempts-1
                BY <1>1, <2>1, ConstantsOK DEF TypeOK, PendingNotSeen, ConstantsOK
            <4>3. cur' \in Round /\ cur'.call = cur.call
                BY <4>1, <4>2 DEF Round
            <4> QED BY <1>1, <4>1, <4>2, <4>3
                    DEF Kept, SeenConsistent, PendingConsistent, PendingNotSeen
        <3>2. CASE cur.kind # "photo"
            <4>1. NextRecipient(cur.failed \cup {Uid})
                BY <1>18, <3>2 DEF SendFails
            <4>2. cur.failed \cup {Uid} \in SUBSET Users
                BY <2>1
            <4> QED BY <2>1, <4>1, <4>2, NextRecipientStep
        <3> QED BY <3>1, <3>2
    <2> QED BY <1>3, <2>1, <2>2, <2>5, <2>6 DEF IInv
<1>19. CASE Restart
    <2>1. /\ seen' = EmptySeen /\ pend' = EmptyPend /\ cur' = NoRound /\ mode' = "auth"
          /\ hub' = <<>> /\ page' = <<>> /\ active' = NoActive /\ cards' = NoCards
          /\ restarts' \in 0..MaxRestarts /\ UNCHANGED <<last, allowed>>
        BY <1>1, <1>19, ConstantsOK DEF Restart, TypeOK, ConstantsOK
    <2>2. TypeOK'
        BY <1>1, <2>1, EmptyFacts DEF TypeOK, Modes, NoActive, NoCards, SeenType, PendType
    <2>3. SeenConsistent' /\ PendingConsistent' /\ PendingNotSeen'
        BY <2>1, EmptyFacts DEF SeenConsistent, PendingConsistent, PendingNotSeen
    <2> QED BY <2>1, <2>2, <2>3 DEF IInv
<1>20. CASE UNCHANGED vars
    <2>1. TypeOK'
        BY <1>1, <1>20 DEF vars, TypeOK
    <2> QED BY <1>2, <1>20, <2>1 DEF vars
<1> QED
    BY <1>4, <1>5, <1>6, <1>7, <1>8, <1>9, <1>10, <1>11, <1>12, <1>13, <1>14, <1>15,
       <1>16, <1>17, <1>18, <1>19, <1>20 DEF Next, Watcher, Environment

\* The inductive invariant holds in every behaviour.
THEOREM Invariance == Spec => []IInv
BY InitIInv, NextIInv, PTL DEF Spec

\* Type correctness of the watcher's state.
THEOREM TypeCorrect == Spec => []TypeOK
<1>1. IInv => TypeOK
    BY DEF IInv
<1> QED BY <1>1, Invariance, PTL

\* Whatever the limits, the seen set and its deque stay in step and bounded,
\* and so does the waiting list with its deliveries.
THEOREM CachesStayConsistent == Spec => []CachesConsistent
<1>1. IInv => CachesConsistent
    BY DEF IInv, CachesConsistent
<1> QED BY <1>1, Invariance, PTL

\* A call waiting for a retry, or being sent, is never in the seen ids: the
\* early return of the handlers cannot swallow a retry.
THEOREM RetriesNotSwallowed == Spec => []PendingNotSeen
<1>1. IInv => PendingNotSeen
    BY DEF IInv
<1> QED BY <1>1, Invariance, PTL

----------------------------------------------------------------------------
(* What a seen id may live through before it is dropped.  An id that the   *)
(* log page still shows, or that still waits in a queue, must not be       *)
(* dropped: it would be taken for a new call.  How many ids can be added   *)
(* behind it is bounded by what may be handled meanwhile: the calls near   *)
(* it, and the older ones already in a queue.  Each of them is added once, *)
(* and may push one abandoned delivery into the seen ids.                  *)

\* The calls in the queues, and the one in progress.
HubCalls == {hub[i].call : i \in 1..Len(hub)}
Queued == HubCalls \cup Range(page) \cup ({cur.call} \cap Calls)

\* A call that may be handled, now or later.
Exposed(c) == c > last - PollPage \/ c \in Queued

\* What may be handled as long as c is exposed.
Near(c) == {x \in Calls : x > c - PollPage /\ x < c + PollPage}
May(c) == Near(c) \cup {x \in Queued : x =< c - PollPage}

\* The ids added after c, and the deliveries not given up.
Behind(order, c) ==
    {x \in Calls : \E i, j \in 1..Len(order) : i < j /\ order[i] = c /\ order[j] = x}
Owing == {x \in Calls : pend.info[x].rounds > 0}

\* The ids behind, present and possible, and those of them that may still be
\* stored with the waiting deliveries and push one of these out.
Weight(added, may, owing) == Cardinality(added \cup may) + Cardinality(may \ (added \cup owing))


\* No more than this, for each exposed seen id.
Most == PrePage + 2 * (3 * PollPage + HubCap)
Room == \A c \in seen.ids : Exposed(c) => Weight(Behind(seen.order, c), May(c), Owing) =< Most

\* The seen ids can hold all that, or every call there is.
Fits == MaxSeen >= Most \/ NCalls =< MaxSeen

\* Only one queue is in use.  What waits has rung, and is followed by nothing
\* that is a page older: pushes are recent when they come, and the page is short.
QueueInv ==
    /\ Len(hub) =< HubCap /\ Len(page) =< PollPage
    /\ mode # "page" => page = <<>>
    /\ mode # "hub" => hub = <<>>
    /\ \A x \in Queued : x =< last
    /\ \A i, j \in 1..Len(hub) : i < j => hub[i].call < hub[j].call + PollPage
    /\ \A i, j \in 1..Len(page) : i < j => page[i] < page[j] + PollPage
    /\ cur # NoRound => \A x \in HubCalls \cup Range(page) : cur.call < x + PollPage

\* What is known has rung.
Rung == \A x \in seen.ids \cup Owing : x =< last

\* The invariant of the refinement.
NInv == IInv /\ QueueInv /\ Rung /\ Room

\* The constants are numbers, and the calls finitely many.
LEMMA Numbers ==
    /\ NCalls \in Nat /\ PollPage \in Nat \ {0} /\ PrePage \in Nat \ {0} /\ HubCap \in Nat
    /\ MaxSeen \in Nat /\ MaxSeen >= PrePage /\ MaxPending \in Nat \ {0} /\ Most \in Nat
    /\ IsFiniteSet(Calls) /\ Calls \subseteq Nat
<1>1. /\ NCalls \in Nat /\ PollPage \in Nat \ {0} /\ PrePage \in Nat \ {0} /\ HubCap \in Nat
      /\ MaxSeen \in Nat /\ MaxSeen >= PrePage /\ MaxPending \in Nat \ {0}
    BY ConstantsOK DEF ConstantsOK
<1>2. Most \in Nat
    BY <1>1 DEF Most
<1>3. IsFiniteSet(Calls)
    BY <1>1, FS_Interval DEF Calls
<1>4. QED
    BY <1>1, <1>2, <1>3 DEF Calls

\* A sequence without duplicates is no longer than the log.
LEMMA DistinctFit ==
    ASSUME NEW s \in Seq(Calls), Distinct(s)
    PROVE  Len(s) =< NCalls
<1>1. Len(s) \in Nat /\ NCalls \in Nat
    BY ConstantsOK DEF ConstantsOK
<1>2. s \in Injection(1..Len(s), 1..NCalls)
    <2>1. s \in [1..Len(s) -> 1..NCalls] /\ DOMAIN s = 1..Len(s)
        BY LenProperties DEF Calls
    <2>2. IsInjective(s)
        BY <2>1 DEF Distinct, IsInjective
    <2> QED BY <2>1, <2>2 DEF Injection
<1>3. ASSUME NEW n \in Nat
      PROVE  IsFiniteSet(1..n) /\ Cardinality(1..n) = n
    <2>1. IsFiniteSet(1..n) /\ Cardinality(1..n) = IF 1 > n THEN 0 ELSE n - 1 + 1
        BY FS_Interval
    <2> QED BY <2>1
<1>4. /\ IsFiniteSet(1..NCalls) /\ Cardinality(1..NCalls) = NCalls
      /\ Cardinality(1..Len(s)) = Len(s)
    BY <1>1, <1>3
<1>5. Cardinality(1..Len(s)) =< Cardinality(1..NCalls)
    BY <1>2, <1>4, FS_Injection
<1> QED BY <1>4, <1>5

\* A sequence without duplicates has as many elements as places.
LEMMA DistinctSize ==
    ASSUME NEW s \in Seq(Calls), Distinct(s)
    PROVE  Range(s) \subseteq Calls /\ Len(s) =< Cardinality(Range(s))
<1>1. Len(s) \in Nat /\ s \in [1..Len(s) -> Range(s)] /\ DOMAIN s = 1..Len(s)
    BY DEF Range
<1>2. Range(s) \subseteq Calls /\ IsFiniteSet(Range(s))
    BY Numbers, FS_Subset DEF Range
<1>3. s \in Injection(1..Len(s), Range(s))
    BY <1>1 DEF Distinct, Injection, IsInjective
<1>4. Cardinality(1..Len(s)) =< Cardinality(Range(s))
    BY <1>2, <1>3, FS_Injection
<1>5. Cardinality(1..Len(s)) = Len(s)
    <2>1. Cardinality(1..Len(s)) = IF 1 > Len(s) THEN 0 ELSE Len(s) - 1 + 1
        BY <1>1, FS_Interval
    <2>2. QED
        BY <1>1, <2>1
<1>6. QED
    BY <1>2, <1>4, <1>5

\* Appending a new id adds it behind every other, and nothing is behind it.
LEMMA BehindAppend ==
    ASSUME NEW s \in Seq(Calls), NEW e \in Calls, e \notin Range(s)
    PROVE  /\ \A c \in Range(s) : Behind(Append(s, e), c) = Behind(s, c) \cup {e}
           /\ Behind(Append(s, e), e) = {}
<1> DEFINE t == Append(s, e)
           n == Len(s)
<1>1. /\ n \in Nat /\ Len(t) = n + 1 /\ t[n + 1] = e /\ \A i \in 1..n : t[i] = s[i]
    OBVIOUS
<1>2. \A i \in 1..n : s[i] # e
    BY DEF Range
<1>3. ASSUME NEW i \in 1..(n + 1) PROVE i \in 1..n \/ i = n + 1
    BY <1>1
<1>4. /\ \A i \in 1..n : i \in 1..(n + 1) /\ i < n + 1
      /\ n + 1 \in 1..(n + 1) /\ \A i \in 1..(n + 1) : ~(n + 1 < i)
    BY <1>1
<1> HIDE DEF t, n
<1>5. ASSUME NEW c \in Range(s) PROVE Behind(t, c) = Behind(s, c) \cup {e}
    <2>1. PICK k \in 1..n : s[k] = c
        BY InRange DEF n
    <2>2. ASSUME NEW x \in Behind(t, c) PROVE x \in Behind(s, c) \cup {e}
        <3>1. PICK i \in 1..(n + 1), j \in 1..(n + 1) : i < j /\ t[i] = c /\ t[j] = x
            BY <1>1 DEF Behind
        <3>2. i \in 1..n
            BY <1>3, <1>4, <3>1
        <3>3. CASE j \in 1..n
            BY <1>1, <3>1, <3>2, <3>3 DEF Behind, n
        <3>4. CASE j = n + 1
            BY <1>1, <3>1, <3>4
        <3>5. QED
            BY <1>3, <3>3, <3>4
    <2>3. ASSUME NEW x \in Behind(s, c) PROVE x \in Behind(t, c)
        BY <1>1, <1>4 DEF Behind, n
    <2>4. e \in Behind(t, c)
        BY <1>1, <1>4, <2>1 DEF Behind
    <2>5. QED
        BY <2>2, <2>3, <2>4
<1>6. Behind(t, e) = {}
    <2>1. ASSUME NEW i \in 1..(n + 1), NEW j \in 1..(n + 1), i < j, t[i] = e PROVE FALSE
        BY <1>1, <1>2, <1>3, <1>4, <2>1
    <2>2. QED
        BY <1>1, <2>1 DEF Behind
<1>7. QED
    BY <1>5, <1>6 DEF t

\* Dropping the first id changes nothing behind the others, and everything
\* that is left was behind it.
LEMMA BehindTail ==
    ASSUME NEW t \in Seq(Calls), Distinct(t), t # <<>>
    PROVE  /\ \A c \in Range(t) \ {Head(t)} : Behind(Tail(t), c) = Behind(t, c)
           /\ Len(t) - 1 =< Cardinality(Behind(t, Head(t)))
           /\ Head(t) \notin Behind(t, Head(t))
<1> DEFINE n == Len(t)
           s == Tail(t)
<1>1. /\ n \in Nat \ {0} /\ Len(s) = n - 1 /\ Head(t) = t[1] /\ s \in Seq(Calls)
      /\ \A i \in 1..(n - 1) : s[i] = t[i + 1]
    OBVIOUS
<1>2. Distinct(s)
    BY TailFacts
<1> HIDE DEF s
<1>3. ASSUME NEW c \in Range(t) \ {Head(t)} PROVE Behind(s, c) = Behind(t, c)
    <2>1. ASSUME NEW x \in Behind(s, c) PROVE x \in Behind(t, c)
        <3>1. PICK i \in 1..(n - 1), j \in 1..(n - 1) : i < j /\ s[i] = c /\ s[j] = x
            BY <1>1 DEF Behind
        <3>2. i + 1 \in 1..n /\ j + 1 \in 1..n /\ i + 1 < j + 1
            BY <1>1, <3>1
        <3>3. t[i + 1] = c /\ t[j + 1] = x
            BY <1>1, <3>1
        <3>4. QED
            BY <3>2, <3>3 DEF Behind, n
    <2>2. ASSUME NEW x \in Behind(t, c) PROVE x \in Behind(s, c)
        <3>1. PICK i \in 1..n, j \in 1..n : i < j /\ t[i] = c /\ t[j] = x
            BY DEF Behind, n
        <3>2. i # 1
            BY <1>1, <3>1
        <3>3. i - 1 \in 1..(n - 1) /\ j - 1 \in 1..(n - 1) /\ i - 1 < j - 1
              /\ (i - 1) + 1 = i /\ (j - 1) + 1 = j
            BY <1>1, <3>1, <3>2
        <3>4. s[i - 1] = c /\ s[j - 1] = x
            BY <1>1, <3>1, <3>3
        <3>5. QED
            BY <1>1, <3>3, <3>4 DEF Behind
    <2>3. QED
        BY <2>1, <2>2
<1>4. Range(s) \subseteq Behind(t, Head(t))
    <2>1. ASSUME NEW x \in Range(s) PROVE x \in Behind(t, Head(t))
        <3>1. PICK j \in 1..(n - 1) : s[j] = x
            BY <1>1, InRange
        <3>2. j + 1 \in 1..n /\ 1 \in 1..n /\ 1 < j + 1
            BY <1>1
        <3>3. t[j + 1] = x /\ x \in Calls
            BY <1>1, <3>1, <3>2
        <3>4. QED
            BY <1>1, <3>2, <3>3 DEF Behind, n
    <2>2. QED
        BY <2>1
<1>5. Behind(t, Head(t)) \subseteq Calls /\ IsFiniteSet(Behind(t, Head(t)))
    <2>1. Behind(t, Head(t)) \subseteq Calls
        BY DEF Behind
    <2>2. QED
        BY <2>1, Numbers, FS_Subset
<1>6. Len(s) =< Cardinality(Range(s)) /\ Cardinality(Range(s)) =< Cardinality(Behind(t, Head(t)))
    BY <1>1, <1>2, <1>4, <1>5, DistinctSize, FS_Subset
<1>7. n - 1 =< Cardinality(Behind(t, Head(t)))
    <2>1. Range(s) \subseteq Calls
        BY <1>1, <1>2, DistinctSize
    <2>2. /\ Cardinality(Range(s)) \in Nat /\ Cardinality(Behind(t, Head(t))) \in Nat
        BY <1>5, <2>1, Numbers, FS_Subset, FS_CardinalityType
    <2>3. QED
        BY <1>1, <1>6, <2>2
<1>8. Head(t) \notin Behind(t, Head(t))
    BY <1>1 DEF Behind, Distinct
<1>9. QED
    BY <1>3, <1>7, <1>8 DEF s

\* A weight does not grow when nothing becomes possible, nor when what is
\* handled moves from the possible to the added or the owing; a delivery that
\* is pushed out pays for itself, as the one stored was not there before.
LEMMA WeightNat ==
    ASSUME NEW a \in SUBSET Calls, NEW m \in SUBSET Calls, NEW o \in SUBSET Calls
    PROVE  /\ Weight(a, m, o) \in Nat
           /\ Cardinality(a \cup m) \in Nat /\ Cardinality(m \ (a \cup o)) \in Nat
           /\ Cardinality(a \cup m) =< Weight(a, m, o)
<1>1. IsFiniteSet(a \cup m) /\ IsFiniteSet(m \ (a \cup o))
    BY Numbers, FS_Subset
<1>2. Cardinality(a \cup m) \in Nat /\ Cardinality(m \ (a \cup o)) \in Nat
    BY <1>1, FS_CardinalityType
<1>3. QED
    BY <1>2 DEF Weight

\* Fewer possible, and nothing that was added or owing is neither now.
LEMMA WeightShrinks ==
    ASSUME NEW a \in SUBSET Calls, NEW m \in SUBSET Calls, NEW o \in SUBSET Calls,
           NEW b \in SUBSET Calls, NEW n \in SUBSET Calls, NEW p \in SUBSET Calls,
           b \cup n \subseteq a \cup m, n \subseteq m, a \cup o \subseteq b \cup p
    PROVE  Weight(b, n, p) =< Weight(a, m, o)
<1>1. n \ (b \cup p) \subseteq m \ (a \cup o)
    OBVIOUS
<1>2. IsFiniteSet(a \cup m) /\ IsFiniteSet(m \ (a \cup o))
    BY Numbers, FS_Subset
<1>3. /\ Cardinality(b \cup n) =< Cardinality(a \cup m)
      /\ Cardinality(n \ (b \cup p)) =< Cardinality(m \ (a \cup o))
    BY <1>1, <1>2, FS_Subset
<1>4. /\ Cardinality(b \cup n) \in Nat /\ Cardinality(a \cup m) \in Nat
      /\ Cardinality(n \ (b \cup p)) \in Nat /\ Cardinality(m \ (a \cup o)) \in Nat
    BY WeightNat
<1>5. QED
    BY <1>3, <1>4 DEF Weight

\* A delivery e is given up for d: e is added, and d is owing now.
LEMMA WeightPays ==
    ASSUME NEW a \in SUBSET Calls, NEW m \in SUBSET Calls, NEW o \in SUBSET Calls,
           NEW n \in SUBSET Calls, NEW p \in SUBSET Calls, NEW e \in Calls,
           NEW d \in m \ (a \cup o),
           n \subseteq m, a \cup o \cup {d} \subseteq a \cup {e} \cup p
    PROVE  Weight(a \cup {e}, n, p) =< Weight(a, m, o)
<1> DEFINE b == a \cup {e}
           fresh == m \ (a \cup o)
<1>1. n \ (b \cup p) \subseteq fresh \ {d}
    OBVIOUS
<1>2. b \cup n \subseteq (a \cup m) \cup {e}
    OBVIOUS
<1>3. IsFiniteSet(a \cup m) /\ IsFiniteSet(fresh)
    BY Numbers, FS_Subset
<1>4. /\ IsFiniteSet((a \cup m) \cup {e})
      /\ \/ Cardinality((a \cup m) \cup {e}) = Cardinality(a \cup m)
         \/ Cardinality((a \cup m) \cup {e}) = Cardinality(a \cup m) + 1
    BY <1>3, FS_AddElement
<1>5. IsFiniteSet(fresh \ {d}) /\ Cardinality(fresh \ {d}) = Cardinality(fresh) - 1
    BY <1>3, FS_RemoveElement
<1>6. Cardinality(b \cup n) =< Cardinality((a \cup m) \cup {e})
    BY <1>2, <1>4, FS_Subset
<1>7. Cardinality(n \ (b \cup p)) =< Cardinality(fresh \ {d})
    BY <1>1, <1>5, FS_Subset
<1>8. b \in SUBSET Calls
    OBVIOUS
<1>9. /\ Cardinality(b \cup n) \in Nat /\ Cardinality(n \ (b \cup p)) \in Nat
      /\ Cardinality(a \cup m) \in Nat /\ Cardinality(fresh) \in Nat
    BY <1>8, WeightNat
<1> HIDE DEF b, fresh
<1>10. Weight(b, n, p) = Cardinality(b \cup n) + Cardinality(n \ (b \cup p))
    BY DEF Weight
<1>11. Weight(a, m, o) = Cardinality(a \cup m) + Cardinality(fresh)
    BY DEF Weight, fresh
<1>12. QED
    <2>1. Weight(b, n, p) =< Weight(a, m, o)
        BY <1>4, <1>5, <1>6, <1>7, <1>9, <1>10, <1>11
    <2>2. QED
        BY <2>1 DEF b

----------------------------------------------------------------------------
(* The caches, case by case, and the room that recording a round leaves.   *)

\* What _record_delivery_result does to the two caches: the call is settled; or
\* it is stored; or it is stored and the oldest other delivery is given up.
LeftOver(q, c, failed, info) ==
    /\ info[c] = [recipients |-> failed, rounds |-> q.info[c].rounds + 1]
    /\ failed # {} /\ q.info[c].rounds + 1 < MaxRounds
Settles(s, q, c, r) ==
    /\ r.seen = AddSeen(s, c) /\ r.pend.info[c] = NoDelivery
    /\ \A d \in Calls : d # c => r.pend.info[d] = q.info[d]
Stores(s, q, c, failed, r) ==
    /\ r.seen = s /\ LeftOver(q, c, failed, r.pend.info)
    /\ \A d \in Calls : d # c => r.pend.info[d] = q.info[d]
GivesUp(s, q, c, failed, r, e) ==
    /\ e # c /\ e \notin s.ids /\ q.info[e].rounds > 0 /\ ~(q.info[c].rounds > 0)
    /\ r.seen = AddSeen(s, e) /\ LeftOver(q, c, failed, r.pend.info)
    /\ r.pend.info[e] = NoDelivery
    /\ \A d \in Calls : d # c /\ d # e => r.pend.info[d] = q.info[d]

\* The rounds of a call are counted, so one of the three happens.
LEMMA RecordedCases ==
    ASSUME NEW s \in SeenType, SeenOK(s), NEW q \in PendType, PendOK(q), NoneBoth(s, q),
           NEW c \in Calls, c \notin s.ids, NEW failed \in SUBSET Users
    PROVE  LET r == Recorded(s, q, c, failed)
           IN  \/ Settles(s, q, c, r)
               \/ Stores(s, q, c, failed, r)
               \/ \E e \in Calls : GivesUp(s, q, c, failed, r, e)
<1> DEFINE n == q.info[c].rounds + 1
           r == Recorded(s, q, c, failed)
<1>1. q.info[c].rounds \in 0..MaxRounds-1 /\ MaxRounds \in Nat \ {0}
    BY ConstantsOK DEF PendType, Delivery, ConstantsOK
<1>2. CASE failed = {} \/ n >= MaxRounds
    <2>1. r.seen = AddSeen(s, c) /\ r.pend = PopPending(q, c)
        BY <1>2 DEF Recorded
    <2>2. \A d \in Calls : r.pend.info[d] = IF d = c THEN NoDelivery ELSE q.info[d]
        BY <2>1 DEF PopPending, PendType
    <2> HIDE DEF r
    <2>3. Settles(s, q, c, r)
        BY <2>1, <2>2 DEF Settles
    <2> QED BY <2>3 DEF r
<1>3. CASE failed # {} /\ n < MaxRounds
    <2> DEFINE rest == RemoveFirst(q.order, c)
               order == Append(rest, c)
               new == [recipients |-> failed, rounds |-> n]
               info == [q.info EXCEPT ![c] = new]
    <2>1. r = StorePending(s, q, c, failed, n)
        BY <1>1, <1>3 DEF Recorded
    <2>2. \A d \in Calls : info[d] = IF d = c THEN new ELSE q.info[d]
        BY DEF PendType
    <2>3. /\ rest \in Seq(Calls) /\ Range(rest) = Range(q.order) \ {c} /\ Distinct(rest)
          /\ c \in Range(q.order) => Len(rest) = Len(q.order) - 1
        BY RemoveFirstFacts DEF PendOK, PendType
    <2>4. CASE Len(order) > MaxPending
        <3> DEFINE e == Head(order)
                   left == [info EXCEPT ![e] = NoDelivery]
        <3>1. Len(order) = Len(rest) + 1 /\ Len(rest) \in Nat /\ Len(q.order) \in Nat
              /\ Len(q.order) =< MaxPending
            BY <2>3 DEF PendOK, PendType
        <3> HIDE DEF rest
        <3>2. rest # <<>>
            BY <2>4, <3>1, Numbers
        <3>3. e = Head(rest) /\ Head(rest) \in Range(rest)
            BY <2>3, <3>2, TailFacts, HeadTailAppend
        <3>4. e \in Calls /\ e # c /\ e \notin s.ids /\ q.info[e].rounds > 0
            BY <2>3, <3>3 DEF PendOK, NoneBoth
        <3>5. ~(q.info[c].rounds > 0)
            <4>1. c \notin Range(q.order)
                BY <2>3, <2>4, <3>1, Numbers
            <4>2. QED
                BY <4>1 DEF PendOK
        <3>6. r.seen = AddSeen(s, e) /\ r.pend.info = left
            BY <2>1, <2>4 DEF StorePending, rest
        <3> HIDE DEF e, order, r
        <3>7. \A d \in Calls : left[d] = IF d = e THEN NoDelivery ELSE info[d]
            BY DEF PendType
        <3> HIDE DEF left, info, new
        <3>8. GivesUp(s, q, c, failed, r, e)
            BY <1>3, <2>2, <3>4, <3>5, <3>6, <3>7 DEF GivesUp, LeftOver, new
        <3> QED BY <3>4, <3>8 DEF r
    <2>5. CASE ~(Len(order) > MaxPending)
        <3>1. r.seen = s /\ r.pend.info = info
            BY <2>1, <2>5 DEF StorePending
        <3> HIDE DEF r, info, new
        <3>2. Stores(s, q, c, failed, r)
            BY <1>3, <2>2, <3>1 DEF Stores, LeftOver, new
        <3> QED BY <3>2 DEF r
    <2> QED BY <2>4, <2>5
<1>4. QED
    BY <1>1, <1>2, <1>3

\* _add_seen of a new id: with it, and without the oldest if there are too many.
LEMMA AddSeenCases ==
    ASSUME NEW s \in SeenType, SeenOK(s), NEW e \in Calls, e \notin s.ids
    PROVE  LET t == Append(s.order, e)
           IN  /\ t \in Seq(Calls) /\ Distinct(t) /\ Range(t) = s.ids \cup {e} /\ t # <<>>
               /\ \/ AddSeen(s, e) = [ids |-> s.ids \cup {e}, order |-> t]
                  \/ /\ AddSeen(s, e) = [ids |-> (s.ids \cup {e}) \ {Head(t)}, order |-> Tail(t)]
                     /\ Len(t) > MaxSeen /\ Head(t) # e /\ Head(t) \in s.ids
<1> DEFINE t == Append(s.order, e)
<1>1. s.order \in Seq(Calls) /\ Distinct(s.order) /\ e \notin Range(s.order) /\ s.ids = Range(s.order)
    BY DEF SeenOK, SeenType
<1>2. t \in Seq(Calls) /\ Distinct(t) /\ Range(t) = s.ids \cup {e} /\ Len(t) = Len(s.order) + 1
      /\ t # <<>>
    <2>1. t \in Seq(Calls) /\ Distinct(t) /\ Range(t) = s.ids \cup {e} /\ Len(t) = Len(s.order) + 1
        BY <1>1, AppendFacts
    <2>2. t # <<>>
        <3>1. s.order \in Seq(Calls) /\ e \in Calls
            BY <1>1
        <3>2. QED
            BY ONLY <3>1
    <2>3. QED
        BY <2>1, <2>2
<1>3. CASE Len(t) > MaxSeen
    <2>1. s.order # <<>>
        BY <1>1, <1>2, <1>3, Numbers
    <2>2. Head(t) = Head(s.order) /\ Head(s.order) \in Range(s.order)
        BY <1>1, <2>1, TailFacts, HeadTailAppend
    <2>3. QED
        BY <1>1, <1>2, <1>3, <2>2 DEF AddSeen
<1>4. CASE ~(Len(t) > MaxSeen)
    BY <1>2, <1>4 DEF AddSeen
<1>5. QED
    BY <1>2, <1>3, <1>4

\* What may be handled while c is exposed, in number.
LEMMA MayFacts ==
    ASSUME TypeOK, QueueInv, NEW c \in Calls
    PROVE  /\ May(c) \subseteq Calls /\ c \in May(c)
           /\ Cardinality(Near(c)) =< 2 * PollPage - 1
           /\ Cardinality(May(c)) =< 3 * PollPage + HubCap
<1>1. /\ PollPage \in Nat \ {0} /\ HubCap \in Nat /\ c \in Nat /\ IsFiniteSet(Calls)
      /\ hub \in Seq(Event) /\ page \in Seq(Calls)
    BY Numbers DEF TypeOK
<1>2. Near(c) \subseteq (c - PollPage + 1)..(c + PollPage - 1)
    <2>1. ASSUME NEW x \in Near(c) PROVE x \in (c - PollPage + 1)..(c + PollPage - 1)
        <3>1. x \in Nat /\ x > c - PollPage /\ x < c + PollPage
            BY Numbers DEF Near
        <3>2. QED
            BY <1>1, <3>1
    <2>2. QED
        BY <2>1
<1>3. /\ IsFiniteSet((c - PollPage + 1)..(c + PollPage - 1))
      /\ Cardinality((c - PollPage + 1)..(c + PollPage - 1)) = 2 * PollPage - 1
    <2>1. c - PollPage + 1 \in Int /\ c + PollPage - 1 \in Int
        BY <1>1
    <2>2. /\ IsFiniteSet((c - PollPage + 1)..(c + PollPage - 1))
          /\ Cardinality((c - PollPage + 1)..(c + PollPage - 1)) =
                IF c - PollPage + 1 > c + PollPage - 1 THEN 0
                ELSE (c + PollPage - 1) - (c - PollPage + 1) + 1
        BY <2>1, FS_Interval
    <2>3. QED
        BY <1>1, <2>2
<1>4. IsFiniteSet(Near(c)) /\ Cardinality(Near(c)) =< 2 * PollPage - 1
    BY <1>2, <1>3, FS_Subset
<1>5. IsFiniteSet(HubCalls) /\ Cardinality(HubCalls) =< HubCap /\ HubCalls \subseteq Calls
    <2> DEFINE f == [i \in 1..Len(hub) |-> hub[i].call]
    <2>1. Len(hub) \in Nat /\ Len(hub) =< HubCap
        BY <1>1 DEF QueueInv
    <2>2. IsFiniteSet(1..Len(hub)) /\ Cardinality(1..Len(hub)) = Len(hub)
        <3>1. IsFiniteSet(1..Len(hub))
              /\ Cardinality(1..Len(hub)) = IF 1 > Len(hub) THEN 0 ELSE Len(hub) - 1 + 1
            BY <2>1, FS_Interval
        <3>2. QED
            BY <2>1, <3>1
    <2>3. f \in Surjection(1..Len(hub), HubCalls)
        BY DEF Surjection, HubCalls
    <2>4. IsFiniteSet(HubCalls) /\ Cardinality(HubCalls) =< Cardinality(1..Len(hub))
        BY <2>2, <2>3, FS_Surjection
    <2>5. Cardinality(HubCalls) \in Nat
        BY <2>4, FS_CardinalityType
    <2>6. HubCalls \subseteq Calls
        <3>1. ASSUME NEW i \in 1..Len(hub) PROVE hub[i].call \in Calls
            <4>1. hub[i] \in Event
                BY <1>1
            <4>2. QED
                BY <4>1 DEF Event
        <3>2. QED
            BY <3>1 DEF HubCalls
    <2>7. QED
        BY <1>1, <2>1, <2>2, <2>4, <2>5, <2>6
<1>6. IsFiniteSet(Range(page)) /\ Cardinality(Range(page)) =< PollPage /\ Range(page) \subseteq Calls
    <2>1. Len(page) \in Nat /\ Len(page) =< PollPage /\ DOMAIN page = 1..Len(page)
        BY <1>1 DEF QueueInv
    <2>2. IsFiniteSet(1..Len(page)) /\ Cardinality(1..Len(page)) = Len(page)
        <3>1. IsFiniteSet(1..Len(page))
              /\ Cardinality(1..Len(page)) = IF 1 > Len(page) THEN 0 ELSE Len(page) - 1 + 1
            BY <2>1, FS_Interval
        <3>2. QED
            BY <2>1, <3>1
    <2>3. page \in Surjection(1..Len(page), Range(page))
        BY <1>1 DEF Surjection, Range
    <2>4. IsFiniteSet(Range(page)) /\ Cardinality(Range(page)) =< Cardinality(1..Len(page))
        BY <2>2, <2>3, FS_Surjection
    <2>5. Cardinality(Range(page)) \in Nat
        BY <2>4, FS_CardinalityType
    <2>6. Range(page) \subseteq Calls
        BY <1>1 DEF Range
    <2>7. QED
        BY <1>1, <2>1, <2>2, <2>4, <2>5, <2>6
<1>7. IsFiniteSet(HubCalls \cup Range(page))
      /\ Cardinality(HubCalls \cup Range(page)) =< HubCap + PollPage
    <2>1. /\ IsFiniteSet(HubCalls \cup Range(page)) /\ IsFiniteSet(HubCalls \cap Range(page))
          /\ Cardinality(HubCalls \cup Range(page)) =
                Cardinality(HubCalls) + Cardinality(Range(page)) - Cardinality(HubCalls \cap Range(page))
        BY <1>5, <1>6, FS_Union, FS_Subset
    <2>2. Cardinality(HubCalls) \in Nat /\ Cardinality(Range(page)) \in Nat
          /\ Cardinality(HubCalls \cap Range(page)) \in Nat
        BY <1>5, <1>6, <2>1, FS_CardinalityType
    <2>3. QED
        BY <1>1, <1>5, <1>6, <2>1, <2>2
<1>8. IsFiniteSet(Queued) /\ Cardinality(Queued) =< HubCap + PollPage + 1 /\ Queued \subseteq Calls
    <2> DEFINE both == HubCalls \cup Range(page)
    <2>1. /\ IsFiniteSet(both \cup {cur.call})
          /\ \/ Cardinality(both \cup {cur.call}) = Cardinality(both)
             \/ Cardinality(both \cup {cur.call}) = Cardinality(both) + 1
        BY <1>7, FS_AddElement
    <2>2. Queued \subseteq both \cup {cur.call}
        BY DEF Queued
    <2>3. IsFiniteSet(Queued) /\ Cardinality(Queued) =< Cardinality(both \cup {cur.call})
        BY <2>1, <2>2, FS_Subset
    <2>4. Cardinality(Queued) \in Nat /\ Cardinality(both) \in Nat
        BY <1>7, <2>3, FS_CardinalityType
    <2>5. Queued \subseteq Calls
        BY <1>5, <1>6 DEF Queued
    <2> HIDE DEF both
    <2>6. Cardinality(both) =< HubCap + PollPage
        BY <1>7 DEF both
    <2>7. QED
        BY <1>1, <2>1, <2>3, <2>4, <2>5, <2>6
<1>9. May(c) \subseteq Calls /\ c \in May(c)
    <2>1. c > c - PollPage /\ c < c + PollPage
        BY <1>1
    <2>2. QED
        BY <1>8, <2>1 DEF May, Near
<1>10. Cardinality(May(c)) =< 3 * PollPage + HubCap
    <2> DEFINE old == {x \in Queued : x =< c - PollPage}
    <2>1. IsFiniteSet(old) /\ Cardinality(old) =< Cardinality(Queued)
        BY <1>8, FS_Subset
    <2>2. /\ IsFiniteSet(Near(c) \cap old)
          /\ Cardinality(Near(c) \cup old) =
                Cardinality(Near(c)) + Cardinality(old) - Cardinality(Near(c) \cap old)
        BY <1>4, <2>1, FS_Union, FS_Subset
    <2>3. /\ Cardinality(Near(c)) \in Nat /\ Cardinality(old) \in Nat /\ Cardinality(Queued) \in Nat
          /\ Cardinality(Near(c) \cap old) \in Nat
        BY <1>4, <1>8, <2>1, <2>2, FS_CardinalityType
    <2>4. May(c) = Near(c) \cup old
        BY DEF May
    <2> HIDE DEF old
    <2>5. Cardinality(May(c)) =< (2 * PollPage - 1) + (HubCap + PollPage + 1)
        BY <1>1, <1>4, <1>8, <2>1, <2>2, <2>3, <2>4
    <2>6. Cardinality(May(c)) \in Nat
        BY <1>9, Numbers, FS_Subset, FS_CardinalityType
    <2>7. QED
        BY <1>1, <2>5, <2>6
<1>11. QED
    BY <1>4, <1>9, <1>10

\* A new id behind the others: the room that is left, and who is dropped.
LEMMA AddsRoom ==
    ASSUME seen \in SeenType, SeenOK(seen), NEW e \in Calls, e \notin seen.ids,
           seen' = AddSeen(seen, e), Owing' \subseteq Calls,
           \A c \in Calls : May(c)' \subseteq Calls /\ c \in May(c)',
           \A c \in seen.ids : Exposed(c)' =>
              Weight(Behind(seen.order, c) \cup {e}, May(c)', Owing') =< Most,
           Weight({}, May(e)', Owing') =< Most
    PROVE  /\ Room'
           /\ (Fits => \A h \in seen.ids \ seen'.ids : ~Exposed(h)')
           /\ seen'.ids \subseteq seen.ids \cup {e}
<1> DEFINE t == Append(seen.order, e)
<1>1. /\ t \in Seq(Calls) /\ Distinct(t) /\ Range(t) = seen.ids \cup {e} /\ t # <<>>
      /\ \/ seen' = [ids |-> seen.ids \cup {e}, order |-> t]
         \/ /\ seen' = [ids |-> (seen.ids \cup {e}) \ {Head(t)}, order |-> Tail(t)]
            /\ Len(t) > MaxSeen /\ Head(t) # e /\ Head(t) \in seen.ids
    BY AddSeenCases
<1>2. /\ \A c \in seen.ids : Behind(t, c) = Behind(seen.order, c) \cup {e}
      /\ Behind(t, e) = {}
    <2>1. seen.order \in Seq(Calls) /\ Range(seen.order) = seen.ids
        BY DEF SeenOK, SeenType
    <2>2. QED
        BY <2>1, BehindAppend
<1>3. seen.ids \subseteq Calls
    BY DEF SeenType
<1> HIDE DEF t
<1>4. ASSUME NEW c \in seen.ids \cup {e}, Exposed(c)'
      PROVE  Weight(Behind(t, c), May(c)', Owing') =< Most
    BY <1>2, <1>4
<1>5. CASE seen' = [ids |-> seen.ids \cup {e}, order |-> t]
    BY <1>4, <1>5 DEF Room
<1>6. CASE /\ seen' = [ids |-> (seen.ids \cup {e}) \ {Head(t)}, order |-> Tail(t)]
           /\ Len(t) > MaxSeen /\ Head(t) # e /\ Head(t) \in seen.ids
    <2>0. PICK h \in seen.ids : h = Head(t)
        BY <1>6
    <2>1. /\ \A c \in Range(t) \ {h} : Behind(Tail(t), c) = Behind(t, c)
          /\ Len(t) - 1 =< Cardinality(Behind(t, h))
          /\ h \notin Behind(t, h)
        BY <1>1, <2>0, BehindTail
    <2>2. seen'.ids = (seen.ids \cup {e}) \ {h} /\ seen'.order = Tail(t) /\ h \in Calls
        BY <1>3, <1>6, <2>0
    <2>3. Len(t) > MaxSeen /\ Len(t) \in Nat /\ MaxSeen \in Nat /\ Most \in Nat
        BY <1>1, <1>6, Numbers
    <2>4. Room'
        BY <1>1, <1>4, <2>1, <2>2 DEF Room
    <2>9. NCalls =< MaxSeen => FALSE
        BY <1>1, <2>3, DistinctFit, Numbers
    <2>5. ASSUME Fits, Exposed(h)' PROVE FALSE
        <3>9. MaxSeen >= Most
            BY <2>5, <2>9 DEF Fits
        <3>1. Weight(Behind(t, h), May(h)', Owing') =< Most
            BY <1>4, <2>5
        <3>2. Behind(t, h) \subseteq Calls
            BY DEF Behind
        <3>3. /\ Cardinality(Behind(t, h) \cup May(h)') =< Weight(Behind(t, h), May(h)', Owing')
              /\ Weight(Behind(t, h), May(h)', Owing') \in Nat
              /\ Cardinality(Behind(t, h) \cup May(h)') \in Nat
            BY <2>2, <3>2, WeightNat
        <3>4. IsFiniteSet(Behind(t, h)) /\ IsFiniteSet(Behind(t, h) \cup May(h)')
            BY <2>2, <3>2, Numbers, FS_Subset
        <3>5. IsFiniteSet(Behind(t, h) \cup {h})
              /\ Cardinality(Behind(t, h) \cup {h}) = Cardinality(Behind(t, h)) + 1
            BY <2>1, <3>4, FS_AddElement
        <3>6. Cardinality(Behind(t, h) \cup {h}) =< Cardinality(Behind(t, h) \cup May(h)')
            <4>1. Behind(t, h) \cup {h} \subseteq Behind(t, h) \cup May(h)'
                BY <2>2
            <4>2. QED
                BY <3>4, <4>1, FS_Subset
        <3>7. Cardinality(Behind(t, h)) \in Nat
            BY <3>4, FS_CardinalityType
        <3>8. QED
            BY <2>1, <2>3, <3>1, <3>3, <3>5, <3>6, <3>7, <3>9
    <2>6. Fits => \A x \in seen.ids \ seen'.ids : ~Exposed(x)'
        <3>1. ASSUME NEW x \in seen.ids \ seen'.ids PROVE x = h
            BY <2>2
        <3>2. QED
            BY <2>5, <3>1
    <2>7. seen'.ids \subseteq seen.ids \cup {e}
        BY <2>2
    <2>8. QED
        BY <2>4, <2>6, <2>7
<1>7. QED
    BY <1>1, <1>5, <1>6

\* Recording a round of call d leaves room, if d may be handled as long as any
\* exposed seen id is; and what it drops from the seen ids is exposed no more.
LEMMA RecordRoom ==
    ASSUME NInv, NEW d \in Calls, d \notin seen.ids, NEW failed \in SUBSET Users,
           Record(d, failed), last' = last, Queued' \subseteq Queued,
           \A c \in seen.ids : Exposed(c) => d \in May(c)
    PROVE  /\ Room'
           /\ (Fits => \A h \in seen.ids \ seen'.ids : ~Exposed(h)')
           /\ seen'.ids \cup Owing' \subseteq seen.ids \cup Owing \cup {d}
<1>1. /\ TypeOK /\ QueueInv /\ seen \in SeenType /\ SeenOK(seen) /\ pend \in PendType /\ PendOK(pend)
      /\ NoneBoth(seen, pend) /\ seen.ids \subseteq Calls
    BY DEF NInv, IInv, TypeOK, SeenType, PendType, SeenConsistent, PendingConsistent, PendingNotSeen
<1> DEFINE r == Recorded(seen, pend, d, failed)
<1>2. seen' = r.seen /\ pend' = r.pend
    BY DEF Record
<1>3. \/ Settles(seen, pend, d, r)
      \/ Stores(seen, pend, d, failed, r)
      \/ \E e \in Calls : GivesUp(seen, pend, d, failed, r, e)
    BY <1>1, RecordedCases
<1> HIDE DEF r
<1>4. ASSUME NEW c \in Calls
      PROVE  /\ May(c) \subseteq Calls /\ May(c)' \subseteq May(c) /\ c \in May(c)'
             /\ Cardinality(May(c)) =< 3 * PollPage + HubCap
             /\ Exposed(c)' => Exposed(c)
    <2>1. May(c) \subseteq Calls /\ Cardinality(May(c)) =< 3 * PollPage + HubCap
        BY <1>1, MayFacts
    <2>2. c \in Near(c)
        <3>1. c \in Nat /\ PollPage \in Nat \ {0}
            BY Numbers
        <3>2. c > c - PollPage /\ c < c + PollPage
            BY <3>1
        <3>3. QED
            BY <3>2 DEF Near
    <2>3. QED
        BY <2>1, <2>2 DEF May, Near, Exposed
<1>5. ASSUME NEW c \in Calls
      PROVE  /\ Behind(seen.order, c) \subseteq Calls /\ Behind(seen.order, c) \subseteq seen.ids
             /\ d \notin Behind(seen.order, c)
    <2>1. seen.ids = Range(seen.order) /\ seen.order \in Seq(Calls)
        BY <1>1 DEF SeenOK, SeenType
    <2>2. ASSUME NEW x \in Behind(seen.order, c) PROVE x \in Range(seen.order)
        BY <2>1, InRange DEF Behind
    <2>3. QED
        BY <1>1, <2>1, <2>2
<1>6. ASSUME NEW c \in seen.ids, Exposed(c)
      PROVE  Weight(Behind(seen.order, c), May(c), Owing) =< Most /\ d \in May(c)
    BY <1>6 DEF NInv, Room
<1>7. Owing \subseteq Calls /\ Owing' \subseteq Calls
    BY DEF Owing
<1>8. ASSUME NEW c \in Calls PROVE Weight({}, May(c)', Owing') =< Most
    <2> DEFINE F == May(c)'
    <2>1. F \subseteq May(c) /\ IsFiniteSet(May(c)) /\ F \subseteq Calls
        BY <1>4, Numbers, FS_Subset
    <2>2. Cardinality(F) =< Cardinality(May(c)) /\ IsFiniteSet(F)
        BY <2>1, FS_Subset
    <2>3. Cardinality(F \ Owing') =< Cardinality(F) /\ IsFiniteSet(F \ Owing')
        BY <2>2, FS_Subset
    <2>4. Cardinality(F) \in Nat /\ Cardinality(F \ Owing') \in Nat /\ Cardinality(May(c)) \in Nat
        BY <2>1, <2>2, <2>3, FS_CardinalityType
    <2>5. {} \cup F = F /\ F \ ({} \cup Owing') = F \ Owing'
        OBVIOUS
    <2>6. Cardinality(May(c)) =< 3 * PollPage + HubCap
        BY <1>4
    <2> HIDE DEF F
    <2>7. Weight({}, F, Owing') = Cardinality(F) + Cardinality(F \ Owing')
        BY <2>5 DEF Weight
    <2>8. PrePage \in Nat /\ PollPage \in Nat /\ HubCap \in Nat
        BY Numbers
    <2>9. Weight({}, F, Owing') =< PrePage + 2 * (3 * PollPage + HubCap)
        BY <2>2, <2>3, <2>4, <2>6, <2>7, <2>8
    <2>10. QED
        BY <2>9 DEF Most, F
<1>9. CASE Settles(seen, pend, d, r)
    <2>1. seen' = AddSeen(seen, d) /\ pend'.info[d] = NoDelivery
          /\ \A x \in Calls : x # d => pend'.info[x] = pend.info[x]
        BY <1>2, <1>9 DEF Settles
    <2>2. Owing' = Owing \ {d}
        BY <2>1 DEF Owing, NoDelivery
    <2>3. ASSUME NEW c \in seen.ids, Exposed(c)'
          PROVE  Weight(Behind(seen.order, c) \cup {d}, May(c)', Owing') =< Most
        <3>1. c \in Calls /\ Exposed(c)
            BY <1>1, <1>4, <2>3
        <3>2. Weight(Behind(seen.order, c) \cup {d}, May(c)', Owing')
                =< Weight(Behind(seen.order, c), May(c), Owing)
            <4>1. /\ (Behind(seen.order, c) \cup {d}) \cup May(c)' \subseteq Behind(seen.order, c) \cup May(c)
                  /\ May(c)' \subseteq May(c) /\ May(c)' \in SUBSET Calls
                  /\ Behind(seen.order, c) \cup Owing \subseteq (Behind(seen.order, c) \cup {d}) \cup Owing'
                  /\ Behind(seen.order, c) \cup {d} \in SUBSET Calls
                BY <1>4, <1>5, <1>6, <2>2, <3>1
            <4>2. QED
                BY <1>4, <1>5, <1>7, <3>1, <4>1, WeightShrinks
        <3>3. QED
            <4>1. /\ Weight(Behind(seen.order, c) \cup {d}, May(c)', Owing') \in Nat
                  /\ Weight(Behind(seen.order, c), May(c), Owing) \in Nat
                <5>1. May(c)' \in SUBSET Calls /\ Behind(seen.order, c) \cup {d} \in SUBSET Calls
                    BY <1>4, <1>5, <3>1
                <5>2. QED
                    BY <1>4, <1>5, <1>7, <3>1, <5>1, WeightNat
            <4>2. Weight(Behind(seen.order, c), May(c), Owing) =< Most /\ Most \in Nat
                BY <1>6, <3>1, Numbers
            <4>3. QED
                BY <3>2, <4>1, <4>2
    <2>4. /\ Room'
          /\ (Fits => \A h \in seen.ids \ seen'.ids : ~Exposed(h)')
          /\ seen'.ids \subseteq seen.ids \cup {d}
        <3>1. \A c \in Calls : May(c)' \subseteq Calls /\ c \in May(c)'
            BY <1>4
        <3>2. QED
            BY <1>1, <1>7, <1>8, <2>1, <2>3, <3>1, AddsRoom
    <2>5. seen'.ids \cup Owing' \subseteq seen.ids \cup Owing \cup {d}
        BY <2>2, <2>4
    <2>6. QED
        BY <2>4, <2>5
<1>10. CASE Stores(seen, pend, d, failed, r)
    <2>1. seen' = seen /\ \A x \in Calls : x # d => pend'.info[x] = pend.info[x]
        BY <1>2, <1>10 DEF Stores
    <2>2. Owing \subseteq Owing' \cup {d} /\ Owing' \subseteq Owing \cup {d} /\ d \in Owing'
        <3>1. pend'.info[d].rounds = pend.info[d].rounds + 1
            BY <1>2, <1>10 DEF Stores, LeftOver
        <3>2. pend.info[d].rounds \in Nat
            BY <1>1 DEF PendType, Delivery
        <3>3. pend'.info[d].rounds > 0
            BY <3>1, <3>2
        <3>4. QED
            BY <2>1, <3>3 DEF Owing
    <2>3. ASSUME NEW c \in seen.ids, Exposed(c)'
          PROVE  Weight(Behind(seen.order, c), May(c)', Owing') =< Most
        <3>1. c \in Calls /\ Exposed(c)
            BY <1>1, <1>4, <2>3
        <3>2. May(c)' \in SUBSET Calls
            BY <1>4, <3>1
        <3>3. Weight(Behind(seen.order, c), May(c)', Owing')
                =< Weight(Behind(seen.order, c), May(c), Owing)
            <4>1. /\ Behind(seen.order, c) \cup May(c)' \subseteq Behind(seen.order, c) \cup May(c)
                  /\ May(c)' \subseteq May(c)
                  /\ Behind(seen.order, c) \cup Owing \subseteq Behind(seen.order, c) \cup Owing'
                BY <1>4, <2>2, <3>1
            <4>2. QED
                BY <1>4, <1>5, <1>7, <3>1, <3>2, <4>1, WeightShrinks
        <3>4. /\ Weight(Behind(seen.order, c), May(c)', Owing') \in Nat
              /\ Weight(Behind(seen.order, c), May(c), Owing) \in Nat
            BY <1>4, <1>5, <1>7, <3>1, <3>2, WeightNat
        <3>5. Weight(Behind(seen.order, c), May(c), Owing) =< Most /\ Most \in Nat
            BY <1>6, <3>1, Numbers
        <3>6. QED
            BY <3>3, <3>4, <3>5
    <2>4. Room'
        BY <2>1, <2>3 DEF Room
    <2>5. QED
        BY <2>1, <2>2, <2>4
<1>11. CASE \E e \in Calls : GivesUp(seen, pend, d, failed, r, e)
    <2>1. PICK e \in Calls : GivesUp(seen, pend, d, failed, r, e)
        BY <1>11
    <2>2. /\ seen' = AddSeen(seen, e) /\ e # d /\ e \notin seen.ids
          /\ pend'.info[e] = NoDelivery /\ pend'.info[d].rounds = pend.info[d].rounds + 1
          /\ ~(pend.info[d].rounds > 0) /\ pend.info[e].rounds > 0
          /\ \A x \in Calls : x # d /\ x # e => pend'.info[x] = pend.info[x]
        BY <1>2, <2>1 DEF GivesUp, LeftOver
    <2>3. Owing' = (Owing \cup {d}) \ {e} /\ d \notin Owing /\ e \in Owing
        <3>1. pend.info[d].rounds \in Nat
            BY <1>1 DEF PendType, Delivery
        <3>2. pend'.info[d].rounds > 0
            BY <2>2, <3>1
        <3>3. QED
            BY <2>2, <3>2 DEF Owing, NoDelivery
    <2>4. ASSUME NEW c \in seen.ids, Exposed(c)'
          PROVE  Weight(Behind(seen.order, c) \cup {e}, May(c)', Owing') =< Most
        <3>1. c \in Calls /\ Exposed(c)
            BY <1>1, <1>4, <2>4
        <3>2. /\ May(c)' \in SUBSET Calls /\ May(c)' \subseteq May(c)
              /\ Behind(seen.order, c) \cup {e} \in SUBSET Calls
              /\ d \in May(c) \ (Behind(seen.order, c) \cup Owing)
              /\ Behind(seen.order, c) \cup Owing \cup {d}
                    \subseteq Behind(seen.order, c) \cup {e} \cup Owing'
            BY <1>4, <1>5, <1>6, <2>3, <3>1
        <3>3. Weight(Behind(seen.order, c) \cup {e}, May(c)', Owing')
                =< Weight(Behind(seen.order, c), May(c), Owing)
            BY <1>4, <1>5, <1>7, <3>1, <3>2, WeightPays
        <3>4. /\ Weight(Behind(seen.order, c) \cup {e}, May(c)', Owing') \in Nat
              /\ Weight(Behind(seen.order, c), May(c), Owing) \in Nat
            BY <1>4, <1>5, <1>7, <3>1, <3>2, WeightNat
        <3>5. Weight(Behind(seen.order, c), May(c), Owing) =< Most /\ Most \in Nat
            BY <1>6, <3>1, Numbers
        <3>6. QED
            BY <3>3, <3>4, <3>5
    <2>5. /\ Room'
          /\ (Fits => \A h \in seen.ids \ seen'.ids : ~Exposed(h)')
          /\ seen'.ids \subseteq seen.ids \cup {e}
        <3>1. \A c \in Calls : May(c)' \subseteq Calls /\ c \in May(c)'
            BY <1>4
        <3>2. QED
            BY <1>1, <1>7, <1>8, <2>2, <2>4, <3>1, AddsRoom
    <2>6. seen'.ids \cup Owing' \subseteq seen.ids \cup Owing \cup {d}
        BY <2>3, <2>5
    <2>7. QED
        BY <2>5, <2>6
<1>12. QED
    BY <1>3, <1>9, <1>10, <1>11

----------------------------------------------------------------------------
(* The queues: the pushes received, the page fetched, the round in progress. *)

\* What a step may do to the queues: whatever is queued after it was queued
\* before or is on the log page.
QueueStep ==
    /\ QueueInv' /\ last =< last'
    /\ \A x \in Queued' : x \in Queued \/ x > last - PollPage

\* The places of a queue that loses its first entry, and of one that gains one.
LEMMA TailPlaces ==
    ASSUME NEW S, NEW s \in Seq(S), s # <<>>
    PROVE  /\ Len(s) \in Nat \ {0} /\ Len(Tail(s)) = Len(s) - 1 /\ Head(s) = s[1] /\ 1 \in 1..Len(s)
           /\ \A i \in 1..Len(Tail(s)) : Tail(s)[i] = s[i + 1] /\ i + 1 \in 1..Len(s) /\ 1 < i + 1
OBVIOUS

\* And one of them is the new entry, at the end.
LEMMA AppendPlaces ==
    ASSUME NEW S, NEW s \in Seq(S), NEW e \in S
    PROVE  /\ Len(s) \in Nat /\ Len(Append(s, e)) = Len(s) + 1
           /\ \A i \in 1..Len(s) : Append(s, e)[i] = s[i]
           /\ Append(s, e)[Len(s) + 1] = e
           /\ \A i \in 1..(Len(s) + 1) : i \in 1..Len(s) \/ i = Len(s) + 1
OBVIOUS

\* The queues, one by one, now and after a step.
InHub(x) == \E i \in 1..Len(hub) : x = hub[i].call
InPage(x) == \E i \in 1..Len(page) : x = page[i]
QueuedPlaces == \A x \in Calls : x \in Queued <=> (InHub(x) \/ InPage(x) \/ x = cur.call)

\* A queued call waits in a push or a page entry, or is being sent.
LEMMA InQueued == TypeOK => QueuedPlaces
<1> SUFFICES ASSUME TypeOK, NEW x \in Calls
             PROVE  x \in Queued <=> (InHub(x) \/ InPage(x) \/ x = cur.call)
    BY DEF QueuedPlaces
<1>1. page \in Seq(Calls)
    BY DEF TypeOK
<1>2. x \in Range(page) <=> InPage(x)
    BY <1>1, InRange DEF InPage
<1>3. x \in HubCalls <=> InHub(x)
    BY DEF HubCalls, InHub
<1>4. x \in Queued <=> x \in HubCalls \/ x \in Range(page) \/ x = cur.call
    BY DEF Queued
<1> QED BY <1>2, <1>3, <1>4

\* The same after a step.
LEMMA InQueuedNext == TypeOK' => QueuedPlaces'
BY InQueued, PTL

CallsQueued ==
    /\ Queued \subseteq Calls /\ HubCalls \subseteq Calls
    /\ \A i \in 1..Len(hub) : hub[i].call \in Calls
    /\ \A i \in 1..Len(page) : page[i] \in Calls

\* Whatever is queued is a call.
LEMMA QueuedCalls == TypeOK => CallsQueued
<1> SUFFICES ASSUME TypeOK PROVE CallsQueued
    OBVIOUS
<1>1. hub \in Seq(Event) /\ page \in Seq(Calls)
    BY DEF TypeOK
<1>2. ASSUME NEW i \in 1..Len(hub) PROVE hub[i].call \in Calls
    <2>1. hub[i] \in Event
        BY <1>1
    <2> QED BY <2>1 DEF Event
<1>3. ASSUME NEW i \in 1..Len(page) PROVE page[i] \in Calls
    BY <1>1
<1>4. Range(page) \subseteq Calls
    BY <1>1 DEF Range
<1> QED BY <1>2, <1>3, <1>4 DEF CallsQueued, Queued, HubCalls

\* The same after a step.
LEMMA QueuedCallsNext == TypeOK' => CallsQueued'
BY QueuedCalls, PTL

\* The next push is taken from the connection: its call is no more than a page
\* newer than any call still queued.
LEMMA HubPops ==
    ASSUME TypeOK, TypeOK', QueueInv, cur = NoRound, hub # <<>>, hub' = Tail(hub),
           UNCHANGED <<last, mode, page>>, cur' = NoRound \/ cur'.call = Head(hub).call
    PROVE  /\ QueueInv' /\ Queued' \subseteq Queued /\ Head(hub).call \in Queued
           /\ \A x \in Queued : Head(hub).call < x + PollPage
<1> DEFINE d == Head(hub).call
<1>1. /\ Len(hub) \in Nat \ {0} /\ Len(hub') = Len(hub) - 1 /\ d = hub[1].call /\ 1 \in 1..Len(hub)
      /\ \A i \in 1..Len(hub') : hub'[i] = hub[i + 1] /\ i + 1 \in 1..Len(hub) /\ 1 < i + 1
    <2>1. hub \in Seq(Event)
        BY DEF TypeOK
    <2> QED BY <2>1, TailPlaces
<1>2. page = <<>> /\ page' = <<>> /\ Len(page) = 0 /\ Len(page') = 0
    BY DEF QueueInv
<1>3. PollPage \in Nat \ {0} /\ HubCap \in Nat /\ Calls \subseteq Nat /\ NoRound.call \notin Calls
    BY Numbers DEF NoRound, Calls
<1>4. \A i \in 1..Len(hub) : hub[i].call \in Calls
    BY QueuedCalls DEF CallsQueued
<1>5. d \in Calls /\ d \in Queued
    BY <1>1, <1>4, InQueued DEF QueuedPlaces, InHub, InPage
<1> HIDE DEF d
<1>6. ASSUME NEW x \in Calls, x \in Queued
      PROVE  (\E i \in 1..Len(hub) : x = hub[i].call) /\ d < x + PollPage
    <2>1. PICK i \in 1..Len(hub) : x = hub[i].call
        BY <1>2, <1>3, <1>6, InQueued DEF QueuedPlaces, InHub, InPage
    <2>2. CASE i = 1
        BY <1>1, <1>3, <1>5, <2>1, <2>2
    <2>3. CASE i # 1
        <3>1. 1 < i
            BY <1>1, <2>1, <2>3
        <3> QED BY <1>1, <2>1, <3>1 DEF QueueInv
    <2> QED BY <2>1, <2>2, <2>3
<1>7. ASSUME NEW x \in Calls, x \in Queued' PROVE x \in Queued
    <2>1. \/ \E i \in 1..Len(hub') : x = hub'[i].call
          \/ x = cur'.call
        BY <1>2, <1>7, InQueuedNext DEF QueuedPlaces, InHub, InPage
    <2>2. CASE \E i \in 1..Len(hub') : x = hub'[i].call
        BY <1>1, <2>2, InQueued DEF QueuedPlaces, InHub, InPage
    <2>3. CASE x = cur'.call
        BY <1>3, <1>5, <2>3 DEF d
    <2> QED BY <2>1, <2>2, <2>3
<1>8. Queued \subseteq Calls /\ Queued' \subseteq Calls
    BY QueuedCalls, QueuedCallsNext DEF CallsQueued
<1>9. Queued' \subseteq Queued /\ \A x \in Queued : d < x + PollPage
    BY <1>6, <1>7, <1>8
<1>10. \A x \in Queued' : x =< last'
    BY <1>9 DEF QueueInv
<1>11. Len(hub') =< HubCap /\ Len(page') =< PollPage
    BY <1>1, <1>2, <1>3 DEF QueueInv
<1>12. (mode' # "page" => page' = <<>>) /\ (mode' # "hub" => hub' = <<>>)
    BY <1>2 DEF QueueInv
<1>13. ASSUME NEW i \in 1..Len(hub'), NEW j \in 1..Len(hub'), i < j
       PROVE  hub'[i].call < hub'[j].call + PollPage
    <2>1. i + 1 < j + 1
        BY <1>1, <1>13
    <2> QED BY <1>1, <2>1 DEF QueueInv
<1>14. \A i, j \in 1..Len(page') : i < j => page'[i] < page'[j] + PollPage
    BY <1>2
<1>15. cur' # NoRound => \A x \in HubCalls' \cup Range(page') : cur'.call < x + PollPage
    BY <1>9 DEF Queued, d
<1>16. QueueInv'
    BY <1>10, <1>11, <1>12, <1>13, <1>14, <1>15 DEF QueueInv
<1> QED BY <1>5, <1>9, <1>16 DEF d

\* The next entry of the log page is taken: the calls left are older still.
LEMMA PagePops ==
    ASSUME TypeOK, TypeOK', QueueInv, cur = NoRound, page # <<>>, page' = Tail(page),
           UNCHANGED <<last, mode, hub>>, cur' = NoRound \/ cur'.call = Head(page)
    PROVE  /\ QueueInv' /\ Queued' \subseteq Queued /\ Head(page) \in Queued
           /\ \A x \in Queued : Head(page) < x + PollPage
<1> DEFINE d == Head(page)
<1>1. /\ Len(page) \in Nat \ {0} /\ Len(page') = Len(page) - 1 /\ d = page[1] /\ 1 \in 1..Len(page)
      /\ \A i \in 1..Len(page') : page'[i] = page[i + 1] /\ i + 1 \in 1..Len(page) /\ 1 < i + 1
    <2>1. page \in Seq(Calls)
        BY DEF TypeOK
    <2> QED BY <2>1, TailPlaces
<1>2. mode = "page" /\ mode' = "page" /\ hub = <<>> /\ hub' = <<>> /\ Len(hub) = 0 /\ Len(hub') = 0
    BY DEF QueueInv
<1>3. PollPage \in Nat \ {0} /\ HubCap \in Nat /\ Calls \subseteq Nat /\ NoRound.call \notin Calls
    BY Numbers DEF NoRound, Calls
<1>4. \A i \in 1..Len(page) : page[i] \in Calls
    BY QueuedCalls DEF CallsQueued
<1>5. d \in Calls /\ d \in Queued
    BY <1>1, <1>4, InQueued DEF QueuedPlaces, InHub, InPage
<1> HIDE DEF d
<1>6. ASSUME NEW x \in Calls, x \in Queued PROVE d < x + PollPage
    <2>1. PICK i \in 1..Len(page) : x = page[i]
        BY <1>2, <1>3, <1>6, InQueued DEF QueuedPlaces, InHub, InPage
    <2>2. CASE i = 1
        BY <1>1, <1>3, <1>5, <2>1, <2>2
    <2>3. CASE i # 1
        <3>1. 1 < i
            BY <1>1, <2>1, <2>3
        <3> QED BY <1>1, <2>1, <3>1 DEF QueueInv
    <2> QED BY <2>1, <2>2, <2>3
<1>7. ASSUME NEW x \in Calls, x \in Queued' PROVE x \in Queued
    <2>1. \/ \E i \in 1..Len(page') : x = page'[i]
          \/ x = cur'.call
        BY <1>2, <1>7, InQueuedNext DEF QueuedPlaces, InHub, InPage
    <2>2. CASE \E i \in 1..Len(page') : x = page'[i]
        BY <1>1, <2>2, InQueued DEF QueuedPlaces, InHub, InPage
    <2>3. CASE x = cur'.call
        BY <1>3, <1>5, <2>3 DEF d
    <2> QED BY <2>1, <2>2, <2>3
<1>8. Queued \subseteq Calls /\ Queued' \subseteq Calls
    BY QueuedCalls, QueuedCallsNext DEF CallsQueued
<1>9. Queued' \subseteq Queued /\ \A x \in Queued : d < x + PollPage
    BY <1>6, <1>7, <1>8
<1>10. \A x \in Queued' : x =< last'
    BY <1>9 DEF QueueInv
<1>11. Len(hub') =< HubCap /\ Len(page') =< PollPage
    BY <1>1, <1>2, <1>3 DEF QueueInv
<1>12. (mode' # "page" => page' = <<>>) /\ (mode' # "hub" => hub' = <<>>)
    BY <1>2 DEF QueueInv
<1>13. ASSUME NEW i \in 1..Len(page'), NEW j \in 1..Len(page'), i < j
       PROVE  page'[i] < page'[j] + PollPage
    <2>1. i + 1 < j + 1
        BY <1>1, <1>13
    <2> QED BY <1>1, <2>1 DEF QueueInv
<1>14. \A i, j \in 1..Len(hub') : i < j => hub'[i].call < hub'[j].call + PollPage
    BY <1>2
<1>15. cur' # NoRound => \A x \in HubCalls' \cup Range(page') : cur'.call < x + PollPage
    BY <1>9 DEF Queued, d
<1>16. QueueInv'
    BY <1>10, <1>11, <1>12, <1>13, <1>14, <1>15 DEF QueueInv
<1> QED BY <1>5, <1>9, <1>16 DEF d

\* A push of a recent call joins the queue, or the call only rings: the calls
\* before it are no more than a page newer.
LEMMA HubGains ==
    ASSUME TypeOK, TypeOK', QueueInv, NEW e \in Event, last =< last', e.call =< last', e.call > last' - PollPage,
           mode = "hub", Len(hub) < HubCap, hub' = Append(hub, e), UNCHANGED <<mode, page, cur>>
    PROVE  QueueStep
<1>1. /\ Len(hub) \in Nat /\ Len(hub') = Len(hub) + 1
      /\ \A i \in 1..Len(hub) : hub'[i] = hub[i]
      /\ hub'[Len(hub) + 1] = e
      /\ \A i \in 1..Len(hub') : i \in 1..Len(hub) \/ i = Len(hub) + 1
    <2>1. hub \in Seq(Event)
        BY DEF TypeOK
    <2> QED BY <2>1, AppendPlaces
<1>2. page = <<>> /\ page' = <<>> /\ Len(page) = 0 /\ Len(page') = 0
    BY DEF QueueInv
<1>3. PollPage \in Nat \ {0} /\ HubCap \in Nat /\ Calls \subseteq Nat /\ last \in Nat /\ last' \in Nat
    BY Numbers DEF TypeOK
<1>4. e.call \in Calls
    BY DEF Event
<1>5. Queued \subseteq Calls /\ Queued' \subseteq Calls
    BY QueuedCalls, QueuedCallsNext DEF CallsQueued
<1>6. ASSUME NEW x \in Queued' PROVE x \in Queued \/ x = e.call
    <2>1. x \in Calls
        BY <1>5
    <2>2. \/ \E i \in 1..Len(hub') : x = hub'[i].call
          \/ x = cur.call
        BY <1>2, <2>1, <1>6, InQueuedNext DEF QueuedPlaces, InHub, InPage
    <2>3. CASE \E i \in 1..Len(hub') : x = hub'[i].call
        <3>1. PICK i \in 1..Len(hub') : x = hub'[i].call
            BY <2>3
        <3>2. CASE i \in 1..Len(hub)
            BY <1>1, <2>1, <3>1, <3>2, InQueued DEF QueuedPlaces, InHub, InPage
        <3>3. CASE i = Len(hub) + 1
            BY <1>1, <3>1, <3>3
        <3> QED BY <1>1, <3>2, <3>3
    <2>4. CASE x = cur.call
        BY <2>1, <2>4, InQueued DEF QueuedPlaces, InHub, InPage
    <2> QED BY <2>2, <2>3, <2>4
<1>7. \A x \in Queued : x =< last
    BY DEF QueueInv
<1>17. PICK d \in Nat : d = e.call /\ d =< last' /\ d > last' - PollPage
    BY <1>3, <1>4
<1>8. ASSUME NEW x \in Queued PROVE x < e.call + PollPage
    <2>1. x =< last /\ x \in Nat
        BY <1>3, <1>5, <1>7
    <2>2. x < d + PollPage
        BY <1>3, <1>17, <2>1
    <2> QED BY <1>17, <2>2
<1>9. ASSUME NEW x \in Queued' PROVE x =< last' /\ (x \in Queued \/ x > last - PollPage)
    <2>1. CASE x = e.call
        BY <1>3, <1>17, <2>1
    <2>2. CASE x \in Queued
        <3>1. x =< last /\ x \in Nat
            BY <1>3, <1>5, <1>7, <2>2
        <3> QED BY <1>3, <2>2, <3>1
    <2> QED BY <1>6, <2>1, <2>2
<1>10. Len(hub') =< HubCap /\ Len(page') =< PollPage
    BY <1>1, <1>2, <1>3
<1>11. (mode' # "page" => page' = <<>>) /\ (mode' # "hub" => hub' = <<>>)
    BY <1>2
<1>12. ASSUME NEW i \in 1..Len(hub) PROVE hub[i].call \in Queued
    <2>1. hub[i].call \in Calls
        BY QueuedCalls DEF CallsQueued
    <2> QED BY <2>1, InQueued DEF QueuedPlaces, InHub, InPage
<1>13. ASSUME NEW i \in 1..Len(hub'), NEW j \in 1..Len(hub'), i < j
       PROVE  hub'[i].call < hub'[j].call + PollPage
    <2>1. i \in 1..Len(hub)
        BY <1>1, <1>13
    <2>2. CASE j \in 1..Len(hub)
        BY <1>1, <1>13, <2>1, <2>2 DEF QueueInv
    <2>3. CASE j = Len(hub) + 1
        BY <1>1, <1>8, <1>12, <2>1, <2>3
    <2> QED BY <1>1, <2>2, <2>3
<1>14. \A i, j \in 1..Len(page') : i < j => page'[i] < page'[j] + PollPage
    BY <1>2
<1>15. ASSUME cur' # NoRound, NEW x \in HubCalls' \cup Range(page') PROVE cur'.call < x + PollPage
    <2>1. x \in HubCalls' /\ cur # NoRound /\ cur' = cur
        BY <1>2, <1>15 DEF Range
    <2>2. PICK i \in 1..Len(hub') : x = hub'[i].call
        BY <2>1 DEF HubCalls
    <2>3. CASE i \in 1..Len(hub)
        BY <1>1, <2>1, <2>2, <2>3 DEF QueueInv, HubCalls
    <2>4. CASE i = Len(hub) + 1
        <3>1. cur.call \in Queued
            <4>1. cur.call \in Calls
                BY <2>1 DEF TypeOK, Round
            <4> QED BY <4>1, InQueued DEF QueuedPlaces
        <3> QED BY <1>1, <1>8, <2>1, <2>2, <2>4, <3>1
    <2> QED BY <1>1, <2>2, <2>3, <2>4
<1>16. QueueInv'
    BY <1>9, <1>10, <1>11, <1>13, <1>14, <1>15 DEF QueueInv
<1> QED BY <1>9, <1>16 DEF QueueStep

\* The log page is fetched, newest first.
LEMMA PageFetched ==
    ASSUME TypeOK, QueueInv, hub = <<>>, cur = NoRound, mode' = "page", page' = Newest(PollPage),
           UNCHANGED <<last, hub, cur>>
    PROVE  QueueStep
<1>1. PollPage \in Nat \ {0} /\ HubCap \in Nat /\ Calls \subseteq Nat /\ last \in Nat /\ last =< NCalls
      /\ NCalls \in Nat /\ NoRound.call \notin Calls
    BY Numbers DEF TypeOK, NoRound, Calls
<1> DEFINE n == IF PollPage < last THEN PollPage ELSE last
<1>2. n \in Nat /\ n =< PollPage /\ n =< last
    BY <1>1
<1>3. Len(page') = n /\ \A i \in 1..n : page'[i] = last + 1 - i
    BY <1>2 DEF Newest
<1> HIDE DEF n
<1>4. ASSUME NEW i \in 1..n PROVE page'[i] \in Nat /\ page'[i] =< last /\ page'[i] > last - PollPage
    BY <1>1, <1>2, <1>3
<1>5. ASSUME NEW x \in Queued' PROVE x =< last /\ x > last - PollPage
    <2>1. x \in Range(page')
        BY <1>1, <1>5 DEF Queued, HubCalls
    <2>2. page' = [i \in 1..n |-> last + 1 - i]
        BY DEF Newest, n
    <2>3. PICK i \in 1..n : x = page'[i]
        BY <2>1, <2>2 DEF Range
    <2> QED BY <1>4, <2>3
<1>6. ASSUME NEW i \in 1..Len(page'), NEW j \in 1..Len(page'), i < j
      PROVE  page'[i] < page'[j] + PollPage
    <2>1. page'[i] \in Nat /\ page'[j] \in Nat /\ page'[i] =< last /\ page'[j] > last - PollPage
        BY <1>3, <1>4
    <2> QED BY <1>1, <2>1
<1>7. QueueInv'
    <2>1. Len(hub') =< HubCap /\ Len(page') =< PollPage
        BY <1>1, <1>2, <1>3
    <2>2. \A i, j \in 1..Len(hub') : i < j => hub'[i].call < hub'[j].call + PollPage
        BY DEF QueueInv
    <2> QED BY <1>5, <1>6, <2>1, <2>2 DEF QueueInv
<1> QED BY <1>1, <1>5, <1>7 DEF QueueStep

\* The queues are emptied.
LEMMA QueuesEmptied ==
    ASSUME TypeOK, hub' = <<>>, page' = <<>>, cur' = NoRound, last' = last
    PROVE  QueueStep
<1>1. PollPage \in Nat \ {0} /\ HubCap \in Nat /\ last \in Nat /\ NoRound.call \notin Calls
    BY Numbers DEF TypeOK, NoRound, Calls
<1>2. Queued' = {}
    BY <1>1 DEF Queued, HubCalls, Range
<1>3. Len(hub') = 0 /\ Len(page') = 0
    OBVIOUS
<1>4. QueueInv'
    BY <1>1, <1>2, <1>3 DEF QueueInv
<1> QED BY <1>1, <1>2, <1>4 DEF QueueStep

\* The queues stay as they are; the round in progress goes on or ends.
LEMMA QueuesStay ==
    ASSUME TypeOK, QueueInv, UNCHANGED <<hub, page>>, last' \in Nat, last =< last',
           mode' = mode \/ (hub = <<>> /\ page = <<>>),
           cur' = NoRound \/ (cur # NoRound /\ cur'.call = cur.call)
    PROVE  QueueStep /\ Queued' \subseteq Queued
<1>1. NoRound.call \notin Calls /\ last \in Nat
    BY Numbers DEF TypeOK, NoRound, Calls
<1>2. HubCalls' = HubCalls
    BY DEF HubCalls
<1>3. Queued' \subseteq Queued
    BY <1>1, <1>2 DEF Queued
<1>4. ASSUME NEW x \in Queued' PROVE x =< last'
    <2>1. x =< last /\ x \in Nat
        <3>1. x \in Calls
            BY <1>3, <1>4, QueuedCalls DEF CallsQueued
        <3> QED BY <1>3, <1>4, <3>1, Numbers DEF QueueInv
    <2> QED BY <1>1, <2>1
<1>5. cur' # NoRound => \A x \in HubCalls' \cup Range(page') : cur'.call < x + PollPage
    BY <1>2 DEF QueueInv
<1>6. (mode' # "page" => page' = <<>>) /\ (mode' # "hub" => hub' = <<>>)
    BY DEF QueueInv
<1>7. QueueInv'
    BY <1>4, <1>5, <1>6 DEF QueueInv
<1> QED BY <1>3, <1>7 DEF QueueStep

----------------------------------------------------------------------------
(* Every step keeps the room.                                              *)

\* No call becomes exposed again, and nothing more may be handled meanwhile.
LEMMA NothingNew ==
    ASSUME TypeOK, TypeOK', QueueStep, NEW c \in Calls
    PROVE  /\ Exposed(c)' => Exposed(c)
           /\ c =< last => May(c)' \subseteq May(c)
<1>1. last \in Nat /\ last' \in Nat /\ PollPage \in Nat /\ Calls \subseteq Nat /\ last =< last'
    BY Numbers DEF TypeOK, QueueStep
<1>2. Queued' \subseteq Calls
    BY QueuedCallsNext DEF CallsQueued
<1>3. ASSUME c > last' - PollPage PROVE c > last - PollPage
    <2>1. ASSUME NEW m \in Nat, NEW n \in Nat, NEW p \in Nat, NEW x \in Nat, m =< n, x > n - p
          PROVE  x > m - p
        BY <2>1
    <2>2. c \in Nat
        BY <1>1
    <2> QED BY ONLY <1>1, <1>3, <2>1, <2>2
<1>4. Exposed(c)' => Exposed(c)
    BY <1>3 DEF Exposed, QueueStep
<1>5. ASSUME c =< last, NEW x \in Queued', x =< c - PollPage PROVE x \in Queued
    <2>1. ~(x > last - PollPage)
        BY <1>1, <1>2, <1>5
    <2> QED BY <1>5, <2>1 DEF QueueStep
<1>6. c =< last => May(c)' \subseteq May(c)
    BY <1>5 DEF May, Near
<1> QED BY <1>4, <1>6

\* The seen ids have rung, and behind each there are only seen ids.
LEMMA SeenFacts ==
    ASSUME NInv, NEW c \in seen.ids
    PROVE  /\ c \in Calls /\ c =< last
           /\ Behind(seen.order, c) \in SUBSET Calls
           /\ Owing \in SUBSET Calls
BY DEF NInv, IInv, TypeOK, Rung, Behind, Owing

\* A step that leaves the caches alone leaves the room.
LEMMA CachesStay ==
    ASSUME NInv, TypeOK', QueueStep, UNCHANGED <<seen, pend>>
    PROVE  Rung' /\ Room'
<1>1. TypeOK /\ QueueInv /\ last \in Nat /\ last' \in Nat /\ last =< last' /\ Calls \subseteq Nat
    BY Numbers DEF NInv, IInv, TypeOK, QueueStep
<1>2. Owing' = Owing /\ Owing \subseteq Calls /\ seen.ids \subseteq Calls
    BY <1>1 DEF Owing, TypeOK
<1>3. ASSUME NEW x \in seen.ids \cup Owing PROVE x =< last'
    <2>1. x =< last /\ x \in Nat
        BY <1>1, <1>2, <1>3 DEF NInv, Rung
    <2> QED BY <1>1, <2>1
<1>4. Rung'
    BY <1>2, <1>3 DEF Rung
<1>5. ASSUME NEW c \in seen.ids, Exposed(c)'
      PROVE  Weight(Behind(seen.order, c), May(c)', Owing) =< Most
    <2>1. /\ c \in Calls /\ c =< last /\ Behind(seen.order, c) \in SUBSET Calls
          /\ Owing \in SUBSET Calls
        BY SeenFacts
    <2>2. Exposed(c) /\ May(c)' \subseteq May(c) /\ May(c) \in SUBSET Calls /\ May(c)' \in SUBSET Calls
        BY <1>1, <1>5, <2>1, NothingNew, MayFacts
    <2>3. Weight(Behind(seen.order, c), May(c)', Owing) =< Weight(Behind(seen.order, c), May(c), Owing)
        <3>1. Behind(seen.order, c) \cup May(c)' \subseteq Behind(seen.order, c) \cup May(c)
            BY <2>2
        <3> QED BY <2>1, <2>2, <3>1, WeightShrinks
    <2>4. /\ Weight(Behind(seen.order, c), May(c)', Owing) \in Nat
          /\ Weight(Behind(seen.order, c), May(c), Owing) \in Nat
        BY <2>1, <2>2, WeightNat
    <2>5. Weight(Behind(seen.order, c), May(c), Owing) =< Most /\ Most \in Nat
        BY <2>2, Numbers DEF NInv, Room
    <2> QED BY <2>3, <2>4, <2>5
<1>6. Room'
    BY <1>2, <1>5 DEF Room
<1> QED BY <1>4, <1>6

\* What is handled now may be handled as long as any exposed seen id is.
LEMMA HandledClose ==
    ASSUME NInv, NEW d \in Queued, \A x \in Queued : d < x + PollPage,
           NEW c \in seen.ids, Exposed(c)
    PROVE  d \in May(c)
<1>1. /\ TypeOK /\ c \in Calls /\ Calls \subseteq Nat /\ last \in Nat /\ PollPage \in Nat
      /\ d \in Calls /\ d =< last
    <2>1. TypeOK /\ QueueInv
        BY DEF NInv, IInv
    <2>2. d \in Calls /\ d =< last
        BY <2>1, QueuedCalls DEF QueueInv, CallsQueued
    <2> QED BY <2>1, <2>2, SeenFacts, Numbers DEF TypeOK
<1>2. d < c + PollPage
    <2>1. CASE c \in Queued
        BY <2>1
    <2>2. CASE c > last - PollPage
        BY <1>1, <2>2
    <2> QED BY <2>1, <2>2 DEF Exposed
<1>3. d > c - PollPage \/ d =< c - PollPage
    BY <1>1
<1> QED BY <1>1, <1>2, <1>3 DEF May, Near

\* What a step leaves: the room, no call exposed again, no exposed id dropped.
NothingReturns == \A c \in Calls : Exposed(c)' => Exposed(c)
KeepsExposed == Fits => \A h \in seen.ids \ seen'.ids : ~Exposed(h)'
Leaves == Rung' /\ Room' /\ NothingReturns /\ KeepsExposed

\* Recording the round of a call taken from a queue.
LEMMA RecordLeaves ==
    ASSUME NInv, NEW d \in Queued, \A x \in Queued : d < x + PollPage, d \notin seen.ids,
           NEW failed \in SUBSET Users, Record(d, failed), last' = last, Queued' \subseteq Queued
    PROVE  Leaves
<1>1. d \in Calls /\ d =< last
    BY QueuedCalls DEF NInv, IInv, QueueInv, CallsQueued
<1>2. \A c \in seen.ids : Exposed(c) => d \in May(c)
    BY HandledClose
<1>3. /\ Room'
      /\ (Fits => \A h \in seen.ids \ seen'.ids : ~Exposed(h)')
      /\ seen'.ids \cup Owing' \subseteq seen.ids \cup Owing \cup {d}
    BY <1>1, <1>2, RecordRoom
<1>4. Rung'
    BY <1>1, <1>3 DEF NInv, Rung
<1>5. NothingReturns
    BY DEF NothingReturns, Exposed
<1> QED BY <1>3, <1>4, <1>5 DEF Leaves, KeepsExposed

\* A step that leaves the caches alone drops nothing.
LEMMA QuietLeaves ==
    ASSUME NInv, TypeOK', QueueStep, UNCHANGED <<seen, pend>>
    PROVE  QueueInv' /\ Leaves
<1>1. TypeOK
    BY DEF NInv, IInv
<1>2. NothingReturns
    BY <1>1, NothingNew DEF NothingReturns
<1> QED BY <1>2, CachesStay DEF Leaves, KeepsExposed, QueueStep

\* The synchronous part of a handler.
LEMMA HandleLeaves ==
    ASSUME NInv, TypeOK', QueueInv', NEW d \in Queued, \A x \in Queued : d < x + PollPage,
           last' = last, Queued' \subseteq Queued, Handle(d)
    PROVE  Leaves
<1>1. CASE UNCHANGED <<seen, pend>>
    <2>1. QueueStep
        BY Numbers DEF QueueStep, NInv, IInv, TypeOK
    <2> QED BY <1>1, <2>1, QuietLeaves
<1>2. CASE NobodyToTell(d)
    BY <1>2, RecordLeaves DEF NobodyToTell
<1> QED BY <1>1, <1>2 DEF Handle, SkipSeen, BeginRound

\* The next recipient, or the end of the round.
LEMMA NextRecipientLeaves ==
    ASSUME NInv, TypeOK', cur # NoRound, UNCHANGED <<hub, page, last, mode>>,
           NEW failed \in SUBSET Users, NextRecipient(failed)
    PROVE  QueueInv' /\ Leaves
<1>1. TypeOK /\ QueueInv /\ last \in Nat /\ PollPage \in Nat \ {0} /\ Calls \subseteq Nat
      /\ cur.call \in Calls /\ cur.call \notin seen.ids
    BY Numbers DEF NInv, IInv, TypeOK, Round, PendingNotSeen
<1>2. cur' = NoRound \/ (cur # NoRound /\ cur'.call = cur.call)
    BY DEF NextRecipient, Serving
<1>3. QueueStep /\ Queued' \subseteq Queued
    BY <1>1, <1>2, QueuesStay
<1>4. CASE UNCHANGED <<seen, pend>>
    BY <1>3, <1>4, QuietLeaves
<1>5. CASE Record(cur.call, failed)
    <2>1. cur.call \in Queued
        BY <1>1 DEF Queued
    <2>2. ASSUME NEW x \in Queued PROVE cur.call < x + PollPage
        <3>1. CASE x = cur.call
            <4>1. x \in Nat
                BY <1>1, <3>1
            <4>2. x < x + PollPage
                BY <1>1, <4>1
            <4> QED BY <3>1, <4>2
        <3>2. CASE x \in HubCalls \cup Range(page)
            BY <1>1, <3>2 DEF QueueInv
        <3> QED BY <2>2, <3>1, <3>2 DEF Queued
    <2>3. Leaves
        BY <1>1, <1>3, <1>5, <2>1, <2>2, RecordLeaves
    <2> QED BY <1>3, <2>3 DEF QueueStep
<1> QED BY <1>4, <1>5 DEF NextRecipient

\* The handlers.
LEMMA HandleRound ==
    ASSUME cur = NoRound, NEW c \in Calls, Handle(c)
    PROVE  cur' = NoRound \/ cur'.call = c
BY DEF Handle, SkipSeen, NobodyToTell, BeginRound, Serving

\* An entry of the page, a push of a call, and a push that it is over.
LEMMA HandlersLeave ==
    ASSUME NInv, TypeOK', PollEntry \/ HubCalling \/ HubEnded
    PROVE  QueueInv' /\ Leaves
<1>1. TypeOK /\ QueueInv
    BY DEF NInv, IInv
<1>2. CASE PollEntry
    <2>1. /\ cur = NoRound /\ page # <<>> /\ page' = Tail(page) /\ Handle(Head(page))
          /\ UNCHANGED <<last, mode, hub>>
        BY <1>2 DEF PollEntry
    <2>2. Head(page) \in Calls
        BY <1>1, <2>1 DEF TypeOK
    <2>3. cur' = NoRound \/ cur'.call = Head(page)
        BY <2>1, <2>2, HandleRound
    <2>4. /\ QueueInv' /\ Queued' \subseteq Queued /\ Head(page) \in Queued
          /\ \A x \in Queued : Head(page) < x + PollPage
        BY <1>1, <2>1, <2>3, PagePops
    <2> QED BY <2>1, <2>4, HandleLeaves
<1>3. CASE HubCalling
    <2>1. /\ cur = NoRound /\ hub # <<>> /\ hub' = Tail(hub) /\ Handle(Head(hub).call)
          /\ UNCHANGED <<last, mode, page>>
        BY <1>3 DEF HubCalling
    <2>2. Head(hub).call \in Calls
        <3>1. Head(hub) \in Event
            BY <1>1, <2>1 DEF TypeOK
        <3> QED BY <3>1 DEF Event
    <2>3. cur' = NoRound \/ cur'.call = Head(hub).call
        BY <2>1, <2>2, HandleRound
    <2>4. /\ QueueInv' /\ Queued' \subseteq Queued /\ Head(hub).call \in Queued
          /\ \A x \in Queued : Head(hub).call < x + PollPage
        BY <1>1, <2>1, <2>3, HubPops
    <2> QED BY <2>1, <2>4, HandleLeaves
<1>4. CASE HubEnded
    <2>1. /\ cur = NoRound /\ hub # <<>> /\ hub' = Tail(hub) /\ cur' = NoRound
          /\ UNCHANGED <<last, mode, page, seen, pend>>
        BY <1>4 DEF HubEnded
    <2>2. QueueInv' /\ Queued' \subseteq Queued
        BY <1>1, <2>1, HubPops
    <2>3. QueueStep
        BY <1>1, <2>1, <2>2, Numbers DEF QueueStep, TypeOK
    <2> QED BY <2>1, <2>3, QuietLeaves
<1> QED BY <1>2, <1>3, <1>4

\* A call rings, or the hub repeats a push.
LEMMA PushesLeave ==
    ASSUME NInv, TypeOK', Ring \/ \E c \in Calls : RecentPush(c)
    PROVE  QueueInv' /\ Leaves
<1>1. TypeOK /\ QueueInv /\ last \in Nat /\ last' \in Nat /\ PollPage \in Nat \ {0} /\ Calls \subseteq Nat
    BY Numbers DEF NInv, IInv, TypeOK
<1>2. CASE Ring
    <2>1. /\ last' = last + 1 /\ UNCHANGED <<mode, page, cur, seen, pend>>
          /\ hub' = hub \/ Push("DomofonCalling", last')
        BY <1>2 DEF Ring
    <2>2. last =< last' /\ last' =< last' /\ last' > last' - PollPage
        BY <1>1, <2>1
    <2>3. CASE hub' = hub
        BY <1>1, <2>1, <2>2, <2>3, QueuesStay, QuietLeaves
    <2>4. CASE Push("DomofonCalling", last')
        <3> DEFINE e == [kind |-> "DomofonCalling", call |-> last']
        <3>1. e \in Event /\ e.call = last'
            <4>1. last' \in Calls
                BY <1>1, <2>1 DEF Calls, TypeOK
            <4> QED BY <4>1 DEF Event
        <3>2. mode = "hub" /\ Len(hub) < HubCap /\ hub' = Append(hub, e)
            BY <2>4 DEF Push
        <3> HIDE DEF e
        <3>3. QueueStep
            BY <1>1, <2>1, <2>2, <3>1, <3>2, HubGains
        <3> QED BY <2>1, <3>3, QuietLeaves
    <2> QED BY <2>1, <2>3, <2>4
<1>3. ASSUME NEW c \in Calls, RecentPush(c) PROVE QueueInv' /\ Leaves
    <2>1. PICK kind \in {"DomofonCalling", "DomofonCallEnded"} : Push(kind, c)
        BY <1>3 DEF RecentPush
    <2>2. OnPage(c) /\ UNCHANGED <<last, mode, page, cur, seen, pend>>
        BY <1>3 DEF RecentPush
    <2> DEFINE e == [kind |-> kind, call |-> c]
    <2>3. e \in Event /\ e.call = c
        BY DEF Event
    <2>4. mode = "hub" /\ Len(hub) < HubCap /\ hub' = Append(hub, e)
        BY <2>1 DEF Push
    <2>5. last =< last' /\ c =< last' /\ c > last' - PollPage
        BY <1>1, <2>2 DEF OnPage
    <2> HIDE DEF e
    <2>6. QueueStep
        BY <1>1, <2>2, <2>3, <2>4, <2>5, HubGains
    <2> QED BY <2>2, <2>6, QuietLeaves
<1> QED BY <1>2, <1>3

\* The sends.
LEMMA SendsLeave ==
    ASSUME NInv, TypeOK', SendOk \/ SendTransient \/ SendFails
    PROVE  QueueInv' /\ Leaves
<1>1. TypeOK /\ QueueInv /\ cur # NoRound /\ UNCHANGED <<hub, page, last, mode>>
    BY DEF NInv, IInv, SendOk, SendTransient, SendFails
<1>2. Uid \in Users /\ cur.failed \in SUBSET Users /\ cur \in Round /\ last \in Nat
    BY <1>1, UidIsUser DEF TypeOK
<1>3. ASSUME cur'.call = cur.call, UNCHANGED <<seen, pend>> PROVE QueueInv' /\ Leaves
    BY <1>1, <1>2, <1>3, QueuesStay, QuietLeaves
<1>4. ASSUME NEW failed \in SUBSET Users, NextRecipient(failed) PROVE QueueInv' /\ Leaves
    BY <1>1, <1>4, NextRecipientLeaves
<1>5. CASE SendOk
    BY <1>2, <1>4, <1>5 DEF SendOk
<1>6. CASE SendTransient
    <2>1. cur' = [cur EXCEPT !.attempt = cur.attempt + 1] /\ UNCHANGED <<seen, pend>>
        BY <1>6 DEF SendTransient
    <2>2. cur'.call = cur.call
        BY <1>2, <2>1 DEF Round
    <2> QED BY <1>3, <2>1, <2>2
<1>7. CASE SendFails
    <2>1. CASE cur.kind = "photo"
        <3>1. cur' = [cur EXCEPT !.kind = "text", !.attempt = 0] /\ UNCHANGED <<seen, pend>>
            BY <1>7, <2>1 DEF SendFails
        <3>2. cur'.call = cur.call
            BY <1>2, <3>1 DEF Round
        <3> QED BY <1>3, <3>1, <3>2
    <2>2. CASE cur.kind # "photo"
        <3>1. NextRecipient(cur.failed \cup {Uid})
            BY <1>7, <2>2 DEF SendFails
        <3>2. cur.failed \cup {Uid} \in SUBSET Users
            BY <1>2
        <3> QED BY <1>4, <3>1, <3>2
    <2> QED BY <2>1, <2>2
<1> QED BY <1>5, <1>6, <1>7

\* The prepopulated page leaves room.
LEMMA PrepopulateLeaves ==
    ASSUME NInv, TypeOK', PrepopulateSeen
    PROVE  QueueInv' /\ Leaves
<1>1. /\ TypeOK /\ QueueInv /\ mode = "prepopulate" /\ seen = EmptySeen /\ pend = EmptyPend
      /\ UNCHANGED <<last, hub, page, cur, pend>>
    BY DEF PrepopulateSeen, NInv, IInv
<1>2. hub = <<>> /\ page = <<>> /\ last \in Nat /\ last \in 0..NCalls
    BY <1>1 DEF QueueInv, TypeOK
<1>3. QueueStep
    BY <1>1, <1>2, QueuesStay
<1>4. CASE UNCHANGED seen
    BY <1>1, <1>3, <1>4, QuietLeaves
<1>5. CASE seen' = [ids |-> Range(Newest(PrePage)), order |-> Newest(PrePage)]
    <2> DEFINE s == Newest(PrePage)
    <2>1. PrePage \in Nat /\ PollPage \in Nat /\ HubCap \in Nat /\ NCalls \in Nat
        BY Numbers
    <2>2. s \in Seq(Calls) /\ Len(s) =< PrePage /\ Range(s) \in SUBSET Calls
        BY <1>2, <2>1, NewestFacts
    <2>3. ASSUME NEW x \in Range(s) PROVE x =< last
        <3>1. PICK i \in 1..Len(s) : x = s[i]
            BY <2>2, InRange
        <3> DEFINE k == IF PrePage < last THEN PrePage ELSE last
        <3>2. k \in Nat /\ s = [j \in 1..k |-> last + 1 - j] /\ Len(s) = k
            BY <1>2, <2>1 DEF Newest
        <3> HIDE DEF k, s
        <3>3. x = last + 1 - i /\ i \in 1..k
            BY <3>1, <3>2
        <3> QED BY <1>2, <3>2, <3>3
    <2> HIDE DEF s
    <2>4. seen'.ids = Range(s) /\ seen'.order = s /\ seen.ids = {}
        BY <1>1, <1>5 DEF s, EmptySeen
    <2>5. Owing' = {}
        BY <1>1 DEF Owing, EmptyPend, NoDelivery
    <2>6. Rung'
        BY <1>1, <2>3, <2>4, <2>5 DEF Rung
    <2>7. IsFiniteSet(Range(s)) /\ Cardinality(Range(s)) =< PrePage
        <3>1. IsFiniteSet(1..Len(s)) /\ Cardinality(1..Len(s)) = IF 1 > Len(s) THEN 0 ELSE Len(s) - 1 + 1
            BY <2>2, FS_Interval
        <3>2. s \in Surjection(1..Len(s), Range(s))
            BY <2>2 DEF Surjection, Range
        <3>3. IsFiniteSet(Range(s)) /\ Cardinality(Range(s)) =< Cardinality(1..Len(s))
            BY <3>1, <3>2, FS_Surjection
        <3>4. Cardinality(Range(s)) \in Nat
            BY <3>3, FS_CardinalityType
        <3>5. Len(s) \in Nat
            BY <2>2
        <3> QED BY <2>1, <2>2, <3>1, <3>3, <3>4, <3>5
    <2>8. ASSUME NEW c \in Range(s) PROVE Weight(Behind(s, c), May(c)', Owing') =< Most
        <3> DEFINE b == Behind(s, c)
                   m == May(c)'
        <3>1. c \in Calls /\ c =< last
            BY <2>2, <2>3
        <3>2. m \subseteq May(c) /\ May(c) \subseteq Calls /\ Cardinality(May(c)) =< 3 * PollPage + HubCap
            BY <1>1, <1>3, <3>1, NothingNew, MayFacts
        <3>3. IsFiniteSet(May(c))
            BY <3>2, Numbers, FS_Subset
        <3>4. IsFiniteSet(m) /\ Cardinality(m) =< Cardinality(May(c))
            BY <3>2, <3>3, FS_Subset
        <3>5. b \subseteq Range(s)
            BY <2>2, InRange DEF Behind
        <3>6. IsFiniteSet(b) /\ Cardinality(b) =< Cardinality(Range(s))
            BY <2>7, <3>5, FS_Subset
        <3> HIDE DEF b, m
        <3>7. /\ IsFiniteSet(b \cap m)
              /\ Cardinality(b \cup m) = Cardinality(b) + Cardinality(m) - Cardinality(b \cap m)
            BY <3>4, <3>6, FS_Union, FS_Subset
        <3>8. Cardinality(m \ (b \cup {})) =< Cardinality(m) /\ IsFiniteSet(m \ (b \cup {}))
            BY <3>4, FS_Subset
        <3>9. /\ Cardinality(b) \in Nat /\ Cardinality(m) \in Nat /\ Cardinality(b \cap m) \in Nat
              /\ Cardinality(m \ (b \cup {})) \in Nat /\ Cardinality(May(c)) \in Nat
              /\ Cardinality(Range(s)) \in Nat
            BY <2>7, <3>3, <3>4, <3>6, <3>7, <3>8, FS_CardinalityType
        <3>10. Weight(b, m, {}) = Cardinality(b \cup m) + Cardinality(m \ (b \cup {}))
            BY DEF Weight
        <3>11. Cardinality(b \cup m) =< PrePage + (3 * PollPage + HubCap)
            BY <2>1, <2>7, <3>2, <3>4, <3>6, <3>7, <3>9
        <3>12. Cardinality(m \ (b \cup {})) =< 3 * PollPage + HubCap
            BY <2>1, <3>2, <3>4, <3>8, <3>9
        <3>13. Weight(b, m, {}) =< PrePage + 2 * (3 * PollPage + HubCap)
            BY <2>1, <3>7, <3>9, <3>10, <3>11, <3>12
        <3> QED BY <2>5, <3>13 DEF Most, b, m
    <2>9. Room'
        BY <2>4, <2>8 DEF Room
    <2>10. NothingReturns
        BY <1>1, <1>3, NothingNew DEF NothingReturns
    <2> QED BY <1>3, <2>4, <2>6, <2>9, <2>10 DEF Leaves, KeepsExposed, QueueStep
<1> QED BY <1>4, <1>5 DEF PrepopulateSeen

\* Every step keeps the invariant, and but for a restart drops no exposed id.
LEMMA NextLeaves ==
    ASSUME NInv, [Next]_vars
    PROVE  NInv' /\ (Leaves \/ Restart)
<1>1. TypeOK /\ QueueInv /\ last \in Nat /\ (cur # NoRound => mode \in {"hub", "page"})
    BY DEF NInv, IInv, TypeOK
<1>2. IInv' /\ TypeOK'
    BY NextIInv DEF NInv, IInv
<1>3. CASE Ring \/ \E c \in Calls : RecentPush(c)
    BY <1>2, <1>3, PushesLeave DEF NInv, Leaves
<1>4. CASE PollEntry \/ HubCalling \/ HubEnded
    BY <1>2, <1>4, HandlersLeave DEF NInv, Leaves
<1>5. CASE SendOk \/ SendTransient \/ SendFails
    BY <1>2, <1>5, SendsLeave DEF NInv, Leaves
<1>6. CASE PrepopulateSeen
    BY <1>2, <1>6, PrepopulateLeaves DEF NInv, Leaves
<1>7. ASSUME UNCHANGED <<last, hub, page, cur, seen, pend>>,
             mode' = mode \/ (hub = <<>> /\ page = <<>>)
      PROVE  NInv' /\ Leaves
    <2>1. QueueStep
        BY <1>1, <1>7, QueuesStay
    <2> QED BY <1>2, <1>7, <2>1, QuietLeaves DEF NInv, Leaves
<1>8. CASE WaitForAuth \/ HubConnect \/ PollFails \/ PollDone
    <2>1. UNCHANGED <<last, hub, page, cur, seen, pend>>
        BY <1>8 DEF WaitForAuth, HubConnect, PollFails, PollDone
    <2>2. hub = <<>> /\ page = <<>>
        BY <1>1, <1>8 DEF WaitForAuth, HubConnect, PollFails, PollDone, QueueInv
    <2> QED BY <1>7, <2>1, <2>2
<1>9. CASE (\E u \in Users : Grant(u) \/ Revoke(u)) \/ UNCHANGED vars
    <2>1. UNCHANGED <<last, hub, page, cur, seen, pend, mode>>
        BY <1>9 DEF Grant, Revoke, vars
    <2> QED BY <1>7, <2>1
<1>10. CASE HubSessionEnds
    <2>1. /\ hub' = <<>> /\ page' = <<>> /\ cur' = NoRound
          /\ UNCHANGED <<last, seen, pend>>
        BY <1>1, <1>10 DEF HubSessionEnds, QueueInv
    <2>2. QueueStep
        BY <1>1, <2>1, QueuesEmptied
    <2> QED BY <1>2, <2>1, <2>2, QuietLeaves DEF NInv, Leaves
<1>11. CASE PollFetch
    <2>1. /\ hub = <<>> /\ cur = NoRound /\ mode' = "page" /\ page' = Newest(PollPage)
          /\ UNCHANGED <<last, hub, cur, seen, pend>>
        BY <1>1, <1>11 DEF PollFetch, QueueInv
    <2>2. QueueStep
        BY <1>1, <2>1, PageFetched
    <2> QED BY <1>2, <2>1, <2>2, QuietLeaves DEF NInv, Leaves
<1>12. CASE Restart
    <2>1. /\ hub' = <<>> /\ page' = <<>> /\ cur' = NoRound /\ last' = last
          /\ seen' = EmptySeen /\ pend' = EmptyPend
        BY <1>12 DEF Restart
    <2>2. QueueInv'
        BY <1>1, <2>1, QueuesEmptied DEF QueueStep
    <2>3. seen'.ids = {} /\ Owing' = {}
        BY <2>1 DEF EmptySeen, Owing, EmptyPend, NoDelivery
    <2> QED BY <1>2, <1>12, <2>2, <2>3 DEF NInv, Rung, Room
<1> QED BY <1>3, <1>4, <1>5, <1>6, <1>8, <1>9, <1>10, <1>11, <1>12 DEF Next, Watcher, Environment

\* A new watcher has all the room.
LEMMA InitNInv == Init => NInv
<1> SUFFICES ASSUME Init PROVE NInv
    OBVIOUS
<1>1. IInv
    BY InitIInv
<1>2. seen = EmptySeen /\ pend = EmptyPend /\ hub = <<>> /\ page = <<>> /\ cur = NoRound
    BY DEF Init
<1>3. PollPage \in Nat \ {0} /\ HubCap \in Nat /\ NoRound.call \notin Calls
    BY Numbers DEF NoRound, Calls
<1>4. Queued = {} /\ Len(hub) = 0 /\ Len(page) = 0
    BY <1>2, <1>3 DEF Queued, HubCalls, Range
<1>5. QueueInv
    BY <1>2, <1>3, <1>4 DEF QueueInv
<1>6. seen.ids = {} /\ Owing = {}
    BY <1>2 DEF EmptySeen, Owing, EmptyPend, NoDelivery
<1> QED BY <1>1, <1>5, <1>6 DEF NInv, Rung, Room

\* In every behaviour, for each exposed seen id, what was added behind it and
\* what may still be handled or given up come to no more than Most.
THEOREM RoomStays == Spec => []NInv
<1>1. NInv /\ [Next]_vars => NInv'
    BY NextLeaves
<1> QED BY <1>1, InitNInv, PTL DEF Spec

----------------------------------------------------------------------------
(* The refinement.                                                         *)

\* What recording a round does to the calls E it settles and to the call itself.
Records(s, q, c, failed, r, E) ==
    /\ E \subseteq r.seen.ids /\ r.seen.ids \subseteq s.ids \cup E
    /\ \A d \in E : r.pend.info[d] = NoDelivery
    /\ \A d \in Calls \ (E \cup {c}) : r.pend.info[d] = q.info[d]
    /\ c \notin E => LeftOver(q, c, failed, r.pend.info)

\* At most one call is settled, and what may be dropped was seen before.
LEMMA RecordedEffect ==
    ASSUME NEW s \in SeenType, SeenOK(s), NEW q \in PendType, PendOK(q), NoneBoth(s, q),
           NEW c \in Calls, c \notin s.ids, NEW failed \in SUBSET Users
    PROVE  \E E \in SUBSET (Calls \ s.ids) : Records(s, q, c, failed, Recorded(s, q, c, failed), E)
<1> DEFINE r == Recorded(s, q, c, failed)
<1>1. ASSUME NEW e \in Calls, e \notin s.ids
      PROVE  e \in AddSeen(s, e).ids /\ AddSeen(s, e).ids \subseteq s.ids \cup {e}
    BY <1>1, AddSeenCases
<1>2. \/ Settles(s, q, c, r)
      \/ Stores(s, q, c, failed, r)
      \/ \E e \in Calls : GivesUp(s, q, c, failed, r, e)
    BY RecordedCases
<1> HIDE DEF r
<1>3. CASE Settles(s, q, c, r)
    <2>1. Records(s, q, c, failed, r, {c})
        BY <1>1, <1>3 DEF Records, Settles
    <2> QED BY <2>1 DEF r
<1>4. CASE Stores(s, q, c, failed, r)
    <2>1. Records(s, q, c, failed, r, {})
        BY <1>4 DEF Records, Stores
    <2> QED BY <2>1 DEF r
<1>5. ASSUME NEW e \in Calls, GivesUp(s, q, c, failed, r, e)
      PROVE  \E E \in SUBSET (Calls \ s.ids) : Records(s, q, c, failed, r, E)
    <2>1. Records(s, q, c, failed, r, {e}) /\ e \notin s.ids
        BY <1>1, <1>5 DEF Records, GivesUp
    <2> QED BY <2>1
<1> QED BY <1>2, <1>3, <1>4, <1>5 DEF r

\* Who is still to be served, or left out, in a round has no card of the call,
\* and a retry is for users the round before left out.  Between the rounds
\* whoever is owed a card has none; nobody is told of a call that is exposed
\* no more.
RoundInv ==
    cur # NoRound =>
        /\ cur.todo \cap cur.failed = {}
        /\ \A u \in cur.todo \cup cur.failed :
              /\ cards[cur.call][u] = 0
              /\ pend.info[cur.call].rounds > 0 => u \in pend.info[cur.call].recipients
OwedInv ==
    \A c \in Calls \ seen.ids :
        Exposed(c) /\ (cur = NoRound \/ cur.call # c) =>
            \A u \in Users :
                (pend.info[c].rounds > 0 => u \in pend.info[c].recipients) => cards[c][u] = 0

CardsInv == RoundInv /\ OwedInv

\* What a step that is not a restart may do to a call, besides a card.
Moves(d) == Notice!Keep(d) \/ Notice!FailRound(d) \/ Notice!Settle(d) \/ Notice!Forget(d)

\* Recording a round settles calls or fails the round; what is owed for a call
\* that is not settled is as before, or what this round left over.
LEMMA RecordNotice ==
    ASSUME IInv, NEW c \in Calls, c \notin seen.ids, NEW failed \in SUBSET Users,
           Record(c, failed), \A h \in seen.ids \ seen'.ids : ~Exposed(h)',
           pend.info[c].rounds > 0 => failed \subseteq pend.info[c].recipients
    PROVE  /\ \A d \in Calls : Moves(d)
           /\ \A d \in Calls \ seen'.ids : Exposed(d)' =>
                 /\ d \notin seen.ids
                 /\ d # c => pend'.info[d] = pend.info[d]
                 /\ d = c => pend'.info[d].recipients = failed /\ pend'.info[d].rounds > 0
<1>1. /\ seen \in SeenType /\ SeenOK(seen) /\ pend \in PendType /\ PendOK(pend)
      /\ NoneBoth(seen, pend)
    BY DEF IInv, TypeOK, SeenType, PendType, SeenConsistent, PendingConsistent, PendingNotSeen
<1> DEFINE r == Recorded(seen, pend, c, failed)
<1>2. seen' = r.seen /\ pend' = r.pend
    BY DEF Record
<1>3. PICK E \in SUBSET (Calls \ seen.ids) : Records(seen, pend, c, failed, r, E)
    BY <1>1, RecordedEffect
<1> HIDE DEF r
<1>4. /\ E \subseteq seen'.ids /\ seen'.ids \subseteq seen.ids \cup E
      /\ \A d \in E : pend'.info[d] = NoDelivery
      /\ \A d \in Calls \ (E \cup {c}) : pend'.info[d] = pend.info[d]
      /\ c \notin E =>
            /\ pend'.info[c] = [recipients |-> failed, rounds |-> pend.info[c].rounds + 1]
            /\ failed # {} /\ pend.info[c].rounds + 1 < MaxRounds
    BY <1>2, <1>3 DEF Records, LeftOver
<1>5. pend.info[c].rounds \in Nat
    BY <1>1 DEF PendType, Delivery
<1>6. ASSUME NEW d \in Calls PROVE Moves(d)
    <2>1. CASE d \in E
        <3>1. d \notin seen.ids /\ d \in seen'.ids /\ pend'.info[d] = NoDelivery
            BY <1>4, <2>1
        <3>2. Notice!Settle(d)
            BY <3>1 DEF Notice!Settle, Notice!NothingOwed, NoDelivery
        <3> QED BY <3>2 DEF Moves
    <2>4. CASE d \in seen.ids \ seen'.ids
        <3>1. ~Exposed(d)'
            BY <2>4
        <3>2. ~OnPage(d)'
            BY <3>1 DEF Exposed, OnPage
        <3>3. d \notin {x \in Calls : OnPage(x)'}
            BY <3>2
        <3>4. d \notin E /\ d # c
            BY <2>4
        <3>5. pend'.info[d] = pend.info[d]
            BY <1>4, <3>4
        <3>6. Notice!Forget(d)
            BY <2>4, <3>3, <3>5 DEF Notice!Forget
        <3> QED BY <3>6 DEF Moves
    <2>2. CASE d \notin E /\ d # c /\ d \notin seen.ids \ seen'.ids
        <3>1. d \in seen.ids <=> d \in seen'.ids
            BY <1>4, <2>2
        <3>2. pend'.info[d] = pend.info[d]
            BY <1>4, <2>2
        <3>3. Notice!Keep(d)
            BY <3>1, <3>2 DEF Notice!Keep
        <3> QED BY <3>3 DEF Moves
    <2>3. CASE d \notin E /\ d = c
        <3>1. /\ d \notin seen.ids /\ d \notin seen'.ids
              /\ pend'.info[d].rounds = pend.info[d].rounds + 1
              /\ pend'.info[d].rounds < MaxRounds
              /\ pend'.info[d].recipients # {}
              /\ pend.info[d].rounds > 0 => pend'.info[d].recipients \subseteq pend.info[d].recipients
            BY <1>4, <2>3
        <3>2. Notice!FailRound(d)
            BY <3>1 DEF Notice!FailRound
        <3> QED BY <3>2 DEF Moves
    <2> QED BY <2>1, <2>2, <2>3, <2>4
<1>7. ASSUME NEW d \in Calls \ seen'.ids, Exposed(d)'
      PROVE  /\ d \notin seen.ids
             /\ d # c => pend'.info[d] = pend.info[d]
             /\ d = c => pend'.info[d].recipients = failed /\ pend'.info[d].rounds > 0
    BY <1>4, <1>5, <1>7
<1> QED BY <1>6, <1>7

\* A step that leaves the caches alone is no move of any call.
LEMMA KeepsAll ==
    ASSUME UNCHANGED <<seen, pend>>
    PROVE  \A d \in Calls : Moves(d)
BY DEF Moves, Notice!Keep

\* Calls that move while no card is sent.
LEMMA QuietStep ==
    ASSUME cards' = cards, \A d \in Calls : Moves(d)
    PROVE  Notice!Next
BY DEF Moves, Notice!Next, Notice!CallStep

\* Steps that touch neither the caches nor the round nor the cards.
LEMMA QuietKeeps ==
    ASSUME CardsInv, NothingReturns, UNCHANGED <<seen, pend, cur, cards>>
    PROVE  CardsInv' /\ Notice!Next
<1>1. CardsInv'
    BY DEF CardsInv, RoundInv, OwedInv, NothingReturns
<1> QED BY <1>1, KeepsAll, QuietStep

\* The synchronous part of a handler.
LEMMA HandleNotice ==
    ASSUME IInv, CardsInv, cur = NoRound, NEW c \in Calls, Exposed(c), Handle(c), cards' = cards,
           NothingReturns, \A h \in seen.ids \ seen'.ids : ~Exposed(h)'
    PROVE  CardsInv' /\ Notice!Next
<1>1. CASE SkipSeen(c)
    BY <1>1, QuietKeeps DEF SkipSeen
<1>2. CASE NobodyToTell(c)
    <2>1. c \notin seen.ids /\ Record(c, {}) /\ cur' = NoRound
        BY <1>2 DEF NobodyToTell
    <2>2. /\ \A d \in Calls : Moves(d)
          /\ \A d \in Calls \ seen'.ids : Exposed(d)' =>
                /\ d \notin seen.ids
                /\ d # c => pend'.info[d] = pend.info[d]
                /\ d = c => pend'.info[d].recipients = {} /\ pend'.info[d].rounds > 0
        BY <2>1, RecordNotice
    <2>3. OwedInv'
        BY <2>1, <2>2 DEF CardsInv, OwedInv, NothingReturns
    <2> QED BY <2>1, <2>2, <2>3, QuietStep DEF CardsInv, RoundInv
<1>3. CASE BeginRound(c)
    <2>1. PICK photo \in BOOLEAN : cur' = Serving(c, Recipients(c), {}, photo)
        BY <1>3, ConstantsOK DEF BeginRound, ConstantsOK
    <2>2. cur'.call = c /\ cur'.todo = Recipients(c) /\ cur'.failed = {}
        BY <2>1 DEF Serving
    <2>3. c \notin seen.ids /\ UNCHANGED <<seen, pend>>
        BY <1>3 DEF BeginRound
    <2>4. \A u \in Recipients(c) :
              /\ u \in Users
              /\ pend.info[c].rounds > 0 => u \in pend.info[c].recipients
        BY DEF Recipients, IInv, TypeOK
    <2>5. \A u \in Recipients(c) : cards[c][u] = 0
        BY <2>3, <2>4 DEF CardsInv, OwedInv, NothingReturns
    <2> HIDE DEF Recipients
    <2>6. RoundInv'
        BY <2>2, <2>3, <2>4, <2>5 DEF RoundInv
    <2>7. OwedInv'
        BY <2>3 DEF CardsInv, OwedInv, NothingReturns
    <2> QED BY <2>3, <2>6, <2>7, KeepsAll, QuietStep DEF CardsInv
<1> QED BY <1>1, <1>2, <1>3 DEF Handle

\* A recipient is done with: the next one, or the result is recorded.
LEMMA NextNotice ==
    ASSUME IInv, CardsInv, cur # NoRound, NothingReturns, \A h \in seen.ids \ seen'.ids : ~Exposed(h)',
           NEW failed \in SUBSET Users, NextRecipient(failed),
           failed \subseteq cur.failed \cup {Uid},
           \A d \in Calls : d # cur.call => cards'[d] = cards[d],
           \A u \in Users : u # Uid => cards'[cur.call][u] = cards[cur.call][u],
           \A u \in failed : cards'[cur.call][u] = 0
    PROVE  CardsInv' /\ \A d \in Calls : Moves(d)
<1> DEFINE c == cur.call
           todo == cur.todo \ {Uid}
<1>1. /\ Uid \in cur.todo /\ c \in Calls /\ cur \in Round /\ c \notin seen.ids
    BY UidIsUser DEF IInv, TypeOK, PendingNotSeen
<1>2. cur.todo \subseteq Users /\ cur.failed \subseteq Users
    BY <1>1 DEF Round
<1> HIDE DEF Uid
<1>3. /\ todo \cap failed = {}
      /\ \A u \in todo \cup failed :
            /\ cards'[c][u] = 0
            /\ pend.info[c].rounds > 0 => u \in pend.info[c].recipients
    BY <1>1, <1>2 DEF CardsInv, RoundInv
<1>4. \A d \in Calls \ seen.ids : Exposed(d)' /\ d # c =>
          \A u \in Users :
              (pend.info[d].rounds > 0 => u \in pend.info[d].recipients) => cards'[d][u] = 0
    BY DEF CardsInv, OwedInv, NothingReturns
<1>5. CASE todo = {}
    <2>1. cur' = NoRound /\ Record(c, failed)
        BY <1>5 DEF NextRecipient
    <2>2. /\ \A d \in Calls : Moves(d)
          /\ \A d \in Calls \ seen'.ids : Exposed(d)' =>
                /\ d \notin seen.ids
                /\ d # c => pend'.info[d] = pend.info[d]
                /\ d = c => pend'.info[d].recipients = failed /\ pend'.info[d].rounds > 0
        BY <1>1, <1>3, <2>1, RecordNotice
    <2>3. OwedInv'
        BY <1>3, <1>4, <2>2 DEF OwedInv
    <2> QED BY <2>1, <2>2, <2>3 DEF CardsInv, RoundInv
<1>6. CASE todo # {}
    <2>1. cur' = Serving(c, todo, failed, cur.photo) /\ UNCHANGED <<seen, pend>>
        BY <1>6 DEF NextRecipient
    <2>2. cur'.call = c /\ cur'.todo = todo /\ cur'.failed = failed
        BY <2>1 DEF Serving
    <2>3. RoundInv'
        BY <1>3, <2>1, <2>2 DEF RoundInv
    <2>4. cur' # NoRound
        BY <1>1, <2>2 DEF NoRound, Calls
    <2> HIDE DEF c
    <2>5. OwedInv'
        BY <1>4, <2>1, <2>2, <2>4 DEF OwedInv
    <2> QED BY <2>1, <2>3, <2>5, KeepsAll DEF CardsInv
<1> QED BY <1>5, <1>6

\* Sends: acknowledged, tried again, given up.
LEMMA SendNotice ==
    ASSUME IInv, CardsInv, SendOk \/ SendTransient \/ SendFails,
           NothingReturns, \A h \in seen.ids \ seen'.ids : ~Exposed(h)'
    PROVE  CardsInv' /\ Notice!Next
<1> DEFINE c == cur.call
<1>1. /\ cur # NoRound /\ Uid \in cur.todo /\ Uid \in Users /\ c \in Calls /\ cur \in Round
      /\ c \notin seen.ids /\ cur.failed \in SUBSET Users /\ cards \in [Calls -> [Users -> Nat]]
    BY UidIsUser DEF IInv, TypeOK, PendingNotSeen, SendOk, SendTransient, SendFails
<1>2. /\ cards[c][Uid] = 0 /\ Uid \notin cur.failed
      /\ \A u \in cur.failed : cards[c][u] = 0
      /\ pend.info[c].rounds > 0 => Uid \in pend.info[c].recipients
    BY <1>1 DEF CardsInv, RoundInv
<1> HIDE DEF Uid
<1>3. CASE SendOk
    <2>1. cards' = [cards EXCEPT ![c][Uid] = @ + 1] /\ NextRecipient(cur.failed)
        BY <1>3 DEF SendOk
    <2> HIDE DEF c
    <2>2. /\ \A d \in Calls : d # c => cards'[d] = cards[d]
          /\ cards'[c] = [cards[c] EXCEPT ![Uid] = 1]
        BY <1>1, <1>2, <2>1
    <2>3. \A u \in Users : u # Uid => cards'[c][u] = cards[c][u]
        BY <1>1, <2>2
    <2>4. \A u \in cur.failed : cards'[c][u] = 0
        BY <1>1, <1>2, <2>3
    <2>5. CardsInv' /\ \A d \in Calls : Moves(d)
        BY <1>1, <2>1, <2>2, <2>3, <2>4, NextNotice DEF c
    <2>6. Notice!Tell(c, Uid)
        BY <1>1, <1>2, <2>2 DEF Notice!Tell
    <2>7. ASSUME NEW d \in Calls PROVE Notice!CallStep(d)
        BY <1>1, <2>2, <2>5, <2>6, <2>7 DEF Notice!CallStep, Moves
    <2> QED BY <2>5, <2>7 DEF Notice!Next
<1>4. ASSUME cur' = [cur EXCEPT !.attempt = cur.attempt + 1]
             \/ cur' = [cur EXCEPT !.kind = "text", !.attempt = 0],
             UNCHANGED <<seen, pend, cards>>
      PROVE  CardsInv' /\ Notice!Next
    <2>1. cur'.call = cur.call /\ cur'.todo = cur.todo /\ cur'.failed = cur.failed
        BY <1>1, <1>4 DEF Round
    <2>2. cur' # NoRound
        BY <1>1, <2>1 DEF NoRound, Calls
    <2>3. RoundInv'
        BY <1>1, <1>4, <2>1 DEF CardsInv, RoundInv
    <2>4. OwedInv'
        BY <1>1, <1>4, <2>1, <2>2 DEF CardsInv, OwedInv, NothingReturns
    <2> QED BY <1>4, <2>3, <2>4, KeepsAll, QuietStep DEF CardsInv
<1>5. CASE SendTransient
    BY <1>4, <1>5 DEF SendTransient
<1>6. CASE SendFails
    <2>1. cards' = cards
        BY <1>6 DEF SendFails
    <2>2. CASE cur.kind = "photo"
        BY <1>4, <1>6, <2>2 DEF SendFails
    <2>3. CASE cur.kind # "photo"
        <3>1. NextRecipient(cur.failed \cup {Uid})
            BY <1>6, <2>3 DEF SendFails
        <3>2. CardsInv' /\ \A d \in Calls : Moves(d)
            BY <1>1, <1>2, <2>1, <3>1, NextNotice
        <3> QED BY <2>1, <3>2, QuietStep
    <2> QED BY <2>2, <2>3
<1> QED BY <1>3, <1>5, <1>6

\* Every step keeps CardsInv and is one of the abstract watcher.
LEMMA NextNotices ==
    ASSUME Fits, NInv, CardsInv, [Next]_vars
    PROVE  CardsInv' /\ [Notice!Next]_(Notice!vars)
<1>8. IInv /\ TypeOK
    BY DEF NInv, IInv
<1>9. ASSUME ~Restart PROVE NothingReturns /\ \A h \in seen.ids \ seen'.ids : ~Exposed(h)'
    BY <1>9, NextLeaves DEF Leaves, KeepsExposed
<1>1. CASE ~Restart /\ UNCHANGED <<seen, pend, cur, cards>>
    BY <1>1, <1>9, QuietKeeps
<1>2. CASE ~Restart /\ PrepopulateSeen /\ ~UNCHANGED seen
    <2>1. /\ seen = EmptySeen /\ pend = EmptyPend /\ cur = NoRound
          /\ UNCHANGED <<pend, cur, cards>>
        BY <1>2, <1>8 DEF PrepopulateSeen, IInv
    <2>2. CardsInv'
        BY <1>2, <1>9, <2>1 DEF CardsInv, RoundInv, OwedInv, EmptySeen, NothingReturns
    <2>3. ASSUME NEW d \in Calls PROVE Moves(d)
        <3>1. d \notin seen.ids /\ pend'.info[d] = pend.info[d] /\ pend.info[d] = NoDelivery
            BY <2>1 DEF EmptySeen, EmptyPend
        <3>2. CASE d \in seen'.ids
            BY <3>1, <3>2 DEF Moves, Notice!Settle, Notice!NothingOwed, NoDelivery
        <3>3. CASE d \notin seen'.ids
            BY <3>1, <3>3 DEF Moves, Notice!Keep
        <3> QED BY <3>2, <3>3
    <2> QED BY <2>1, <2>2, <2>3, QuietStep
<1>3. CASE ~Restart /\ PollEntry
    <2>1. cur = NoRound /\ Handle(Head(page)) /\ cards' = cards /\ page \in Seq(Calls) /\ page # <<>>
        BY <1>3, <1>8 DEF PollEntry, TypeOK
    <2>2. Head(page) \in Calls /\ Head(page) \in Range(page)
        BY <2>1 DEF Range
    <2>3. Exposed(Head(page))
        BY <2>2 DEF Exposed, Queued
    <2> QED BY <1>3, <1>8, <1>9, <2>1, <2>2, <2>3, HandleNotice
<1>4. CASE ~Restart /\ HubCalling
    <2>1. hub \in Seq(Event) /\ hub # <<>>
        BY <1>4, <1>8 DEF HubCalling, TypeOK
    <2>2. Head(hub).call \in Calls /\ Head(hub).call \in HubCalls
        <3>1. Head(hub) \in Event /\ Head(hub) = hub[1] /\ 1 \in 1..Len(hub)
            BY <2>1
        <3> QED BY <3>1 DEF Event, HubCalls
    <2>4. Exposed(Head(hub).call)
        BY <2>2 DEF Exposed, Queued
    <2>3. cur = NoRound /\ Handle(Head(hub).call) /\ cards' = cards
        BY <1>4 DEF HubCalling
    <2> QED BY <1>4, <1>8, <1>9, <2>2, <2>3, <2>4, HandleNotice
<1>5. CASE ~Restart /\ (SendOk \/ SendTransient \/ SendFails)
    BY <1>5, <1>8, <1>9, SendNotice
<1>6. CASE Restart
    <2>1. /\ seen' = EmptySeen /\ pend' = EmptyPend /\ cur' = NoRound /\ cards' = NoCards
          /\ last' = last
        BY <1>6 DEF Restart
    <2>2. CardsInv'
        BY <2>1 DEF CardsInv, RoundInv, OwedInv, NoCards
    <2>3. Notice!Fresh'
        BY <2>1 DEF Notice!Fresh, Notice!NothingOwed, EmptySeen, EmptyPend, NoDelivery, NoCards
    <2>4. Notice!Reset
        BY <2>1, <2>3 DEF Notice!Reset, OnPage
    <2> QED BY <2>2, <2>4 DEF Notice!Next
<1>7. \/ UNCHANGED <<seen, pend, cur, cards>>
      \/ PrepopulateSeen /\ ~UNCHANGED seen
      \/ PollEntry \/ HubCalling \/ SendOk \/ SendTransient \/ SendFails \/ Restart
    BY DEF Next, Watcher, Environment, WaitForAuth, PrepopulateSeen, HubConnect, PollFetch,
           PollFails, PollDone, HubEnded, Ring, HubSessionEnds, RecentPush, Grant, Revoke, vars
<1> QED BY <1>1, <1>2, <1>3, <1>4, <1>5, <1>6, <1>7

\* A new watcher is a new abstract one.
LEMMA InitNotice == Init => CardsInv /\ Notice!Init
<1> SUFFICES ASSUME Init PROVE CardsInv /\ Notice!Init
    OBVIOUS
<1>1. CardsInv
    BY DEF Init, CardsInv, RoundInv, OwedInv, NoCards
<1>2. Notice!Fresh
    BY DEF Init, Notice!Fresh, Notice!NothingOwed, EmptySeen, EmptyPend, NoDelivery, NoCards
<1>3. {c \in Calls : OnPage(c)} \in SUBSET Calls
    OBVIOUS
<1> QED BY <1>1, <1>2, <1>3 DEF Notice!Init

\* While the call log page or a queue of the watcher can still bring up a call,
\* the watcher keeps what it knows of it: with seen ids for PrePage calls and two
\* for every call that may be handled around it, however many deliveries are
\* given up, _add_seen drops no such id.
THEOREM SeenKeptWhileExposed ==
    ASSUME Fits
    PROVE  Spec => [][Restart \/ \A h \in seen.ids \ seen'.ids : ~Exposed(h)']_vars
<1>1. NInv /\ [Next]_vars => Restart \/ \A h \in seen.ids \ seen'.ids : ~Exposed(h)'
    BY NextLeaves DEF Leaves, KeepsExposed
<1> QED BY <1>1, RoomStays, PTL DEF Spec

\* With such room, the watcher implements CallNotice, whatever the transport,
\* Telegram and the access list do: at most one card per user and call, at most
\* MaxRounds rounds for fewer and fewer users, nothing more about a settled
\* call, and a settled call is forgotten only off the log page.
THEOREM WatcherImplementsNotice ==
    ASSUME \/ NCalls =< MaxSeen
           \/ MaxSeen >= PrePage + 2 * (3 * PollPage + HubCap)
    PROVE  Spec => ImplementsNotice
<1>1. Fits
    BY DEF Fits, Most
<1>2. NInv /\ CardsInv /\ [Next]_vars => CardsInv' /\ [Notice!Next]_(Notice!vars)
    BY <1>1, NextNotices
<1> QED BY <1>2, InitNotice, RoomStays, PTL DEF Spec, ImplementsNotice, Notice!Spec

=============================================================================
