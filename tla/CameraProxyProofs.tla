------------------------- MODULE CameraProxyProofs -------------------------
(***************************************************************************)
(* Theorems about CameraProxy, for any number of requests, links and       *)
(* sessions.  The invariant says what pruning leaves: of the links handed  *)
(* out last, as many as the limit, those that have not expired; and of the *)
(* sessions whose link has not expired, those nobody asked to delete.      *)
(***************************************************************************)
EXTENDS CameraProxy, FiniteSetTheorems, SequenceTheorems, TLAPS

Req == [pc : {"idle", "offer", "create", "fragment", "patch", "delete"}, of : Nat]

\* The links handed out last are in the table until they expire.
LastLinks ==
    \A n \in DOMAIN left : (Len(left) - n < MaxEntries /\ left[n] > 0) => n \in links

\* The table has the sessions nobody asked to delete, until their link expires.
LiveSessions ==
    \A s \in DOMAIN via :
        /\ (left[via[s]] > 0 /\ asked[s] = 0) => s \in sessions
        /\ s \in sessions => asked[s] = 0
        /\ asked[s] \in {0, 1}

\* A request that creates a session has a link that was handed out.
OfferedLinks ==
    \A r \in Requests : request[r].pc \in {"offer", "create"} => request[r].of \in DOMAIN left

IInv == CameraTypeOK /\ LastLinks /\ LiveSessions /\ OfferedLinks

\* What a request that looks something up may do to the tables.
Untouched == links' \in {links, PrunedLinks} /\ sessions' \in {sessions, PrunedSessions}

----------------------------------------------------------------------------
(* Pruning.                                                                *)

Newer(n) == {k \in links : left[k] > 0 /\ k > n}

LEMMA PrunedDef ==
    PrunedLinks = {n \in links : left[n] > 0 /\ Cardinality(Newer(n)) < MaxEntries}
<1>1. \A n : {k \in {l \in links : left[l] > 0} : k > n} = Newer(n)
    BY DEF Newer
<1> QED BY <1>1 DEF PrunedLinks

LEMMA Indices ==
    ASSUME CameraTypeOK
    PROVE  /\ Len(left) \in Nat /\ DOMAIN left = 1..Len(left)
           /\ Len(via) \in Nat /\ DOMAIN via = 1..Len(via)
           /\ IsFiniteSet(links) /\ Cardinality(links) \in Nat
<1>1. left \in Seq(0..Ttl) /\ via \in Seq(1..Len(left)) /\ links \subseteq DOMAIN left
    BY DEF CameraTypeOK
<1>2. /\ Len(left) \in Nat /\ DOMAIN left = 1..Len(left)
      /\ Len(via) \in Nat /\ DOMAIN via = 1..Len(via)
    BY <1>1, LenProperties
<1>3. IsFiniteSet(1..Len(left))
    BY <1>2, FS_Interval
<1>4. links \in SUBSET (1..Len(left))
    BY <1>1, <1>2
<1>5. IsFiniteSet(links)
    BY <1>3, <1>4, FS_Subset
<1> QED BY <1>2, <1>5, FS_CardinalityType

\* Those that are newer are fewer than the links handed out since.
LEMMA NewerBound ==
    ASSUME CameraTypeOK, NEW n \in DOMAIN left
    PROVE  /\ IsFiniteSet(Newer(n)) /\ Cardinality(Newer(n)) \in Nat
           /\ Cardinality(Newer(n)) =< Len(left) - n
<1>1. n \in 1..Len(left) /\ Len(left) \in Nat /\ links \subseteq 1..Len(left)
    BY Indices DEF CameraTypeOK
<1>2. Newer(n) \in SUBSET ((n + 1)..Len(left))
    <2>1. \A k \in links : k > n => k \in (n + 1)..Len(left)
        BY <1>1
    <2> QED BY <2>1 DEF Newer
<1>3. /\ IsFiniteSet((n + 1)..Len(left))
      /\ Cardinality((n + 1)..Len(left)) = Len(left) - n
    <2>1. n + 1 \in Int /\ Len(left) \in Int
        BY <1>1
    <2>2. /\ IsFiniteSet((n + 1)..Len(left))
          /\ Cardinality((n + 1)..Len(left)) =
                IF n + 1 > Len(left) THEN 0 ELSE Len(left) - (n + 1) + 1
        BY <2>1, FS_Interval
    <2> QED BY <1>1, <2>2
<1>4. IsFiniteSet(Newer(n)) /\ Cardinality(Newer(n)) =< Cardinality((n + 1)..Len(left))
    BY <1>2, <1>3, FS_Subset
<1> QED BY <1>3, <1>4, FS_CardinalityType

\* A link is newer than none that is newer than it.
LEMMA NewerFewer ==
    ASSUME CameraTypeOK, NEW n \in DOMAIN left, NEW m \in links, m > n, left[m] > 0
    PROVE  Cardinality(Newer(m)) < Cardinality(Newer(n))
<1>1. m \in DOMAIN left /\ links \subseteq Nat /\ m \in Nat /\ n \in Nat
    BY Indices DEF CameraTypeOK
<1>2. /\ IsFiniteSet(Newer(m)) /\ Cardinality(Newer(m)) \in Nat
      /\ IsFiniteSet(Newer(n)) /\ Cardinality(Newer(n)) \in Nat
    BY <1>1, NewerBound
<1>3. m \notin Newer(m) /\ Newer(m) \cup {m} \in SUBSET Newer(n)
    BY <1>1 DEF Newer
<1>4. Cardinality(Newer(m) \cup {m}) = Cardinality(Newer(m)) + 1
    BY <1>2, <1>3, FS_AddElement
<1>5. Cardinality(Newer(m) \cup {m}) =< Cardinality(Newer(n))
    BY <1>2, <1>3, FS_Subset
<1> QED BY <1>2, <1>4, <1>5

\* Pruning leaves at most as many links as the limit: they have different
\* numbers of newer ones, all below it.
LEMMA PrunedFew ==
    ASSUME CameraTypeOK
    PROVE  /\ IsFiniteSet(PrunedLinks) /\ Cardinality(PrunedLinks) =< MaxEntries
           /\ PrunedLinks \subseteq links /\ Cardinality(PrunedLinks) \in Nat
<1> DEFINE f == [n \in PrunedLinks |-> Cardinality(Newer(n))]
<1>1. PrunedLinks \subseteq links /\ links \subseteq DOMAIN left /\ DOMAIN left \subseteq Nat
    BY PrunedDef, Indices DEF CameraTypeOK
<1>2. \A n \in PrunedLinks : Cardinality(Newer(n)) \in 0..(MaxEntries - 1) /\ left[n] > 0
    <2> SUFFICES ASSUME NEW n \in PrunedLinks
                 PROVE  Cardinality(Newer(n)) \in 0..(MaxEntries - 1) /\ left[n] > 0
        OBVIOUS
    <2>1. Cardinality(Newer(n)) \in Nat
        BY <1>1, NewerBound
    <2> QED BY <2>1, PrunedDef, CameraOK
<1>3. \A n, m \in PrunedLinks : f[n] = f[m] => n = m
    <2> SUFFICES ASSUME NEW n \in PrunedLinks, NEW m \in PrunedLinks, m > n
                 PROVE  f[m] # f[n]
        BY <1>1
    <2>1. Cardinality(Newer(m)) < Cardinality(Newer(n))
        BY <1>1, <1>2, NewerFewer
    <2>2. Cardinality(Newer(m)) \in Nat /\ Cardinality(Newer(n)) \in Nat
        BY <1>2
    <2> QED BY <2>1, <2>2
<1>4. f \in Injection(PrunedLinks, 0..(MaxEntries - 1))
    BY <1>2, <1>3 DEF Injection, IsInjective
<1>5. /\ IsFiniteSet(0..(MaxEntries - 1))
      /\ Cardinality(0..(MaxEntries - 1)) = MaxEntries
    <2>1. MaxEntries \in Nat /\ 0 \in Int /\ MaxEntries - 1 \in Int
        BY CameraOK
    <2>2. /\ IsFiniteSet(0..(MaxEntries - 1))
          /\ Cardinality(0..(MaxEntries - 1)) =
                IF 0 > MaxEntries - 1 THEN 0 ELSE (MaxEntries - 1) - 0 + 1
        BY <2>1, FS_Interval
    <2> QED BY <2>1, <2>2
<1>6. IsFiniteSet(PrunedLinks) /\ Cardinality(PrunedLinks) =< Cardinality(0..(MaxEntries - 1))
    BY <1>4, <1>5, FS_Injection
<1> QED BY <1>1, <1>5, <1>6, FS_CardinalityType

\* Of the links handed out last, only the expired are pruned.
LEMMA LastKept ==
    ASSUME IInv, NEW n \in DOMAIN left, Len(left) - n < MaxEntries
    PROVE  Found(n) <=> left[n] > 0
<1>1. /\ Cardinality(Newer(n)) \in Nat /\ Cardinality(Newer(n)) =< Len(left) - n
      /\ n \in Nat /\ Len(left) \in Nat /\ MaxEntries \in Nat
    BY NewerBound, Indices, CameraOK DEF IInv
<1>2. Cardinality(Newer(n)) < MaxEntries
    BY <1>1
<1> QED BY <1>2, PrunedDef DEF IInv, LastLinks, Found

----------------------------------------------------------------------------
(* The invariant.                                                          *)

LEMMA Initially == CameraInit => IInv
<1> SUFFICES ASSUME CameraInit PROVE IInv
    OBVIOUS
<1>1. /\ links = {} /\ sessions = {} /\ left = <<>> /\ via = <<>> /\ asked = <<>>
      /\ request = [r \in Requests |-> Idle]
    BY DEF CameraInit
<1>2. Len(left) = 0 /\ DOMAIN left = {} /\ DOMAIN via = {}
    BY <1>1
<1>3. Cardinality(links) = 0
    BY <1>1, FS_EmptySet
<1>4. CameraTypeOK
    <2>1. left \in Seq(0..Ttl) /\ via \in Seq(1..Len(left)) /\ asked \in [DOMAIN via -> Nat]
        BY <1>1, <1>2
    <2>2. request \in [Requests -> Req]
        BY <1>1 DEF Idle, Req
    <2> QED BY <1>1, <1>2, <1>3, <2>1, <2>2, CameraOK DEF CameraTypeOK, Req
<1> QED BY <1>1, <1>2, <1>4 DEF IInv, LastLinks, LiveSessions, OfferedLinks, Idle

\* A step that at most prunes, and counts no deletion.
LEMMA LookUp ==
    ASSUME IInv, Untouched, UNCHANGED <<left, via, asked>>,
           request' \in [Requests -> Req], OfferedLinks'
    PROVE  IInv'
<1>1. /\ links' \subseteq DOMAIN left /\ Cardinality(links') =< MaxEntries + 1
    <2>1. CASE links' = links
        BY <2>1 DEF IInv, CameraTypeOK
    <2>2. CASE links' = PrunedLinks
        <3>1. /\ Cardinality(PrunedLinks) \in Nat /\ Cardinality(PrunedLinks) =< MaxEntries
              /\ PrunedLinks \subseteq links /\ MaxEntries \in Nat
            BY PrunedFew, CameraOK DEF IInv
        <3> QED BY <2>2, <3>1 DEF IInv, CameraTypeOK
    <2> QED BY <2>1, <2>2 DEF Untouched
<1>2. sessions' \subseteq DOMAIN via
    BY DEF Untouched, PrunedSessions, IInv, CameraTypeOK
<1>3. CameraTypeOK'
    BY <1>1, <1>2 DEF IInv, CameraTypeOK, Req
<1>4. LastLinks'
    BY LastKept DEF Untouched, IInv, LastLinks, Found
<1>5. LiveSessions'
    BY DEF Untouched, IInv, LiveSessions, PrunedSessions, CameraTypeOK
<1> QED BY <1>3, <1>4, <1>5 DEF IInv

\* Where a request may go: on with what it has, or with a link, to its end, or
\* nowhere.
LEMMA Moves ==
    ASSUME IInv, left' = left, NEW r \in Requests,
           \/ UNCHANGED request
           \/ End(r)
           \/ \E pc \in {"fragment", "patch", "delete"}, n \in Nat : Move(r, pc, n)
           \/ \E pc \in {"offer", "create"}, n \in DOMAIN left : Move(r, pc, n)
    PROVE  request' \in [Requests -> Req] /\ OfferedLinks'
<1>1. request \in [Requests -> Req] /\ DOMAIN left \subseteq Nat
    BY Indices DEF IInv, CameraTypeOK, Req
<1>2. ASSUME NEW q \in Req, request' = [request EXCEPT ![r] = q],
             q.pc \in {"offer", "create"} => q.of \in DOMAIN left
      PROVE  request' \in [Requests -> Req] /\ OfferedLinks'
    <2>1. request' \in [Requests -> Req]
        BY <1>1, <1>2
    <2>2. \A k \in Requests : request'[k] = (IF k = r THEN q ELSE request[k])
        BY <1>1, <1>2
    <2>3. OfferedLinks'
        BY <1>2, <2>2 DEF IInv, OfferedLinks
    <2> QED BY <2>1, <2>3
<1>3. CASE UNCHANGED request
    BY <1>1, <1>3 DEF IInv, OfferedLinks
<1>4. CASE End(r)
    <2>1. Idle \in Req /\ Idle.pc = "idle"
        BY DEF Idle, Req
    <2> QED BY <1>2, <1>4, <2>1 DEF End
<1>5. ASSUME NEW pc \in {"fragment", "patch", "delete"}, NEW n \in Nat, Move(r, pc, n)
      PROVE  request' \in [Requests -> Req] /\ OfferedLinks'
    <2>1. [pc |-> pc, of |-> n] \in Req
        BY <1>5 DEF Req
    <2> QED BY <1>2, <1>5, <2>1 DEF Move
<1>6. ASSUME NEW pc \in {"offer", "create"}, NEW n \in DOMAIN left, Move(r, pc, n)
      PROVE  request' \in [Requests -> Req] /\ OfferedLinks'
    <2>1. [pc |-> pc, of |-> n] \in Req
        BY <1>1, <1>6 DEF Req
    <2> QED BY <1>2, <1>6, <2>1 DEF Move
<1> QED BY <1>3, <1>4, <1>5, <1>6

LEMMA Invariant == IInv /\ [CameraNext]_pvars => IInv'
<1> SUFFICES ASSUME IInv, [CameraNext]_pvars PROVE IInv'
    OBVIOUS
<1>1. /\ request \in [Requests -> Req] /\ links \subseteq DOMAIN left
      /\ left \in Seq(0..Ttl) /\ via \in Seq(1..Len(left)) /\ sessions \subseteq DOMAIN via
      /\ asked \in [DOMAIN via -> Nat] /\ Len(left) =< MaxLinks
      /\ Cardinality(links) =< MaxEntries + 1
    BY DEF IInv, CameraTypeOK, Req
<1>2. /\ Len(left) \in Nat /\ DOMAIN left = 1..Len(left) /\ left \in [1..Len(left) -> 0..Ttl]
      /\ Len(via) \in Nat /\ DOMAIN via = 1..Len(via) /\ via \in [1..Len(via) -> 1..Len(left)]
    BY <1>1, LenProperties
<1>3. {Ttl, MaxEntries, MaxLinks, MaxSessions} \subseteq Nat
    BY CameraOK
<1>4. CASE UrlFor
    <2>1. /\ left' = Append(left, Ttl) /\ links' = PrunedLinks \cup {Len(left) + 1}
          /\ sessions' = PrunedSessions /\ UNCHANGED <<via, asked, request>>
          /\ Len(left) < MaxLinks
        BY <1>4 DEF UrlFor
    <2>2. /\ left' \in Seq(0..Ttl) /\ Len(left') = Len(left) + 1
          /\ \A n \in 1..Len(left) : left'[n] = left[n]
          /\ DOMAIN left' = 1..(Len(left) + 1)
        <3>1. Ttl \in 0..Ttl
            BY <1>3
        <3>2. /\ Append(left, Ttl) \in Seq(0..Ttl) /\ Len(Append(left, Ttl)) = Len(left) + 1
              /\ \A n \in 1..Len(left) : Append(left, Ttl)[n] = left[n]
            BY <1>1, <3>1, AppendProperties
        <3> QED BY <2>1, <3>2, LenProperties
    <2>3. /\ IsFiniteSet(PrunedLinks) /\ Cardinality(PrunedLinks) =< MaxEntries
          /\ PrunedLinks \subseteq links /\ Cardinality(PrunedLinks) \in Nat
        BY PrunedFew DEF IInv
    <2>4. Cardinality(links') =< MaxEntries + 1 /\ links' \subseteq DOMAIN left'
        <3>1. Cardinality(links') \in {Cardinality(PrunedLinks), Cardinality(PrunedLinks) + 1}
            BY <2>1, <2>3, FS_AddElement
        <3> QED BY <1>1, <1>2, <1>3, <2>1, <2>2, <2>3, <3>1
    <2>5. via' \in Seq(1..Len(left')) /\ sessions' \subseteq DOMAIN via'
        <3>1. 1..Len(left) \subseteq 1..Len(left')
            BY <1>2, <2>2
        <3>2. via \in Seq(1..Len(left'))
            BY <1>1, <3>1, SeqMonotonic
        <3> QED BY <1>1, <2>1, <3>2 DEF PrunedSessions
    <2>6. CameraTypeOK'
        BY <1>1, <1>2, <1>3, <2>1, <2>2, <2>4, <2>5 DEF CameraTypeOK, Req
    <2>7. LastLinks'
        <3> SUFFICES ASSUME NEW n \in 1..(Len(left) + 1), Len(left) + 1 - n < MaxEntries,
                            left'[n] > 0
                     PROVE  n \in links'
            BY <2>2 DEF LastLinks
        <3>1. CASE n = Len(left) + 1
            BY <2>1, <3>1
        <3>2. CASE n # Len(left) + 1
            <4>1. n \in DOMAIN left /\ Len(left) - n < MaxEntries /\ left[n] > 0
                BY <1>2, <1>3, <2>2, <3>2
            <4> QED BY <2>1, <4>1, LastKept DEF Found
        <3> QED BY <3>1, <3>2
    <2>8. LiveSessions'
        BY <1>1, <1>2, <2>1, <2>2 DEF IInv, LiveSessions, PrunedSessions
    <2>9. OfferedLinks'
        BY <1>2, <2>1, <2>2 DEF IInv, OfferedLinks
    <2> QED BY <2>6, <2>7, <2>8, <2>9 DEF IInv
<1>5. CASE CameraTick
    <2>1. /\ left' = [n \in 1..Len(left) |-> IF left[n] = 0 THEN 0 ELSE left[n] - 1]
          /\ UNCHANGED <<links, sessions, via, asked, request>>
        BY <1>2, <1>5 DEF CameraTick
    <2>2. left' \in [1..Len(left) -> 0..Ttl]
        BY <1>2, <1>3, <2>1
    <2>3. left' \in Seq(0..Ttl)
        BY <1>2, <2>2, SeqDef
    <2>4. Len(left') = Len(left) /\ DOMAIN left' = DOMAIN left
        BY <1>2, <2>2, <2>3, LenProperties
    <2>5. \A n \in DOMAIN left : left'[n] > 0 => left[n] > 0
        BY <1>2, <2>1
    <2>6. CameraTypeOK'
        BY <1>1, <2>1, <2>3, <2>4 DEF CameraTypeOK, Req
    <2>7. LastLinks'
        BY <2>1, <2>4, <2>5 DEF IInv, LastLinks
    <2>8. LiveSessions'
        <3>1. \A s \in DOMAIN via : via[s] \in DOMAIN left
            BY <1>2
        <3> QED BY <2>1, <2>5, <3>1 DEF IInv, LiveSessions
    <2>9. OfferedLinks'
        BY <2>1, <2>4 DEF IInv, OfferedLinks
    <2> QED BY <2>6, <2>7, <2>8, <2>9 DEF IInv
<1>6. ASSUME NEW n \in DOMAIN left, Page(n) PROVE IInv'
    <2>1. Untouched /\ UNCHANGED <<left, via, asked, request>>
        BY <1>6 DEF Page, Prune, Untouched
    <2> QED BY <1>1, <2>1, LookUp DEF IInv, OfferedLinks
<1>7. ASSUME NEW r \in Requests, NEW n \in DOMAIN left, CreateBegins(r, n) PROVE IInv'
    <2>1. Untouched /\ UNCHANGED <<left, via, asked>>
        BY <1>7 DEF CreateBegins, Prune, Untouched
    <2>2. request' \in [Requests -> Req] /\ OfferedLinks'
        BY <1>7, <2>1, Moves DEF CreateBegins
    <2> QED BY <2>1, <2>2, LookUp
<1>8. ASSUME NEW r \in Requests, OfferSent(r) PROVE IInv'
    <2>1. Untouched /\ UNCHANGED <<left, via, asked>>
        BY <1>8 DEF OfferSent, Untouched
    <2>2. request' \in [Requests -> Req] /\ OfferedLinks'
        <3>1. request[r].of \in DOMAIN left
            BY <1>8 DEF OfferSent, IInv, OfferedLinks
        <3> QED BY <1>8, <2>1, <3>1, Moves DEF OfferSent
    <2> QED BY <2>1, <2>2, LookUp
<1>9. ASSUME NEW r \in Requests, Created(r) PROVE IInv'
    <2> DEFINE s == Len(via) + 1
    <2>1. /\ via' = Append(via, request[r].of) /\ asked' = Append(asked, 0)
          /\ sessions' = sessions \cup {s} /\ UNCHANGED <<links, left>>
          /\ request' = [request EXCEPT ![r] = Idle] /\ request[r].pc = "create"
        BY <1>9 DEF Created, End
    <2>2. request[r].of \in 1..Len(left)
        BY <1>2, <2>1 DEF IInv, OfferedLinks
    <2>3. /\ via' \in Seq(1..Len(left)) /\ Len(via') = s /\ DOMAIN via' = 1..s
          /\ \A k \in 1..Len(via) : via'[k] = via[k]
        <3>1. /\ Append(via, request[r].of) \in Seq(1..Len(left))
              /\ Len(Append(via, request[r].of)) = s
              /\ \A k \in 1..Len(via) : Append(via, request[r].of)[k] = via[k]
            BY <1>1, <2>2, AppendProperties
        <3> QED BY <2>1, <3>1, LenProperties
    <2>4. /\ asked' \in [1..s -> Nat] /\ asked'[s] = 0
          /\ \A k \in 1..Len(via) : asked'[k] = asked[k]
        <3>1. asked \in Seq(Nat) /\ Len(asked) = Len(via)
            <4>1. asked \in Seq(Nat)
                BY <1>1, <1>2, SeqDef
            <4> QED BY <1>1, <1>2, <4>1, LenProperties
        <3>2. /\ Append(asked, 0) \in Seq(Nat) /\ Len(Append(asked, 0)) = s
              /\ \A k \in 1..Len(via) : Append(asked, 0)[k] = asked[k]
              /\ Append(asked, 0)[s] = 0
            BY <3>1, AppendProperties
        <3> QED BY <2>1, <3>2, LenProperties
    <2>5. request' \in [Requests -> Req] /\ OfferedLinks'
        BY <1>1, <2>1 DEF Idle, Req, IInv, OfferedLinks
    <2>6. CameraTypeOK'
        BY <1>1, <1>2, <2>1, <2>3, <2>4, <2>5 DEF CameraTypeOK, Req
    <2>7. LiveSessions'
        <3> SUFFICES ASSUME NEW k \in 1..s
                     PROVE  /\ (left[via'[k]] > 0 /\ asked'[k] = 0) => k \in sessions'
                            /\ k \in sessions' => asked'[k] = 0
                            /\ asked'[k] \in {0, 1}
            BY <2>1, <2>3 DEF LiveSessions
        <3>1. CASE k = s
            BY <2>1, <2>4, <3>1
        <3>2. CASE k # s
            <4>1. k \in DOMAIN via /\ via'[k] = via[k] /\ asked'[k] = asked[k]
                BY <1>2, <2>3, <2>4, <3>2
            <4> QED BY <2>1, <3>2, <4>1 DEF IInv, LiveSessions
        <3> QED BY <3>1, <3>2
    <2>8. LastLinks'
        BY <2>1 DEF IInv, LastLinks
    <2> QED BY <2>5, <2>6, <2>7, <2>8 DEF IInv
<1>10. ASSUME NEW r \in Requests, UpstreamFails(r) \/ Answered(r) PROVE IInv'
    <2>1. Untouched /\ UNCHANGED <<left, via, asked>>
        BY <1>10 DEF UpstreamFails, Answered, Untouched
    <2>2. request' \in [Requests -> Req] /\ OfferedLinks'
        BY <1>10, <2>1, Moves DEF UpstreamFails, Answered
    <2> QED BY <2>1, <2>2, LookUp
<1>11. ASSUME NEW r \in Requests, NEW s \in DOMAIN via, PatchBegins(r, s) PROVE IInv'
    <2>1. Untouched /\ UNCHANGED <<left, via, asked>>
        BY <1>11 DEF PatchBegins, Prune, Untouched
    <2>2. request' \in [Requests -> Req] /\ OfferedLinks'
        <3>1. s \in Nat
            BY <1>2, <1>11
        <3> QED BY <1>11, <2>1, <3>1, Moves DEF PatchBegins
    <2> QED BY <2>1, <2>2, LookUp
<1>12. ASSUME NEW r \in Requests, FragmentSent(r) PROVE IInv'
    <2>1. Untouched /\ UNCHANGED <<left, via, asked>>
        BY <1>12 DEF FragmentSent, Untouched
    <2>2. request' \in [Requests -> Req] /\ OfferedLinks'
        <3>1. request[r].of \in Nat
            BY <1>1, <1>12 DEF Req
        <3> QED BY <1>12, <2>1, <3>1, Moves DEF FragmentSent
    <2> QED BY <2>1, <2>2, LookUp
<1>13. ASSUME NEW r \in Requests, NEW s \in DOMAIN via, DeleteBegins(r, s) PROVE IInv'
    <2>1. /\ links' = PrunedLinks /\ sessions' = PrunedSessions \ {s}
          /\ UNCHANGED <<left, via>>
        BY <1>13 DEF DeleteBegins
    <2>2. CASE s \in PrunedSessions
        <3>1. /\ request' = [request EXCEPT ![r] = [pc |-> "delete", of |-> s]]
              /\ asked' = [asked EXCEPT ![s] = @ + 1] /\ asked[s] = 0 /\ s \in Nat
            BY <1>2, <1>13, <2>2 DEF DeleteBegins, Move, IInv, LiveSessions, PrunedSessions
        <3>2. request' \in [Requests -> Req] /\ OfferedLinks'
            BY <1>1, <2>1, <3>1 DEF Req, IInv, OfferedLinks
        <3>3. /\ asked' \in [DOMAIN via -> Nat] /\ asked'[s] = 1
              /\ \A k \in DOMAIN via : k # s => asked'[k] = asked[k]
            BY <1>1, <3>1
        <3>4. /\ Cardinality(PrunedLinks) =< MaxEntries + 1 /\ PrunedLinks \subseteq links
            <4>1. /\ Cardinality(PrunedLinks) \in Nat /\ Cardinality(PrunedLinks) =< MaxEntries
                  /\ PrunedLinks \subseteq links
                BY PrunedFew DEF IInv
            <4> QED BY <1>3, <4>1
        <3>5. CameraTypeOK'
            BY <1>1, <2>1, <3>2, <3>3, <3>4 DEF CameraTypeOK, PrunedSessions, Req
        <3>6. LastLinks'
            BY <2>1, LastKept DEF IInv, LastLinks, Found
        <3>7. LiveSessions'
            <4> SUFFICES ASSUME NEW k \in DOMAIN via
                         PROVE  /\ (left[via[k]] > 0 /\ asked'[k] = 0) => k \in sessions'
                                /\ k \in sessions' => asked'[k] = 0
                                /\ asked'[k] \in {0, 1}
                BY <2>1 DEF LiveSessions
            <4>1. CASE k = s
                BY <2>1, <3>3, <4>1
            <4>2. CASE k # s
                <5>1. asked'[k] = asked[k]
                    BY <3>3, <4>2
                <5> QED BY <2>1, <4>2, <5>1 DEF IInv, LiveSessions, PrunedSessions
            <4> QED BY <4>1, <4>2
        <3> QED BY <3>2, <3>5, <3>6, <3>7 DEF IInv
    <2>3. CASE s \notin PrunedSessions
        <3>1. Untouched /\ UNCHANGED <<left, via, asked, request>>
            BY <1>13, <2>1, <2>3 DEF DeleteBegins, Untouched
        <3> QED BY <1>1, <3>1, LookUp DEF IInv, OfferedLinks
    <2> QED BY <2>2, <2>3
<1>14. CASE UNCHANGED pvars
    BY <1>1, <1>14, LookUp DEF pvars, Untouched, IInv, OfferedLinks
<1> QED
    BY <1>4, <1>5, <1>6, <1>7, <1>8, <1>9, <1>10, <1>11, <1>12, <1>13, <1>14
    DEF CameraNext, Request

LEMMA Invariance == CameraSpec => []IInv
BY Initially, Invariant, PTL DEF CameraSpec

----------------------------------------------------------------------------

\* Type correctness, and the bound of the table of links, for any limits.
THEOREM TypeCorrect == CameraSpec => []CameraTypeOK
<1>1. IInv => CameraTypeOK
    BY DEF IInv
<1> QED BY <1>1, Invariance, PTL

\* For any limits and requests, a link works until it expires and not after,
\* unless as many as the limit are handed out after it.
THEOREM LinksHonoured == CameraSpec => []LinkHonoured
<1>1. IInv => LinkHonoured
    BY LastKept DEF LinkHonoured
<1> QED BY <1>1, Invariance, PTL

\* For any limits and requests, a session is reachable until its link expires
\* or its deletion is asked for, which is done once.
THEOREM SessionsReachable == CameraSpec => []SessionReachable
<1>1. IInv => SessionReachable
    BY DEF IInv, LiveSessions, SessionReachable, PrunedSessions
<1> QED BY <1>1, Invariance, PTL

=============================================================================
