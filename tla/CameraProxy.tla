---------------------------- MODULE CameraProxy ----------------------------
(***************************************************************************)
(* The camera proxy of web/camera_proxy.py: links that open the player for *)
(* a limited time, and the WHEP sessions created through them at the media *)
(* server.                                                                 *)
(*                                                                         *)
(* Each HTTP request is a task; it awaits its body and the media server,   *)
(* and other requests run in between.  Links and sessions are numbered in  *)
(* the order they are created, and the expiry of a link is the ticks left; *)
(* the token's own copy of the expiry, cut to seconds, ends it at most a   *)
(* second earlier.  The wall clock is not set.                             *)
(***************************************************************************)
EXTENDS Naturals, Sequences, FiniteSets

CONSTANTS Ttl,         \* link_ttl_seconds, in ticks
          MaxEntries,  \* max_entries
          MaxLinks,    \* bound: links handed out
          MaxSessions, \* bound: sessions created
          Requests     \* tasks handling HTTP requests

ASSUME CameraOK == {Ttl, MaxEntries, MaxLinks, MaxSessions} \subseteq Nat

VARIABLES
    links,     \* _links: the numbers of the links, the oldest is the least
    sessions,  \* _sessions: the sessions in the table
    left,      \* per link handed out, the ticks until it expires
    via,       \* per session created, the link it was created through
    asked,     \* history, per session: how often its deletion was asked for
    request    \* per task: where it is, and the number of its link or session

pvars == <<links, sessions, left, via, asked, request>>

Idle == [pc |-> "idle", of |-> 0]

CameraInit ==
    /\ links = {} /\ sessions = {} /\ left = <<>> /\ via = <<>> /\ asked = <<>>
    /\ request = [r \in Requests |-> Idle]

\* Mutant: the newest links are dropped.
PrunedLinksNewest ==
    LET valid == {n \in links : left[n] > 0}
    IN  {n \in valid : Cardinality({k \in valid : k < n}) < MaxEntries}

\* _prune: what is expired, and of the links the oldest beyond the limit.
PrunedLinks ==
    LET valid == {n \in links : left[n] > 0}
    IN  {n \in valid : Cardinality({k \in valid : k > n}) < MaxEntries}

PrunedSessions == {s \in sessions : left[via[s]] > 0}

Prune == links' = PrunedLinks /\ sessions' = PrunedSessions

\* _link: the link is in the table after pruning.
Found(n) == n \in PrunedLinks

Move(r, pc, n) == request' = [request EXCEPT ![r] = [pc |-> pc, of |-> n]]
End(r) == request' = [request EXCEPT ![r] = Idle]

\* url_for: prune, then add; the table may now hold one more than the limit.
UrlFor ==
    /\ Len(left) < MaxLinks
    /\ links' = PrunedLinks \cup {Len(left) + 1}
    /\ sessions' = PrunedSessions
    /\ left' = Append(left, Ttl)
    /\ UNCHANGED <<via, asked, request>>

\* GET of the player: only a link that is found is answered.
Page(n) == Prune /\ UNCHANGED <<left, via, asked, request>>

\* POST: the link is looked up, then the body is awaited.
CreateBegins(r, n) ==
    /\ request[r].pc = "idle"
    /\ Prune
    /\ IF Found(n) THEN Move(r, "offer", n) ELSE UNCHANGED request
    /\ UNCHANGED <<left, via, asked>>

\* The offer goes to the media server; a bad one, or none, ends the request.
OfferSent(r) ==
    /\ request[r].pc = "offer"
    /\ \/ Move(r, "create", request[r].of)
       \/ End(r)
    /\ UNCHANGED <<links, sessions, left, via, asked>>

\* The media server has created a session: it is remembered with the expiry
\* of the link, which may have come meanwhile.
Created(r) ==
    /\ request[r].pc = "create" /\ Len(via) < MaxSessions
    /\ via' = Append(via, request[r].of) /\ asked' = Append(asked, 0)
    /\ sessions' = sessions \cup {Len(via) + 1}
    /\ End(r)
    /\ UNCHANGED <<links, left>>

\* The media server, or the proxy of a request, fails.
UpstreamFails(r) ==
    /\ request[r].pc \in {"create", "patch", "delete"}
    /\ End(r)
    /\ UNCHANGED <<links, sessions, left, via, asked>>

\* PATCH: the session is looked up, then the body is awaited.
PatchBegins(r, s) ==
    /\ request[r].pc = "idle"
    /\ Prune
    /\ IF s \in PrunedSessions THEN Move(r, "fragment", s) ELSE UNCHANGED request
    /\ UNCHANGED <<left, via, asked>>

FragmentSent(r) ==
    /\ request[r].pc = "fragment"
    /\ \/ Move(r, "patch", request[r].of)
       \/ End(r)
    /\ UNCHANGED <<links, sessions, left, via, asked>>

\* Mutant: the session stays in the table.
DeleteBeginsLate(r, s) ==
    /\ request[r].pc = "idle"
    /\ links' = PrunedLinks
    /\ sessions' = PrunedSessions
    /\ IF s \in PrunedSessions
       THEN Move(r, "delete", s) /\ asked' = [asked EXCEPT ![s] = @ + 1]
       ELSE UNCHANGED <<request, asked>>
    /\ UNCHANGED <<left, via>>

\* DELETE: the session leaves the table before the media server is asked.
DeleteBegins(r, s) ==
    /\ request[r].pc = "idle"
    /\ links' = PrunedLinks
    /\ sessions' = PrunedSessions \ {s}
    /\ IF s \in PrunedSessions
       THEN Move(r, "delete", s) /\ asked' = [asked EXCEPT ![s] = @ + 1]
       ELSE UNCHANGED <<request, asked>>
    /\ UNCHANGED <<left, via>>

\* A PATCH or DELETE is answered.
Answered(r) ==
    /\ request[r].pc \in {"patch", "delete"}
    /\ End(r)
    /\ UNCHANGED <<links, sessions, left, via, asked>>

\* A second passes.
CameraTick ==
    /\ left' = [n \in DOMAIN left |-> IF left[n] = 0 THEN 0 ELSE left[n] - 1]
    /\ UNCHANGED <<links, sessions, via, asked, request>>

Request(r) ==
    \/ \E n \in DOMAIN left : CreateBegins(r, n)
    \/ \E s \in DOMAIN via : PatchBegins(r, s) \/ DeleteBegins(r, s)
    \/ OfferSent(r) \/ Created(r) \/ FragmentSent(r) \/ UpstreamFails(r) \/ Answered(r)

CameraNext ==
    \/ UrlFor \/ CameraTick
    \/ \E n \in DOMAIN left : Page(n)
    \/ \E r \in Requests : Request(r)

CameraSpec == CameraInit /\ [][CameraNext]_pvars

----------------------------------------------------------------------------
(* Correctness.                                                            *)

\* Every variable has its type, and the table of links is bounded.
CameraTypeOK ==
    /\ links \subseteq DOMAIN left /\ Cardinality(links) =< MaxEntries + 1
    /\ left \in Seq(0..Ttl) /\ Len(left) =< MaxLinks
    /\ via \in Seq(1..Len(left)) /\ sessions \subseteq DOMAIN via
    /\ asked \in [DOMAIN via -> Nat]
    /\ request \in [Requests -> [pc : {"idle", "offer", "create", "fragment", "patch", "delete"},
                                 of : Nat]]

\* A link handed out works until it expires and not after, unless as many as
\* the limit have been handed out after it, whatever was pruned in between.
LinkHonoured ==
    \A n \in DOMAIN left : Len(left) - n < MaxEntries => (Found(n) <=> left[n] > 0)

\* A session that exists at the media server can be reached through the proxy
\* until its link expires or the media server is asked to delete it, and not
\* after; it is asked once, however many requests overlap.
SessionReachable ==
    \A s \in DOMAIN via :
        /\ s \in PrunedSessions <=> (left[via[s]] > 0 /\ asked[s] = 0)
        /\ asked[s] \in {0, 1}

=============================================================================
