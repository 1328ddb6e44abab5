---------------------------- MODULE CallWatcher ----------------------------
(***************************************************************************)
(* The incoming-call watcher (telegram/call_watcher.py): one asyncio task  *)
(* that alternates hub sessions (SignalR pushes) with windows of call-log  *)
(* polling, and sends every allowed Telegram user one card per call.       *)
(*                                                                         *)
(* Calls are named by the order in which they rang: the call log is the    *)
(* numbers 1..last, newest first.  A call id is opaque to the watcher, so  *)
(* the naming loses nothing.                                               *)
(*                                                                         *)
(* The task runs one handler at a time, but every send is an await: the    *)
(* access list, the hub and the call log change between two sends.  A      *)
(* step below is what the task does between two awaits.                    *)
(***************************************************************************)
EXTENDS Integers, Sequences, FiniteSets, SequencesExt

CONSTANTS
    Users,        \* Telegram user ids that may be on the access list
    NCalls,       \* bound: number of calls that ring in a behaviour
    MaxSeen,      \* _MAX_SEEN_IDS
    MaxPending,   \* _MAX_PENDING_DELIVERIES
    MaxAttempts,  \* _NOTIFICATION_MAX_ATTEMPTS
    MaxRounds,    \* _NOTIFICATION_MAX_DELIVERY_ROUNDS
    PollPage,     \* per_page of the polling request
    PrePage,      \* per_page of the request that prepopulates the seen ids
    HubCap,       \* bound: pushes waiting in the hub connection
    MaxRestarts,  \* bound: crashes or stops followed by a new process
    Photos        \* whether photo downloads may succeed: {TRUE, FALSE}, or {FALSE}

ASSUME ConstantsOK ==
    /\ Photos \in SUBSET BOOLEAN /\ Photos # {}
    /\ IsFiniteSet(Users) /\ Users \subseteq Nat
    /\ NCalls \in Nat /\ HubCap \in Nat /\ MaxRestarts \in Nat
    /\ MaxPending \in Nat \ {0} /\ MaxAttempts \in Nat \ {0}
    /\ MaxRounds \in Nat \ {0} /\ PollPage \in Nat \ {0}
    /\ PrePage \in Nat \ {0} /\ MaxSeen \in Nat /\ MaxSeen >= PrePage

Calls == 1..NCalls

Event == [kind : {"DomofonCalling", "DomofonCallEnded"}, call : Calls]

(* One call to _send_notification: the recipients still to be served, the  *)
(* ones whose card could not be sent, whether a photo was downloaded, and  *)
(* the position inside _send_with_retry for the first of todo.             *)
Round == [call : Calls, todo : (SUBSET Users) \ {{}}, failed : SUBSET Users,
          photo : BOOLEAN, kind : {"photo", "text"}, attempt : 0..MaxAttempts-1]
NoRound == [call |-> 0]

\* An entry of _pending_deliveries; NoDelivery stands for a missing key.
Delivery == [recipients : SUBSET Users, rounds : 0..MaxRounds-1]
NoDelivery == [recipients |-> {}, rounds |-> 0]

VARIABLES
    last,     \* the calls 1..last have rung; last is the newest of the call log
    allowed,  \* the runtime access list
    hub,      \* pushes received on the hub connection and not yet handled
    mode,     \* where _run is: auth, prepopulate, connect, hub, poll, page
    page,     \* entries of the fetched call-log page still to be handled
    cur,      \* the round in progress, NoRound between handlers
    seen,     \* _seen_ids and _seen_order
    pend,     \* _pending_deliveries: its keys in order, and its values
    active,   \* _active_notifications: users with a tracked card, per call
    cards,    \* acknowledged cards of this process, per call and user
    restarts

vars == <<last, allowed, hub, mode, page, cur, seen, pend, active,
          cards, restarts>>

Modes == {"auth", "prepopulate", "connect", "hub", "poll", "page"}

----------------------------------------------------------------------------
(* The two bounded caches, as functions of their old value.                *)

\* Mutant: the limit is enforced on the deque only.
AddSeenKeepsEvictedId(s, c) ==
    IF c \in s.ids THEN s
    ELSE LET order == Append(s.order, c)
         IN  [ids |-> s.ids \cup {c},
              order |-> IF Len(order) > MaxSeen THEN Tail(order) ELSE order]

\* Mutant: a full cache drops the id just added instead of the oldest.
AddSeenDropsNewest(s, c) ==
    IF c \in s.ids \/ Len(s.order) >= MaxSeen THEN s
    ELSE [ids |-> s.ids \cup {c}, order |-> Append(s.order, c)]

\* _add_seen: append, then drop the oldest ids above the limit.
AddSeen(s, c) ==
    IF c \in s.ids THEN s
    ELSE LET order == Append(s.order, c)
         IN  IF Len(order) > MaxSeen
             THEN [ids |-> (s.ids \cup {c}) \ {Head(order)}, order |-> Tail(order)]
             ELSE [ids |-> s.ids \cup {c}, order |-> order]

\* _pending_deliveries.pop(call_id, None)
PopPending(q, c) ==
    [order |-> RemoveFirst(q.order, c), info |-> [q.info EXCEPT ![c] = NoDelivery]]

\* Mutant: the eviction loop is missing.
StorePendingUnbounded(s, q, c, failed, rounds) ==
    [seen |-> s,
     pend |-> [order |-> Append(RemoveFirst(q.order, c), c),
               info  |-> [q.info EXCEPT ![c] = [recipients |-> failed, rounds |-> rounds]]]]

\* Store the recipients left over by a round and move the call to the end;
\* above the limit the oldest delivery is abandoned and counts as seen.
StorePending(s, q, c, failed, rounds) ==
    LET order == Append(RemoveFirst(q.order, c), c)
        info  == [q.info EXCEPT ![c] = [recipients |-> failed, rounds |-> rounds]]
    IN  IF Len(order) > MaxPending
        THEN [seen |-> AddSeen(s, Head(order)),
              pend |-> [order |-> Tail(order),
                        info  |-> [info EXCEPT ![Head(order)] = NoDelivery]]]
        ELSE [seen |-> s, pend |-> [order |-> order, info |-> info]]

\* Mutant: the call is marked seen although a retry is due.
RecordedAlwaysSeen(s, q, c, failed) ==
    LET rounds == q.info[c].rounds + 1
    IN  IF failed = {} \/ rounds >= MaxRounds
        THEN [seen |-> AddSeen(s, c), pend |-> PopPending(q, c)]
        ELSE StorePending(AddSeen(s, c), q, c, failed, rounds)

\* Mutant: the round counter starts again with every round.
RecordedRoundsRestart(s, q, c, failed) ==
    IF failed = {}
    THEN [seen |-> AddSeen(s, c), pend |-> PopPending(q, c)]
    ELSE StorePending(s, q, c, failed, 1)

\* _record_delivery_result
Recorded(s, q, c, failed) ==
    LET rounds == q.info[c].rounds + 1
    IN  IF failed = {} \/ rounds >= MaxRounds
        THEN [seen |-> AddSeen(s, c), pend |-> PopPending(q, c)]
        ELSE StorePending(s, q, c, failed, rounds)

Record(c, failed) ==
    LET r == Recorded(seen, pend, c, failed)
    IN  seen' = r.seen /\ pend' = r.pend

----------------------------------------------------------------------------
EmptySeen == [ids |-> {}, order |-> <<>>]
EmptyPend == [order |-> <<>>, info |-> [c \in Calls |-> NoDelivery]]
NoCards == [c \in Calls |-> [u \in Users |-> 0]]
NoActive == [c \in Calls |-> {}]

Init ==
    /\ last \in 0..NCalls
    /\ allowed \in SUBSET Users
    /\ hub = <<>> /\ mode = "auth" /\ page = <<>> /\ cur = NoRound
    /\ seen = EmptySeen /\ pend = EmptyPend
    /\ active = NoActive /\ cards = NoCards
    /\ restarts = 0

\* The newest n entries of the call log, newest first.
Newest(n) == [i \in 1..(IF n < last THEN n ELSE last) |-> last + 1 - i]
OnPage(c) == c =< last /\ c > last - PollPage

----------------------------------------------------------------------------
(* The world outside the watcher.                                          *)

\* A push reaches the connection only while a hub session is open, and even
\* then it may be lost with the socket.
Push(kind, c) ==
    /\ mode = "hub" /\ Len(hub) < HubCap
    /\ hub' = Append(hub, [kind |-> kind, call |-> c])

Ring ==
    /\ last < NCalls
    /\ last' = last + 1
    /\ Push("DomofonCalling", last') \/ UNCHANGED hub
    /\ UNCHANGED <<allowed, mode, page, cur, seen, pend, active, cards, restarts>>

\* The hub repeats the push of a recent call, or tells that the call is over.
\* Which calls are really over is the world's business: the watcher keeps no
\* record of it, so any order of these pushes may arrive.
RecentPush(c) ==
    /\ OnPage(c)
    /\ \E kind \in {"DomofonCalling", "DomofonCallEnded"} : Push(kind, c)
    /\ UNCHANGED <<last, allowed, mode, page, cur, seen, pend, active, cards, restarts>>

\* AccessControl.add_user and remove_user, called by the admin panel and /start.
Grant(u) ==
    /\ u \notin allowed
    /\ allowed' = allowed \cup {u}
    /\ UNCHANGED <<last, hub, mode, page, cur, seen, pend, active, cards, restarts>>

Revoke(u) ==
    /\ u \in allowed
    /\ allowed' = allowed \ {u}
    /\ UNCHANGED <<last, hub, mode, page, cur, seen, pend, active, cards, restarts>>

----------------------------------------------------------------------------
(* The task _run: authentication, prepopulation, hub sessions, polling.    *)

WaitForAuth ==
    /\ mode = "auth"
    /\ mode' = "prepopulate"
    /\ UNCHANGED <<last, allowed, hub, page, cur, seen, pend, active, cards, restarts>>

\* One page of the log is marked seen; a failed request marks nothing and is
\* only logged.  seen is empty here and the page fits in it.
PrepopulateSeen ==
    /\ mode = "prepopulate"
    /\ mode' = "connect"
    /\ \/ seen' = [ids |-> Range(Newest(PrePage)), order |-> Newest(PrePage)]
       \/ UNCHANGED seen
    /\ UNCHANGED <<last, allowed, hub, page, cur, pend, active, cards, restarts>>

HubConnect ==
    /\ mode = "connect"
    /\ mode' \in {"hub", "poll"}       \* connected, or the handshake failed
    /\ UNCHANGED <<last, allowed, hub, page, cur, seen, pend, active, cards, restarts>>

HubSessionEnds ==
    /\ mode = "hub" /\ cur = NoRound
    /\ mode' = "poll"
    /\ hub' = <<>>
    /\ UNCHANGED <<last, allowed, page, cur, seen, pend, active, cards, restarts>>

PollFetch ==
    /\ mode = "poll"
    /\ mode' = "page"
    /\ page' = Newest(PollPage)
    /\ UNCHANGED <<last, allowed, hub, cur, seen, pend, active, cards, restarts>>

\* The request fails: logged, and tried again at the next poll.
PollFails ==
    /\ mode = "poll"
    /\ mode' = "page"
    /\ UNCHANGED <<last, allowed, hub, page, cur, seen, pend, active, cards, restarts>>

\* The page is done: sleep and poll again, or the window is over.
PollDone ==
    /\ mode = "page" /\ page = <<>> /\ cur = NoRound
    /\ mode' \in {"poll", "connect"}
    /\ UNCHANGED <<last, allowed, hub, page, cur, seen, pend, active, cards, restarts>>

----------------------------------------------------------------------------
(* A handler: _handle_payload and _handle_entry have the same shape.       *)

\* Mutant: a retry goes to everybody.
RecipientsOfEveryRound(c) == allowed

\* _delivery_recipient_ids
Recipients(c) ==
    {u \in allowed : pend.info[c].rounds > 0 => u \in pend.info[c].recipients}

\* The first attempt for the next of todo.
Serving(c, todo, failed, photo) ==
    [call |-> c, todo |-> todo, failed |-> failed, photo |-> photo,
     kind |-> IF photo THEN "photo" ELSE "text", attempt |-> 0]

SkipSeen(c) ==
    /\ c \in seen.ids
    /\ UNCHANGED <<cur, seen, pend>>

NobodyToTell(c) ==
    /\ c \notin seen.ids /\ Recipients(c) = {}
    /\ Record(c, {})
    /\ UNCHANGED cur

\* The recipients are read once, before the door lookup, the photo download
\* and the sends; the download may fail.
BeginRound(c) ==
    /\ c \notin seen.ids /\ Recipients(c) # {}
    /\ \E photo \in Photos : cur' = Serving(c, Recipients(c), {}, photo)
    /\ UNCHANGED <<seen, pend>>

Handle(c) == SkipSeen(c) \/ NobodyToTell(c) \/ BeginRound(c)

PollEntry ==
    /\ mode = "page" /\ page # <<>> /\ cur = NoRound
    /\ page' = Tail(page)
    /\ Handle(Head(page))
    /\ UNCHANGED <<last, allowed, hub, mode, active, cards, restarts>>

HubCalling ==
    /\ mode = "hub" /\ hub # <<>> /\ cur = NoRound
    /\ Head(hub).kind = "DomofonCalling"
    /\ hub' = Tail(hub)
    /\ Handle(Head(hub).call)
    /\ UNCHANGED <<last, allowed, mode, page, active, cards, restarts>>

\* _close_notification forgets the cards before it edits them; a failed edit
\* is logged and never tried again.
HubEnded ==
    /\ mode = "hub" /\ hub # <<>> /\ cur = NoRound
    /\ Head(hub).kind = "DomofonCallEnded"
    /\ hub' = Tail(hub)
    /\ active' = [active EXCEPT ![Head(hub).call] = {}]
    /\ UNCHANGED <<last, allowed, mode, page, cur, seen, pend, cards, restarts>>

----------------------------------------------------------------------------
(* _send_notification, one attempt of _send_with_retry at a time.          *)

\* The recipient being served: the loop takes the ids in a fixed order.
Uid == CHOOSE u \in cur.todo : TRUE

\* Go on with the next recipient; after the last one the result is recorded
\* with no await in between.
NextRecipient(failed) ==
    LET todo == cur.todo \ {Uid}
    IN  IF todo = {}
        THEN cur' = NoRound /\ Record(cur.call, failed)
        ELSE /\ cur' = Serving(cur.call, todo, failed, cur.photo)
             /\ UNCHANGED <<seen, pend>>

\* Telegram acknowledged the message, which is tracked for its call.
SendOk ==
    /\ cur # NoRound
    /\ cards' = [cards EXCEPT ![cur.call][Uid] = @ + 1]
    /\ active' = [active EXCEPT ![cur.call] = @ \cup {Uid}]
    /\ NextRecipient(cur.failed)
    /\ UNCHANGED <<last, allowed, hub, mode, page, restarts>>

\* Mutant: the attempt counter wraps instead of ending the attempts.
SendTransientWraps ==
    /\ cur # NoRound
    /\ cur' = [cur EXCEPT !.attempt = (@ + 1) % MaxAttempts]
    /\ UNCHANGED <<last, allowed, hub, mode, page, seen, pend, active, cards, restarts>>

\* A network or server error, a short flood wait, or a lost answer: sleep and
\* try again while attempts are left.
SendTransient ==
    /\ cur # NoRound /\ cur.attempt + 1 < MaxAttempts
    /\ cur' = [cur EXCEPT !.attempt = @ + 1]
    /\ UNCHANGED <<last, allowed, hub, mode, page, seen, pend, active, cards, restarts>>

\* The last attempt failed, or the error is not worth a retry: a photo falls
\* back to text, a text gives the recipient up for this round.
SendFails ==
    /\ cur # NoRound
    /\ IF cur.kind = "photo"
       THEN /\ cur' = [cur EXCEPT !.kind = "text", !.attempt = 0]
            /\ UNCHANGED <<seen, pend>>
       ELSE NextRecipient(cur.failed \cup {Uid})
    /\ UNCHANGED <<last, allowed, hub, mode, page, active, cards, restarts>>

\* A crash, or stop() and a new process: everything the watcher knows is in
\* memory.  cards counts what the new process sends.
Restart ==
    /\ restarts < MaxRestarts
    /\ restarts' = restarts + 1
    /\ mode' = "auth" /\ hub' = <<>> /\ page' = <<>> /\ cur' = NoRound
    /\ seen' = EmptySeen /\ pend' = EmptyPend
    /\ active' = NoActive /\ cards' = NoCards
    /\ UNCHANGED <<last, allowed>>

----------------------------------------------------------------------------
Watcher ==
    \/ WaitForAuth \/ PrepopulateSeen \/ HubConnect
    \/ PollFetch \/ PollFails \/ PollEntry \/ PollDone
    \/ HubCalling \/ HubEnded
    \/ SendOk \/ SendTransient \/ SendFails

Environment ==
    \/ Ring \/ HubSessionEnds \/ Restart
    \/ \E c \in Calls : RecentPush(c)
    \/ \E u \in Users : Grant(u) \/ Revoke(u)

Next == Watcher \/ Environment

Spec == Init /\ [][Next]_vars

\* The event loop runs the task whenever it is ready, and every await of it
\* ends: sends, downloads and requests have timeouts.  Nothing is assumed of
\* the world, except that polls do not fail for ever.
FairSpec == Spec /\ WF_vars(Watcher) /\ SF_vars(PollFetch)

----------------------------------------------------------------------------
(* Correctness.                                                            *)

\* Every variable has its type.
TypeOK ==
    /\ last \in 0..NCalls /\ allowed \subseteq Users
    /\ hub \in Seq(Event) /\ mode \in Modes /\ page \in Seq(Calls)
    /\ cur \in Round \cup {NoRound}
    /\ seen \in [ids : SUBSET Calls, order : Seq(Calls)]
    /\ pend \in [order : Seq(Calls), info : [Calls -> Delivery]]
    /\ active \in [Calls -> SUBSET Users]
    /\ cards \in [Calls -> [Users -> Nat]]
    /\ restarts \in 0..MaxRestarts

Distinct(s) == \A i, j \in 1..Len(s) : s[i] = s[j] => i = j

SeenOK(s) ==
    /\ s.ids = Range(s.order)
    /\ Distinct(s.order)
    /\ Len(s.order) =< MaxSeen

PendOK(q) ==
    /\ Range(q.order) = {c \in Calls : q.info[c].rounds > 0}
    /\ \A c \in Calls : q.info[c].rounds > 0 <=> q.info[c].recipients # {}
    /\ Distinct(q.order)
    /\ Len(q.order) =< MaxPending

NoneBoth(s, q) == \A c \in Calls : q.info[c].rounds > 0 => c \notin s.ids

\* _seen_ids and _seen_order always agree, hold no id twice and stay bounded
\* (_add_seen keeps a set and a deque in step by hand).
SeenConsistent == SeenOK(seen)

\* A call is waiting for a retry exactly when a round of it left somebody out;
\* the waiting list holds no call twice and stays bounded.
PendingConsistent == PendOK(pend)

\* The two caches of the watcher: consistent, and within their bounds.
CachesConsistent == SeenConsistent /\ PendingConsistent

\* A call that still waits for a retry is not in the seen ids: otherwise both
\* handlers would return early and the retry would never happen.  The call of
\* the round in progress is not in them either.
PendingNotSeen ==
    /\ NoneBoth(seen, pend)
    /\ cur # NoRound => cur.call \notin seen.ids

\* The watcher implements CallNotice.
Notice == INSTANCE CallNotice
    WITH visible <- {c \in Calls : OnPage(c)}, settled <- seen.ids, owed <- pend.info
ImplementsNotice == Notice!Spec

\* A round ends whatever Telegram answers: the watcher has one task, and a
\* round that never ended would silence every later call.
RoundEnds == cur # NoRound ~> cur = NoRound

\* As long as the watcher keeps coming back to polling, every call the log
\* page shows is settled, or pushed off the page by newer calls.
PolledCallsSettle ==
    []<>(mode = "poll") =>
        \A c \in Calls : OnPage(c) ~> (c \in seen.ids \/ ~OnPage(c))

=============================================================================
