----------------------------- MODULE CallNotice -----------------------------
(***************************************************************************)
(* What the call watcher promises about one call, whatever the transport,  *)
(* the retries and the caches behind it: every user gets at most one       *)
(* acknowledged card; a call is tried in at most MaxRounds rounds, each    *)
(* only for the users the round before owed a card; a settled call is      *)
(* never notified again; and it is forgotten only once the call log page   *)
(* no longer shows it.  Calls are independent: in one step each makes a    *)
(* move of its own.                                                        *)
(***************************************************************************)
EXTENDS Naturals

CONSTANTS Users, Calls, MaxRounds

VARIABLES
    visible,  \* the calls a poll of the call log can return
    settled,  \* the calls that are done
    owed,     \* per call: completed rounds and the users still owed a card
    cards     \* per call and user: acknowledged cards

vars == <<visible, settled, owed, cards>>

NothingOwed == [recipients |-> {}, rounds |-> 0]

Fresh ==
    /\ settled = {}
    /\ owed = [c \in Calls |-> NothingOwed]
    /\ cards = [c \in Calls |-> [u \in Users |-> 0]]

Init == visible \in SUBSET Calls /\ Fresh

\* One more card for u: only for an unsettled call, only the first, and after
\* a failed round only for a user that round left out.
Tell(c, u) ==
    /\ c \notin settled
    /\ owed[c].rounds > 0 => u \in owed[c].recipients
    /\ cards[c][u] = 0
    /\ cards'[c] = [cards[c] EXCEPT ![u] = 1]

\* A round left users out: fewer or the same as before, rounds counted.
FailRound(c) ==
    /\ c \notin settled /\ c \notin settled'
    /\ owed'[c].rounds = owed[c].rounds + 1 /\ owed'[c].rounds < MaxRounds
    /\ owed'[c].recipients # {}
    /\ owed[c].rounds > 0 => owed'[c].recipients \subseteq owed[c].recipients

Settle(c) ==
    /\ c \notin settled /\ c \in settled'
    /\ owed'[c] = NothingOwed

Forget(c) ==
    /\ c \in settled /\ c \notin settled' /\ c \notin visible'
    /\ owed'[c] = owed[c]

Keep(c) ==
    /\ c \in settled <=> c \in settled'
    /\ owed'[c] = owed[c]

CallStep(c) ==
    /\ cards'[c] = cards[c] \/ \E u \in Users : Tell(c, u)
    /\ Keep(c) \/ FailRound(c) \/ Settle(c) \/ Forget(c)

\* A new process starts from nothing.
Reset == Fresh' /\ UNCHANGED visible

Next == (\A c \in Calls : CallStep(c)) \/ Reset

Spec == Init /\ [][Next]_vars

=============================================================================
