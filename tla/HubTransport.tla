---------------------------- MODULE HubTransport ----------------------------
(***************************************************************************)
(* One hub session after another (domonap/signalr.py), the keepalive task  *)
(* beside it, and CallWatcher.stop, which cancels the watcher and closes   *)
(* the transport.                                                          *)
(*                                                                         *)
(* The watcher's task is at an await in every state; a cancellation is     *)
(* raised there.  In the cleanup of a session the await is that of the     *)
(* keepalive task, whose own cancellation is expected and passed over: a   *)
(* cancellation of the watcher that comes then is passed over with it.     *)
(***************************************************************************)
EXTENDS Naturals

VARIABLES
    hub,        \* the watcher's task: where it is, the handshake and the negotiation it
                \* tries, what a refresh is for, and whether a cancellation is on its way up
    token,      \* the access token of the client: "good", "refused" or "none"
    refreshes,  \* refreshes of this session
    ping,       \* the keepalive task runs
    ws, http,   \* the socket, and the HTTP session, are open
    event,      \* _stop_event
    orphan,     \* a session left by an error of the consumer is not closed yet
    stop        \* CallWatcher.stop: "no", "waits", "insists" or "done"

hvars == <<hub, token, refreshes, ping, ws, http, event, orphan, stop>>

Polling == [pc |-> "polls", handshake |-> 1, negotiation |-> 1, for |-> "negotiates",
            leaving |-> FALSE]

HubInit ==
    /\ hub = Polling /\ token = "good" /\ refreshes = 0
    /\ ping = FALSE /\ ws = FALSE /\ http = FALSE /\ event = FALSE
    /\ orphan = FALSE /\ stop = "no"

Goto(pc) == hub' = [hub EXCEPT !.pc = pc]
sockets == <<ping, ws, http, event, orphan>>

----------------------------------------------------------------------------
(* The session.                                                            *)

\* listen_once.  Polling lasts five minutes, stop ten seconds: no session
\* begins while the watcher is being stopped, and a session that was left has
\* been closed by then.
Listen ==
    /\ hub.pc = "polls" /\ stop = "no" /\ ~orphan
    /\ hub' = [Polling EXCEPT !.pc = "negotiates"]
    /\ refreshes' = 0 /\ event' = FALSE /\ http' = TRUE
    /\ UNCHANGED <<token, ping, ws, orphan, stop>>

\* _negotiate without a token the server takes: refreshed and repeated once.
NegotiateRefused ==
    /\ hub.pc = "negotiates" /\ token # "good"
    /\ hub' = IF hub.negotiation = 1
              THEN [hub EXCEPT !.pc = "refreshes", !.for = "negotiates"] ELSE Polling
    /\ UNCHANGED <<token, refreshes, sockets, stop>>

Negotiated ==
    /\ hub.pc = "negotiates" /\ token = "good"
    /\ Goto("upgrades")
    /\ UNCHANGED <<token, refreshes, sockets, stop>>

\* The handshake of the socket is refused: refreshed and repeated once, with a
\* negotiation of its own.  Without a token it is not tried.
UpgradeRefused ==
    /\ hub.pc = "upgrades" /\ token # "good"
    /\ hub' = IF token = "refused" /\ hub.handshake = 1
              THEN [hub EXCEPT !.pc = "refreshes", !.for = "upgrades"] ELSE Polling
    /\ UNCHANGED <<token, refreshes, sockets, stop>>

Upgraded ==
    /\ hub.pc = "upgrades" /\ token = "good"
    /\ Goto("connected")
    /\ ping' = TRUE /\ ws' = TRUE
    /\ UNCHANGED <<token, refreshes, http, event, orphan, stop>>

\* Any other failure of a request.
RequestFails ==
    /\ hub.pc \in {"negotiates", "upgrades"}
    /\ hub' = Polling
    /\ UNCHANGED <<token, refreshes, sockets, stop>>

\* The refresh callback has answered.
Refreshed ==
    /\ hub.pc = "refreshes"
    /\ refreshes' = refreshes + 1
    /\ \/ /\ token' = "good"
          /\ hub' = IF hub.for = "negotiates"
                    THEN [hub EXCEPT !.pc = "negotiates", !.negotiation = 2]
                    ELSE [Polling EXCEPT !.pc = "negotiates", !.handshake = 2]
       \/ /\ token' \in {token, "none"}
          /\ hub' = Polling
    /\ UNCHANGED <<sockets, stop>>

\* A push is handed to the consumer, which returns or fails; a session it
\* leaves by failing is closed by a task of the event loop.
Push == hub.pc = "connected" /\ Goto("handles") /\ UNCHANGED <<token, refreshes, sockets, stop>>
Handled == hub.pc = "handles" /\ Goto("connected") /\ UNCHANGED <<token, refreshes, sockets, stop>>
HandlerFails ==
    /\ hub.pc = "handles"
    /\ hub' = Polling /\ orphan' = TRUE
    /\ UNCHANGED <<token, refreshes, ping, ws, http, event, stop>>
CloseOrphan ==
    /\ orphan
    /\ orphan' = FALSE /\ ping' = FALSE /\ ws' = FALSE
    /\ UNCHANGED <<hub, token, refreshes, http, event, stop>>

\* The connection ends: the keepalive task is cancelled and awaited.
Drops == hub.pc = "connected" /\ Goto("cleans") /\ UNCHANGED <<token, refreshes, sockets, stop>>

\* Mutant: the keepalive task is left to find out by itself.
CleanedSocket ==
    /\ hub.pc = "cleans"
    /\ hub' = [Polling EXCEPT !.pc = IF hub.leaving THEN "ended" ELSE "polls"]
    /\ ws' = FALSE
    /\ UNCHANGED <<token, refreshes, ping, http, event, orphan, stop>>

Cleaned ==
    /\ hub.pc = "cleans"
    /\ hub' = [Polling EXCEPT !.pc = IF hub.leaving THEN "ended" ELSE "polls"]
    /\ ping' = FALSE /\ ws' = FALSE
    /\ UNCHANGED <<token, refreshes, http, event, orphan, stop>>

\* _keepalive: it ends when it wakes after a stop or sends in vain.
PingEnds ==
    /\ ping
    /\ ping' = FALSE
    /\ UNCHANGED <<hub, token, refreshes, ws, http, event, orphan, stop>>

----------------------------------------------------------------------------
(* CallWatcher.stop                                                        *)

\* Where a cancellation takes the watcher's task.
Cancelled ==
    /\ hub' = CASE hub.pc = "connected" -> [hub EXCEPT !.pc = "cleans", !.leaving = TRUE]
                [] hub.pc = "cleans" -> hub
                [] OTHER -> [Polling EXCEPT !.pc = "ended"]
    /\ orphan' = (orphan \/ hub.pc = "handles")

StopBegins ==
    /\ stop = "no"
    /\ stop' = "waits" /\ Cancelled
    /\ UNCHANGED <<token, refreshes, ping, ws, http, event>>

\* Mutant: stop is awaited without a limit.
StopInsistsNot == FALSE /\ UNCHANGED hvars

\* _bounded_close: after ten seconds stop itself is cancelled, which cancels
\* the task it awaits once more.  A cleanup does not last that long.
StopInsists ==
    /\ stop = "waits" /\ hub.pc \notin {"ended", "cleans"}
    /\ stop' = "insists" /\ Cancelled
    /\ UNCHANGED <<token, refreshes, ping, ws, http, event>>

\* close
StopCloses ==
    /\ stop \in {"waits", "insists"} /\ hub.pc = "ended"
    /\ stop' = "done"
    /\ event' = TRUE /\ ws' = FALSE /\ http' = FALSE
    /\ UNCHANGED <<hub, token, refreshes, ping, orphan>>

\* Other tasks, and the server: the token expires, is renewed or goes.
TokenChanges ==
    /\ token' \in {"good", "refused", "none"} \ {token}
    /\ UNCHANGED <<hub, refreshes, sockets, stop>>

HubNext ==
    \/ Listen \/ NegotiateRefused \/ Negotiated \/ UpgradeRefused \/ Upgraded
    \/ RequestFails \/ Refreshed \/ Push \/ Handled \/ HandlerFails \/ CloseOrphan
    \/ Drops \/ Cleaned \/ PingEnds \/ StopBegins \/ StopInsists \/ StopCloses \/ TokenChanges

\* The event loop runs what is ready, and the timer of stop fires.
HubFairness ==
    /\ WF_hvars(CloseOrphan) /\ WF_hvars(Cleaned)
    /\ WF_hvars(event /\ PingEnds) /\ WF_hvars(StopInsists) /\ WF_hvars(StopCloses)

HubSpec == HubInit /\ [][HubNext]_hvars /\ HubFairness

----------------------------------------------------------------------------
(* Correctness.                                                            *)

\* Every variable has its type; in particular a session asks for at most three
\* refreshes, though each of its two handshakes has two negotiations and the
\* token may expire at any time.
HubTypeOK ==
    /\ hub \in [pc : {"polls", "negotiates", "refreshes", "upgrades", "connected", "handles",
                      "cleans", "ended"},
                handshake : {1, 2}, negotiation : {1, 2}, for : {"negotiates", "upgrades"},
                leaving : BOOLEAN]
    /\ token \in {"good", "refused", "none"} /\ refreshes \in 0..3
    /\ {ping, ws, http, event, orphan} \subseteq BOOLEAN
    /\ stop \in {"no", "waits", "insists", "done"}

\* The keepalive task never outlives its session: while the watcher polls, or
\* connects anew, nobody sends pings on an old socket, except until the event
\* loop has closed a session that was left.
PingHasSession ==
    ping => hub.pc \in {"connected", "handles", "cleans"} \/ orphan

\* Both: a session asks for a bounded number of refreshes, and leaves no
\* keepalive task behind.
HubSafe == HubTypeOK /\ PingHasSession

\* A stop ends the watcher and closes everything, also when the cancellation
\* is lost in the cleanup of a session.
StopClosesAll ==
    (stop = "waits") ~> [](stop = "done" /\ ~ping /\ ~ws /\ ~http)

=============================================================================
