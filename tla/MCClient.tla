------------------------------ MODULE MCClient ------------------------------
(***************************************************************************)
(* Model checking of what uses the session of the client in the background *)
(* of everything else: the requests that are refused together, of          *)
(* TokenSession, and the hub sessions with their stop, HubTransport.  They *)
(* are checked side by side (what a refresh does to the tokens of the      *)
(* other is any outcome here): part, chosen at the start, says which of    *)
(* them moves, and every property is about one of them.  No symmetry: the  *)
(* run checks liveness.                                                    *)
(***************************************************************************)
EXTENDS TokenSession, HubTransport

VARIABLE part

all == <<part, vars, hvars>>

SessionMoves == part = "session" /\ UNCHANGED <<part, hvars>>
HubMoves == part = "hub" /\ UNCHANGED <<part, vars>>

ClientInit == part \in {"session", "hub"} /\ Init /\ HubInit
ClientNext ==
    \/ SessionMoves /\ Next
    \/ HubMoves /\ HubNext

\* The fairness of TokenSession and that of HubTransport, each in its part.
ClientFairness ==
    /\ WF_all(SessionMoves /\ DbStep)
    /\ \A t \in Tasks :
        WF_all(SessionMoves /\ Continue(t)) /\ SF_all(SessionMoves /\ Enter(t))
    /\ WF_all(HubMoves /\ CloseOrphan)
    /\ WF_all(HubMoves /\ Cleaned)
    /\ WF_all(HubMoves /\ event /\ PingEnds)
    /\ WF_all(HubMoves /\ StopInsists)
    /\ WF_all(HubMoves /\ StopCloses)

ClientSpec == ClientInit /\ [][ClientNext]_all /\ ClientFairness

=============================================================================
