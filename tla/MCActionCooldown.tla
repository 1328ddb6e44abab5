-------------------------- MODULE MCActionCooldown --------------------------
(***************************************************************************)
(* Model checking of what a tap goes through: the cooldown before the      *)
(* request, ActionCooldown, and the controls of a card after it,           *)
(* CardControls.  The two share no state.  They are checked side by side:  *)
(* part, chosen at the start, says which of them moves, and every property *)
(* is about one of them.  No symmetry: the run checks liveness.            *)
(***************************************************************************)
EXTENDS ActionCooldown, CardControls

VARIABLE part

all == <<part, vars, cvars>>

CooldownMoves == part = "cooldown" /\ UNCHANGED <<part, cvars>>
CardMoves == part = "card" /\ UNCHANGED <<part, vars>>

TapsInit == part \in {"cooldown", "card"} /\ Init /\ CardInit
TapsNext ==
    \/ CooldownMoves /\ Next
    \/ CardMoves /\ CardNext
TapsSpec == TapsInit /\ [][TapsNext]_all /\ WF_all(CooldownMoves /\ Tick)

=============================================================================
