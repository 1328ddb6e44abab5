---------------------------- MODULE CardControls ----------------------------
(***************************************************************************)
(* The controls of one incoming-call card: the handlers of open:, answer:  *)
(* and reject: in telegram/handlers.py with telegram/ui/action_state.py,   *)
(* and the end of the call reported to the call watcher.                   *)
(*                                                                         *)
(* A handler is given the message as it was when the button was tapped,    *)
(* sends the request, and then edits the message: the new controls are     *)
(* computed from those it was given, not from those the card shows by then.*)
(* The cooldown is per action, so taps on different controls overlap.      *)
(*                                                                         *)
(* The card has two rows: "door" with its button, "call" with answer and   *)
(* reject.  A row is "live", or "done" when an action of it has succeeded. *)
(***************************************************************************)
CONSTANT Handlers   \* tasks handling a tap on a control

VARIABLES
    card,      \* the controls the card shows
    tracked,   \* the watcher still has the card (_active_notifications)
    tap,       \* per handler: where it is, the row tapped, the controls it was given
    did,       \* history: the rows an action of which has succeeded
    missed     \* history, per handler: what became of the card since the tap

cvars == <<card, tracked, tap, did, missed>>

Rows == {"door", "call"}
Bare == [r \in Rows |-> "none"]
Fresh == [r \in Rows |-> "live"]
NoTap == [pc |-> "idle", row |-> "door", saw |-> Bare]

CardInit ==
    /\ card = Fresh /\ tracked = TRUE
    /\ tap = [h \in Handlers |-> NoTap]
    /\ did = {} /\ missed = [h \in Handlers |-> {}]

\* Mutant: a failed action is drawn as a successful one.
MarkedAlways(saw, row, success) ==
    [saw EXCEPT ![row] = "done"]

\* Mutant: the controls are drawn afresh.
MarkedAfresh(saw, row, success) ==
    IF success THEN [Fresh EXCEPT ![row] = "done"] ELSE saw

\* mark_door_opened, mark_call_finished: the row of the action becomes one
\* inert button.  After a failure the controls stay those of the tap.
Marked(saw, row, success) ==
    IF success THEN [saw EXCEPT ![row] = "done"] ELSE saw

\* A live control is tapped, and the handler gets the message.
TapControl(h, row) ==
    /\ tap[h].pc = "idle" /\ card[row] = "live"
    /\ tap' = [tap EXCEPT ![h] = [pc |-> "asked", row |-> row, saw |-> card]]
    /\ missed' = [missed EXCEPT ![h] = {}]
    /\ UNCHANGED <<card, tracked, did>>

\* The cooldown, or Telegram, refuses: nothing is drawn.
Refused(h) ==
    /\ tap[h].pc = "asked"
    /\ tap' = [tap EXCEPT ![h] = NoTap]
    /\ UNCHANGED <<card, tracked, did, missed>>

\* The request succeeds or fails; the edit of the card is on its way.
Answered(h, success) ==
    /\ tap[h].pc = "asked"
    /\ tap' = [tap EXCEPT ![h] = [pc |-> "edits", row |-> tap[h].row,
                                    saw |-> Marked(tap[h].saw, tap[h].row, success)]]
    /\ did' = IF success THEN did \cup {tap[h].row} ELSE did
    /\ UNCHANGED <<card, tracked, missed>>

\* edit_view: Telegram shows the controls of this edit.
Drawn(h) ==
    /\ tap[h].pc = "edits"
    /\ card' = tap[h].saw
    /\ tap' = [tap EXCEPT ![h] = NoTap]
    /\ missed' = [g \in Handlers |-> missed[g] \cup {r \in Rows : card[r] # card'[r]}]
    /\ UNCHANGED <<tracked, did>>

\* Telegram refuses the edit.
NotDrawn(h) ==
    /\ tap[h].pc = "edits"
    /\ tap' = [tap EXCEPT ![h] = NoTap]
    /\ UNCHANGED <<card, tracked, did, missed>>

\* _close_notification: the call has ended, once, and the card loses its
\* controls (or Telegram refuses).
CallEnded ==
    /\ tracked
    /\ tracked' = FALSE
    /\ card' \in {card, Bare}
    /\ missed' = [g \in Handlers |-> missed[g] \cup {r \in Rows : card[r] # card'[r]}]
    /\ UNCHANGED <<tap, did>>

CardNext ==
    \/ CallEnded
    \/ \E h \in Handlers :
        \/ \E row \in Rows : TapControl(h, row)
        \/ Refused(h) \/ Drawn(h) \/ NotDrawn(h)
        \/ \E success \in BOOLEAN : Answered(h, success)

CardSpec == CardInit /\ [][CardNext]_cvars

----------------------------------------------------------------------------
(* Correctness.                                                            *)

Controls == [Rows -> {"none", "live", "done"}]

\* Every variable has its type.
CardTypeOK ==
    /\ card \in Controls /\ tracked \in BOOLEAN
    /\ tap \in [Handlers -> [pc : {"idle", "asked", "edits"}, row : Rows, saw : Controls]]
    /\ did \subseteq Rows /\ missed \in [Handlers -> SUBSET Rows]

\* The card never says that a door was opened or a call taken that was not,
\* whatever the overlap of taps, failures and refused edits.
ShownDoneWasDone == \A r \in Rows : card[r] = "done" => r \in did

\* A control that is no longer live comes back only by the edit of a tap that
\* was made before it went, and of another control or of a failed attempt.
RevivedOnlyByOverlap ==
    [][\A r \in Rows :
        (card[r] # "live" /\ card'[r] = "live") =>
            \E h \in Handlers : tap[h].pc = "edits" /\ r \in missed[h]]_cvars

=============================================================================
