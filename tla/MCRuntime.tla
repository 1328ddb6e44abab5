----------------------------- MODULE MCRuntime -----------------------------
(***************************************************************************)
(* Model checking of the process and of the web service it runs: Runtime   *)
(* and CameraProxy.  They share no state and are checked side by side:     *)
(* part, chosen at the start, says which of them moves, and every property *)
(* is about one of them.  No symmetry: the run checks liveness.            *)
(***************************************************************************)
EXTENDS Runtime, CameraProxy

VARIABLE part

all == <<part, vars, pvars>>

ProcessMoves == part = "process" /\ UNCHANGED <<part, pvars>>
CameraMoves == part = "camera" /\ UNCHANGED <<part, vars>>

ProcessInit == part \in {"process", "camera"} /\ Init /\ CameraInit
ProcessNext ==
    \/ ProcessMoves /\ Next
    \/ CameraMoves /\ CameraNext
ProcessSpec ==
    /\ ProcessInit /\ [][ProcessNext]_all
    /\ WF_all(ProcessMoves /\ Tick)
    /\ WF_all(ProcessMoves /\ Watchdog)
    /\ WF_all(ProcessMoves /\ Stop)

=============================================================================
