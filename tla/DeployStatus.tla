---------------------------- MODULE DeployStatus ----------------------------
(***************************************************************************)
(* What the status column of one deployment row promises to everybody who  *)
(* reads it, with no goroutines, no retries and no lock: it moves along    *)
(* the edges of the state machine, or is forced to "stopped" by a stop, or *)
(* is marked "failed" by the resume of a static site without output, or    *)
(* the row is deleted for good.  DeployTransitions, where each of these is *)
(* several database statements of concurrent goroutines, implements it.    *)
(***************************************************************************)
EXTENDS DeployStateMachine

VARIABLE status

Init == status \in {"pending"} \cup LegacyStatus

Transition ==
    /\ status # NoRow
    /\ \E to \in DeploymentState : MayTransition(status, to) /\ status' = to

ForceStop ==
    /\ status # NoRow
    /\ status' = "stopped"

MarkFailed ==
    /\ status # NoRow
    /\ status' = "failed"

Delete ==
    /\ status # NoRow
    /\ status' = NoRow

Next == Transition \/ ForceStop \/ MarkFailed \/ Delete

Spec == Init /\ [][Next]_status
=============================================================================
