------------------------- MODULE DeployStateMachine -------------------------
(***************************************************************************)
(* The deployment status machine of components/deploy/state_machine.go:    *)
(* its states, its transition table and the classifications that delete,   *)
(* rollback and boot reconciliation are decided by.                        *)
(***************************************************************************)

(* The statuses the machine declares.                                      *)
DeploymentState == {"pending", "building", "deploying", "running",
                    "draining", "stopped", "failed", "rolled_back"}

(* A status only rows written by older releases carry; the machine does    *)
(* not declare it and TransitionState lets it go anywhere (lenient mode).  *)
LegacyStatus == {"replaced"}

(* What the status column of a row that exists can hold.                   *)
RowStatus == DeploymentState \cup LegacyStatus

(* The row is not in the table.                                            *)
NoRow == "none"

(* NewStateMachine: the table of valid edges.                              *)
ValidTransitions ==
    [s \in DeploymentState |->
        CASE s = "pending"     -> {"building", "failed"}
          [] s = "building"    -> {"deploying", "running", "failed"}
          [] s = "deploying"   -> {"running", "failed"}
          [] s = "running"     -> {"failed", "rolled_back", "draining"}
          [] s = "draining"    -> {"stopped", "failed", "running"}
          [] s = "stopped"     -> {"running"}
          [] s = "failed"      -> {}
          [] s = "rolled_back" -> {}]

IsValidState(s) == s \in DeploymentState

CanTransition(from, to) ==
    /\ from # to
    /\ IsValidState(from)
    /\ to \in ValidTransitions[from]

(* The test of TransitionState: a declared edge, or any target from an     *)
(* undeclared (legacy) status.                                             *)
MayTransition(from, to) ==
    IF IsValidState(from) THEN CanTransition(from, to) ELSE from # to

IsInFlight(s) == s \in {"pending", "building", "deploying", "draining"}

IsTerminal(s) == s \in {"running", "stopped", "failed", "rolled_back"}

IsActive(s) == IsInFlight(s) \/ s = "running"

CanDelete(s) == ~IsInFlight(s)
=============================================================================
