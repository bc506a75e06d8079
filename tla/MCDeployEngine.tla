-------------------------- MODULE MCDeployEngine ---------------------------
(* A small site: a process deployment and a second one, so that every pair *)
(* of trigger, drain, rollback, delete, crash and restart can overlap.     *)
EXTENDS DeployEngine
=============================================================================
