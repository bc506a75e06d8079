----------------------------- MODULE MCCiciRuns -----------------------------
(* Two runs of two commands each, a statement that fails and a restart.    *)
EXTENDS CiciRuns
=============================================================================
