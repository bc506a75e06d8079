------------------------ MODULE MCDeployTransitions -------------------------
(* Two goroutines on one row.  In the passing run the retry budget is 2    *)
(* instead of 4 so that the calls the bound allows can exhaust it.         *)
EXTENDS DeployTransitions
=============================================================================
