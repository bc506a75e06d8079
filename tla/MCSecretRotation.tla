------------------------- MODULE MCSecretRotation --------------------------
(* Three data keys are enough for two rotations, so that a call can be     *)
(* stale by one whole rotation.                                            *)
EXTENDS SecretRotation, TLC

Symmetry == Permutations(Clients)
=============================================================================
