--------------------------- MODULE MCAuthSessions ---------------------------
(* Handlers are interchangeable.                                           *)
EXTENDS AuthSessions, TLC

Symmetry == Permutations(Requests)
=============================================================================
