---------------------- MODULE MCAuthorizationServer ----------------------
(* Symmetry sets for TLC: random identifiers and workers are interchangeable. *)
EXTENDS AuthorizationServer, TLC

Symmetry ==
    Permutations(CodeIds) \cup Permutations(TokenIds) \cup Permutations(Workers)
=============================================================================
