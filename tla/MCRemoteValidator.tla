------------------------- MODULE MCRemoteValidator -------------------------
(* Two keys, the tokens presented, and symmetry sets for TLC: the calls are *)
(* interchangeable.                                                         *)
EXTENDS RemoteValidator, TLC

CONSTANTS k1, k2

MCToken(kid, signer, exp) == [kid |-> kid, signer |-> signer, exp |-> exp]

\* One token of each key, of which one expires within the bound.
Timed == {MCToken(k1, k1, MaxTime + 1), MCToken(k2, k2, MaxTime - 1)}

\* One expires at once, one has no kid, and one has a header that lies.
Assorted == {MCToken(k2, k2, 0), MCToken(NoKid, k1, 1), MCToken(k1, k2, 1)}

Symmetry == Permutations(Calls)
=============================================================================
