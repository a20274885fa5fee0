-------------------------------- MODULE Maps --------------------------------
(***************************************************************************)
(* The JavaScript Map as a TLA+ function whose domain is the set of keys.   *)
(* The stores of the authorization server (authorization codes, refresh     *)
(* tokens, registered clients) are Maps keyed by a random identifier.       *)
(***************************************************************************)
EXTENDS Functions

\* new Map()
EmptyMap == [k \in {} |-> k]

\* m.set(key, value)
Put(m, key, value) ==
    [k \in DOMAIN m \cup {key} |-> IF k = key THEN value ELSE m[k]]

\* m.delete(key) for every key of keys
Without(m, keys) == Restrict(m, DOMAIN m \ keys)

\* m holds values of Values under keys of Keys.
IsMap(m, Keys, Values) ==
    /\ DOMAIN m \subseteq Keys
    /\ m \in [DOMAIN m -> Values]
=============================================================================
