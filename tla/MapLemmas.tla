----------------------------- MODULE MapLemmas -----------------------------
(***************************************************************************)
(* The operations of module Maps keep the kind of a Map: its keys and       *)
(* values stay in the sets they were in.                                    *)
(***************************************************************************)
EXTENDS Maps, TLAPS

\* Map.set of a key and a value of the right kinds keeps the kind of the Map.
LEMMA PutIsMap ==
    ASSUME NEW Keys, NEW Values, NEW m, IsMap(m, Keys, Values),
           NEW key \in Keys, NEW value \in Values
    PROVE  IsMap(Put(m, key, value), Keys, Values)
  BY DEF IsMap, Put

\* Keeping some of the keys (the sweeps) keeps the kind of the Map.
LEMMA RestrictIsMap ==
    ASSUME NEW Keys, NEW Values, NEW m, IsMap(m, Keys, Values),
           NEW S, S \subseteq DOMAIN m
    PROVE  IsMap(Restrict(m, S), Keys, Values)
  BY DEF IsMap, Restrict

\* Map.delete keeps the kind of the Map.
LEMMA WithoutIsMap ==
    ASSUME NEW Keys, NEW Values, NEW m, IsMap(m, Keys, Values), NEW keys
    PROVE  IsMap(Without(m, keys), Keys, Values)
  BY RestrictIsMap DEF Without

\* new Map() is a Map of every kind.
LEMMA EmptyIsMap ==
    ASSUME NEW Keys, NEW Values
    PROVE  IsMap(EmptyMap, Keys, Values) /\ DOMAIN EmptyMap = {}
  BY DEF IsMap, EmptyMap
=============================================================================
