---------------------------- MODULE LatelyServed ----------------------------
(***************************************************************************)
(* What a server that keeps copies of other people's documents promises:    *)
(* whoever asks for a document is given one its owner published, and that    *)
(* the owner still published less than Bound ago.  It promises nothing      *)
(* about order: one caller may be given a newer document and a later caller *)
(* the one before it.                                                       *)
(***************************************************************************)
EXTENDS Integers, Maps

CONSTANTS Owners,
          Documents,
          Bound,        \* how long a document may be used after its end
          Nothing       \* no answer

VARIABLES now,
          current,      \* owner -> the document published
          seen,         \* owner -> document -> when it was last published
          answer        \* the last answer, or Nothing

served == <<now, current, seen, answer>>

Init ==
    /\ now = 0
    /\ current \in [Owners -> Documents]
    /\ seen = [o \in Owners |-> Put(EmptyMap, current[o], 0)]
    /\ answer = Nothing

\* The owner replaces its document.
Replace(o, d) ==
    /\ current' = [current EXCEPT ![o] = d]
    /\ seen' = [seen EXCEPT ![o] = Put(seen[o], d, now)]
    /\ answer' = Nothing
    /\ UNCHANGED now

Advance ==
    /\ now' = now + 1
    /\ seen' = [o \in Owners |-> Put(seen[o], current[o], now + 1)]
    /\ answer' = Nothing
    /\ UNCHANGED current

\* Somebody is given document d of owner o.
Give(o, d) ==
    /\ d \in DOMAIN seen[o]
    /\ now < seen[o][d] + Bound
    /\ answer' = [owner |-> o, document |-> d]
    /\ UNCHANGED <<now, current, seen>>

\* Nobody is given anything.
Withhold ==
    /\ answer' = Nothing
    /\ UNCHANGED <<now, current, seen>>

Next ==
    \/ \E o \in Owners, d \in Documents : Replace(o, d) \/ Give(o, d)
    \/ Advance
    \/ Withhold

Spec == Init /\ [][Next]_served
=============================================================================
