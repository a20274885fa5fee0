--------------------------- MODULE ConsentLedger ---------------------------
(***************************************************************************)
(* What the authorization server promises about one consent of the user,    *)
(* whatever stores and handlers it is made of: a consent has at most one    *)
(* credential that can be redeemed (its code, later the refresh token of    *)
(* the last rotation), every redemption replaces it by a new one that can   *)
(* do no more, and a consent that has lost its credential never gets one    *)
(* again.                                                                   *)
(***************************************************************************)
CONSTANTS Grants,       \* consents
          Credentials,  \* what a client can be handed
          Powers,       \* scopes
          None

VARIABLES approved,     \* the consents given so far
          drawn,        \* every credential handed out so far
          holder,       \* consent -> its redeemable credential, or None
          power         \* consent -> what that credential allows

ledger == <<approved, drawn, holder, power>>

Init ==
    /\ approved = {}
    /\ drawn = {}
    /\ holder = [g \in Grants |-> None]
    /\ power = [g \in Grants |-> {}]

\* The user consents: a fresh credential.
Approve(g, k, p) ==
    /\ g \notin approved
    /\ k \notin drawn
    /\ approved' = approved \cup {g}
    /\ drawn' = drawn \cup {k}
    /\ holder' = [holder EXCEPT ![g] = k]
    /\ power' = [power EXCEPT ![g] = p]

\* The credential is exchanged for a fresh one, as powerful or less.
Exchange(g, k, p) ==
    /\ holder[g] # None
    /\ k \notin drawn
    /\ p \subseteq power[g]
    /\ drawn' = drawn \cup {k}
    /\ holder' = [holder EXCEPT ![g] = k]
    /\ power' = [power EXCEPT ![g] = p]
    /\ UNCHANGED approved

\* The credentials of these consents lapse: expired, spent in vain, revoked,
\* or forgotten by a restart.
Lapse(gone) ==
    /\ holder' = [g \in Grants |-> IF g \in gone THEN None ELSE holder[g]]
    /\ power' = [g \in Grants |-> IF g \in gone THEN {} ELSE power[g]]
    /\ UNCHANGED <<approved, drawn>>

Next ==
    \/ \E g \in Grants, k \in Credentials, p \in SUBSET Powers :
        Approve(g, k, p) \/ Exchange(g, k, p)
    \/ \E gone \in SUBSET Grants : Lapse(gone)

Spec == Init /\ [][Next]_ledger
=============================================================================
