---------------------- MODULE AuthorizationCodeStore ----------------------
(***************************************************************************)
(* The one-time authorization codes of                                      *)
(* src/src/server/oauth/authorization-code-store.ts: what each method does  *)
(* to the Map of codes.  A method runs without an await, so each is one     *)
(* function from the old Map to the new one.                                *)
(*                                                                          *)
(* The record's field `consumed' is never written with true (a consumed     *)
(* code is deleted instead), so the test of it at line 84 is dead code and  *)
(* the field is left out.  `subject' is the same configured value in every  *)
(* record and is left out too.                                              *)
(***************************************************************************)
EXTENDS Integers, Maps

CONSTANT CodeTtl        \* ttlSeconds, 60 by default

ASSUME CodeTtlAssumption == CodeTtl \in Nat

\* sweep(): a code is dropped once the clock is PAST its expiry.
SweepCodes(codes, now) ==
    Restrict(codes, {c \in DOMAIN codes : ~(now > codes[c].expiresAt)})

\* The record create() builds from its input.
NewCodeRecord(input, now) ==
    [clientId      |-> input.clientId,
     redirectUri   |-> input.redirectUri,
     scope         |-> input.scope,
     codeChallenge |-> input.codeChallenge,
     resource      |-> input.resource,
     createdAt     |-> now,
     expiresAt     |-> now + CodeTtl]

\* create(): set, then sweep the whole Map.
CreateCode(codes, c, input, now) ==
    SweepCodes(Put(codes, c, NewCodeRecord(input, now)), now)

\* Mutant: consume() forgets the clock, trusting the sweep of create().
ExpiredNever(codes, c, now) == FALSE

\* The test of consume().
ExpiredCode(codes, c, now) == now > codes[c].expiresAt

\* consume() returns the record rather than null.
ConsumesCode(codes, c, clientId, redirectUri, now) ==
    /\ c \in DOMAIN codes
    /\ ~ExpiredCode(codes, c, now)
    /\ codes[c].clientId = clientId
    /\ codes[c].redirectUri = redirectUri

\* Mutant: consume() marks a copy of the record and leaves the code in the Map.
KeepConsumedCode(codes, c, clientId, redirectUri, now) ==
    IF c \in DOMAIN codes /\ ExpiredCode(codes, c, now) THEN Without(codes, {c}) ELSE codes

\* Mutant: consume() deletes the code before it compares client and redirect.
DeleteThenCompare(codes, c, clientId, redirectUri, now) == Without(codes, {c})

\* The Map consume() leaves: a successful consume and an expired code are
\* both deleted; a code presented by another client, or with another
\* redirect_uri, stays.
CodesAfterConsume(codes, c, clientId, redirectUri, now) ==
    IF \/ ConsumesCode(codes, c, clientId, redirectUri, now)
       \/ c \in DOMAIN codes /\ ExpiredCode(codes, c, now)
    THEN Without(codes, {c})
    ELSE codes
=============================================================================
