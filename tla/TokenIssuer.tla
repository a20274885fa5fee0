---------------------------- MODULE TokenIssuer ----------------------------
(***************************************************************************)
(* src/src/server/oauth/token-issuer.ts: the claims of a local access token *)
(* and the checks every access token passes.  A clock tick is one second,   *)
(* so the floor of Date.now() / 1000 is the clock itself.  The signature    *)
(* is modelled by the key that made it: verifyJwt accepts a token exactly   *)
(* when it was signed with the process's own key.                           *)
(***************************************************************************)
EXTENDS Integers

CONSTANTS AccessTtl,    \* config.tokenTtlSeconds
          Issuer,       \* config.issuer
          Resource      \* config.resource

ASSUME AccessTtlAssumption == AccessTtl \in Nat

\* issue(): the claims and the signature of a new access token.
IssueAccess(input, key, now) ==
    [iss |-> Issuer, aud |-> {input.resource}, nbf |-> now,
     exp |-> now + AccessTtl, scope |-> input.scope, key |-> key]

\* validateClaims(): the first check that fails names the error.
ValidateClaims(raw, required, now) ==
    IF raw.iss # Issuer              THEN "invalid_issuer"     ELSE
    IF Resource \notin raw.aud       THEN "invalid_audience"   ELSE
    IF raw.exp <= now                THEN "expired"            ELSE
    IF raw.nbf > now                 THEN "not_yet_valid"      ELSE
    IF ~(required \subseteq raw.scope) THEN "insufficient_scope" ELSE "ok"

\* validate() of the local issuer: the signature first, then the claims.
ValidateAccess(token, key, required, now) ==
    IF token.key # key THEN "invalid_token" ELSE ValidateClaims(token, required, now)
=============================================================================
