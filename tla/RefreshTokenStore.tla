------------------------ MODULE RefreshTokenStore ------------------------
(***************************************************************************)
(* The rotating refresh tokens of                                           *)
(* src/src/server/oauth/refresh-token-store.ts: what each method does to    *)
(* the Map of rows.  A row is keyed by the hash of its token; the hash is   *)
(* injective on the random tokens, so the model keys it by the token.       *)
(* A token is one of the random strings issue() draws.                      *)
(***************************************************************************)
EXTENDS Integers, Maps

CONSTANT RefreshTtl     \* ttlMs

ASSUME RefreshTtlAssumption == RefreshTtl \in Nat \ {0}

\* sweep(): a row is dropped AT its expiry (the code store waits one longer).
SweepRows(rows, now) ==
    Restrict(rows, {t \in DOMAIN rows : ~(rows[t].expiresAt <= now)})

\* issue(): set the new row; no sweep.
IssueRow(rows, t, input, now) ==
    Put(rows, t, [familyId  |-> input.familyId,
                  clientId  |-> input.clientId,
                  scope     |-> input.scope,
                  resource  |-> input.resource,
                  expiresAt |-> now + RefreshTtl])

\* consume() returns a record rather than {}.
ConsumesRow(rows, t, now) == t \in DOMAIN SweepRows(rows, now)

\* Mutant: consume() leaves the row for the next sweep.
KeepConsumedRow(rows, t, now) == SweepRows(rows, now)

\* The Map consume() leaves: swept, and without the token presented.
RowsAfterConsume(rows, t, now) == Without(SweepRows(rows, now), {t})

\* revokeFamily(): delete every row of the family.
RevokeFamily(rows, f) == Without(rows, {t \in DOMAIN rows : rows[t].familyId = f})
=============================================================================
