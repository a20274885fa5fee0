--------------------- MODULE AuthorizationServerProofs ---------------------
(***************************************************************************)
(* Theorems about the authorization server, for every number of clients,    *)
(* scopes, resources, codes, tokens, concurrent requests and restarts.      *)
(***************************************************************************)
EXTENDS AuthorizationServer, MapLemmas

-----------------------------------------------------------------------------
(* The stores *)

\* create() stores a record of the kind of a code.
LEMMA NewCodeType ==
    ASSUME NEW input \in [clientId : Clients, redirectUri : RedirectUris,
                          scope : SUBSET Scopes, codeChallenge : Verifiers,
                          resource : Optional(Resources)],
           NEW t \in Nat
    PROVE  NewCodeRecord(input, t) \in CodeRecord
  BY CodeTtlAssumption DEF NewCodeRecord, CodeRecord

\* create() keeps the code store well-formed.
LEMMA CreateCodeType ==
    ASSUME IsMap(codes, CodeIds, CodeRecord), NEW c \in CodeIds,
           NEW input, NEW t, NewCodeRecord(input, t) \in CodeRecord
    PROVE  IsMap(CreateCode(codes, c, input, t), CodeIds, CodeRecord)
  <1>1. IsMap(Put(codes, c, NewCodeRecord(input, t)), CodeIds, CodeRecord)
    BY PutIsMap
  <1>2. QED
    BY <1>1, RestrictIsMap DEF CreateCode, SweepCodes

\* consume() keeps the code store well-formed.
LEMMA ConsumeCodeType ==
    ASSUME IsMap(codes, CodeIds, CodeRecord), NEW c, NEW client, NEW uri, NEW t
    PROVE  IsMap(CodesAfterConsume(codes, c, client, uri, t), CodeIds, CodeRecord)
  BY WithoutIsMap DEF CodesAfterConsume

\* consume() keeps the refresh-token store well-formed.
LEMMA ConsumeRowType ==
    ASSUME IsMap(rows, TokenIds, Row), NEW k, NEW t
    PROVE  IsMap(RowsAfterConsume(rows, k, t), TokenIds, Row)
  <1>1. IsMap(SweepRows(rows, t), TokenIds, Row)
    BY RestrictIsMap DEF SweepRows
  <1>2. QED
    BY <1>1, WithoutIsMap DEF RowsAfterConsume

-----------------------------------------------------------------------------
(* Type correctness *)

\* The tokens of one 200 answer are of the right types.
LEMMA IssueTokensType ==
    ASSUME TypeOK,
           NEW base, IsMap(base, TokenIds, Row),
           NEW t \in TokenIds,
           NEW input \in [familyId : TokenIds, clientId : Clients,
                          scope : SUBSET Scopes, resource : Resources],
           NEW grant \in CodeIds, NEW parent \in CodeIds \cup TokenIds,
           IssueTokens(base, t, input, grant, parent)
    PROVE  IsMap(rows, TokenIds, Row)' /\ IsMap(issuance, TokenIds, Issuance)'
  <1> DEFINE row == [familyId |-> input.familyId, clientId |-> input.clientId,
                     scope |-> input.scope, resource |-> input.resource,
                     expiresAt |-> now + RefreshTtl]
             issued == [grant |-> grant, parent |-> parent, at |-> now, epoch |-> epoch,
                        row |-> row]
  <1>1. row \in Row
    BY RefreshTtlAssumption, BoundAssumption DEF Row, TypeOK
  <1>2. issued \in Issuance
    BY <1>1, BoundAssumption DEF Issuance, TypeOK
  <1>3. rows' = Put(base, t, row) /\ issuance' = Put(issuance, t, issued)
    <2>1. IssueRow(base, t, input, now) = Put(base, t, row)
      BY DEF IssueRow
    <2>2. Put(base, t, row)[t] = row
      BY DEF Put
    <2>3. QED
      BY <2>1, <2>2 DEF IssueTokens
  <1>4. IsMap(Put(base, t, row), TokenIds, Row)
    BY <1>1, PutIsMap
  <1>5. IsMap(Put(issuance, t, issued), TokenIds, Issuance)
    BY <1>2, PutIsMap DEF TypeOK
  <1>6. QED
    BY <1>3, <1>4, <1>5

\* Every step keeps the state well-typed.
LEMMA TypeStep == TypeOK /\ [Next]_vars => TypeOK'
  <1> SUFFICES ASSUME TypeOK, [Next]_vars PROVE TypeOK'
    OBVIOUS
  <1> USE DEF stores, history
  <1>1. CASE Tick
    BY <1>1, BoundAssumption DEF Tick, TypeOK
  <1>2. CASE Restart
    BY <1>2, BoundAssumption, EmptyIsMap DEF Restart, TypeOK, Reply
  <1>3. CASE Register
    <2>1. PICK c \in DcrClients \ uuids, uris \in SUBSET RedirectUris \ {{}} :
            clients' = Put(clients, c, uris) /\ uuids' = uuids \cup {c}
      BY <1>3 DEF Register
    <2>2. IsMap(clients, DcrClients, SUBSET RedirectUris)'
      BY <2>1, PutIsMap DEF TypeOK
    <2>3. QED
      BY <1>3, <2>1, <2>2 DEF Register, TypeOK
  <1>4. CASE AuthorizeApprove
    <2> DEFINE Input == [clientId : Clients, redirectUri : RedirectUris,
                         scope : SUBSET Scopes, codeChallenge : Verifiers,
                         resource : Optional(Resources)]
    <2>1. PICK c \in CodeIds \ DOMAIN consents, input \in Input :
            /\ codes' = CreateCode(codes, c, input, now)
            /\ consents' = Put(consents, c,
                               [record |-> NewCodeRecord(input, now), epoch |-> epoch])
      BY <1>4 DEF AuthorizeApprove
    <2>2. NewCodeRecord(input, now) \in CodeRecord
      BY NewCodeType DEF TypeOK
    <2>3. IsMap(codes, CodeIds, CodeRecord)'
      BY <2>1, <2>2, CreateCodeType DEF TypeOK
    <2>4. [record |-> NewCodeRecord(input, now), epoch |-> epoch] \in Consent
      BY <2>2 DEF TypeOK, Consent
    <2>5. IsMap(consents, CodeIds, Consent)'
      BY <2>1, <2>4, PutIsMap DEF TypeOK
    <2>6. QED
      BY <1>4, <2>3, <2>5 DEF AuthorizeApprove, TypeOK
  <1>5. ASSUME NEW w \in Workers, TokenBegin(w) PROVE TypeOK'
    BY <1>5 DEF TokenBegin, TypeOK
  <1>6. ASSUME NEW w \in Workers, TokenResume(w) PROVE TypeOK'
    <2> DEFINE r == requests[w]
    <2>1. r \in TokenRequest
      <3>1. requests[w] # Idle
        BY <1>6 DEF TokenResume, TokenRefuseClient, TokenRefuseCode, TokenBurnCode, TokenRedeemCode
      <3>2. QED
        BY <3>1 DEF TypeOK
    <2>2. [requests EXCEPT ![w] = Idle] \in [Workers -> TokenRequest \cup {Idle}]
      BY DEF TypeOK
    <2>3. IsMap(CodesAfterConsume(codes, r.code, r.clientId, r.redirectUri, now),
                CodeIds, CodeRecord)
      BY ConsumeCodeType DEF TypeOK
    <2>4. CASE TokenRefuseClient(w)
      <3>1. reply' \in Reply
        BY <2>1, <2>4 DEF TokenRefuseClient, Answer, Refusal, Reply, TokenRequest
      <3>2. QED
        BY <2>2, <2>4, <3>1 DEF TokenRefuseClient, Answer, TypeOK
    <2>5. CASE TokenRefuseCode(w)
      <3>1. reply' \in Reply
        BY <2>1, <2>5 DEF TokenRefuseCode, Answer, Refusal, Reply, TokenRequest
      <3>2. QED
        BY <2>2, <2>3, <2>5, <3>1 DEF TokenRefuseCode, Answer, TypeOK
    <2>6. CASE TokenBurnCode(w)
      <3>1. reply' \in Reply
        BY <2>1, <2>6 DEF TokenBurnCode, RedemptionError, Answer, Refusal, Reply, TokenRequest
      <3>2. QED
        BY <2>2, <2>3, <2>6, <3>1 DEF TokenBurnCode, Answer, TypeOK
    <2>7. CASE TokenRedeemCode(w)
      <3> DEFINE Input(t) == [familyId |-> t, clientId |-> r.clientId,
                              scope |-> codes[r.code].scope,
                              resource |-> OrElse(codes[r.code].resource,
                                                  OrElse(r.resource, Resource))]
      <3>1. PICK t \in TokenIds \ DOMAIN issuance :
              /\ IssueTokens(rows, t, Input(t), r.code, r.code)
              /\ Answer(w, Success(r.code, t))
        BY <2>7 DEF TokenRedeemCode
      <3>2. codes[r.code] \in CodeRecord
        BY <2>7 DEF TokenRedeemCode, ConsumesCode, TypeOK, IsMap
      <3>3. Input(t) \in [familyId : TokenIds, clientId : Clients,
                          scope : SUBSET Scopes, resource : Resources]
        BY <2>1, <3>2 DEF TokenRequest, CodeRecord, OrElse, Optional, Resources
      <3>4. IsMap(rows, TokenIds, Row)' /\ IsMap(issuance, TokenIds, Issuance)'
        BY <2>1, <3>1, <3>3, IssueTokensType DEF TypeOK, TokenRequest
      <3>5. reply' \in Reply
        BY <2>1, <3>1 DEF Answer, Success, Reply, TokenRequest
      <3>6. QED
        BY <2>2, <2>3, <2>7, <3>1, <3>4, <3>5 DEF TokenRedeemCode, Answer, TypeOK
    <2>8. QED
      BY <1>6, <2>4, <2>5, <2>6, <2>7 DEF TokenResume
  <1>7. CASE RefreshGrant
    <2>1. PICK r \in RefreshRequest :
            /\ r.token \in DOMAIN issuance
            /\ \/ RefreshUnknown(r) \/ RefreshWrongClient(r)
               \/ RefreshWrongScope(r) \/ RefreshRotate(r)
      BY <1>7 DEF RefreshGrant
    <2>2. r.token \in TokenIds /\ r.clientId \in Clients
          /\ r.scope \in Optional(SUBSET Scopes) /\ r.resource \in Optional(Resources)
      BY DEF RefreshRequest
    <2> DEFINE left == RowsAfterConsume(rows, r.token, now)
    <2>3. IsMap(left, TokenIds, Row)
      BY ConsumeRowType DEF TypeOK
    <2>4. /\ IsMap(rows, TokenIds, Row)'
          /\ IsMap(issuance, TokenIds, Issuance)'
          /\ reply' \in Reply
      <3>1. CASE RefreshUnknown(r) \/ RefreshWrongScope(r)
        BY <2>2, <2>3, <3>1 DEF RefreshUnknown, RefreshWrongScope, Refusal, Reply, TypeOK
      <3>2. CASE RefreshWrongClient(r)
        <4>1. IsMap(RevokeFamily(left, rows[r.token].familyId), TokenIds, Row)
          BY <2>3, WithoutIsMap DEF RevokeFamily
        <4>2. QED
          BY <2>2, <3>2, <4>1 DEF RefreshWrongClient, Refusal, Reply, TypeOK
      <3>3. CASE RefreshRotate(r)
        <4> DEFINE Input == [familyId |-> rows[r.token].familyId, clientId |-> r.clientId,
                             scope |-> OrElse(r.scope, rows[r.token].scope),
                             resource |-> OrElse(r.resource, rows[r.token].resource)]
        <4>1. PICK t \in TokenIds \ DOMAIN issuance :
                /\ IssueTokens(left, t, Input, issuance[r.token].grant, r.token)
                /\ reply' = Success(r.token, t)
          BY <3>3 DEF RefreshRotate
        <4>2. rows[r.token] \in Row
          BY <3>3 DEF RefreshRotate, ConsumesRow, SweepRows, Restrict, TypeOK, IsMap
        <4>3. Input \in [familyId : TokenIds, clientId : Clients,
                         scope : SUBSET Scopes, resource : Resources]
          BY <2>2, <4>2 DEF Row, OrElse, Optional
        <4>4. issuance[r.token].grant \in CodeIds
          BY <2>1 DEF TypeOK, IsMap, Issuance
        <4>5. IsMap(rows, TokenIds, Row)' /\ IsMap(issuance, TokenIds, Issuance)'
          BY <2>2, <2>3, <4>1, <4>3, <4>4, IssueTokensType
        <4>6. reply' \in Reply
          BY <2>2, <4>1 DEF Success, Reply
        <4>7. QED
          BY <4>5, <4>6
      <3>4. QED
        BY <2>1, <3>1, <3>2, <3>3
    <2>5. QED
      BY <1>7, <2>4 DEF RefreshGrant, TypeOK
  <1>8. CASE UNCHANGED vars
    BY <1>8 DEF vars, TypeOK
  <1>9. QED
    BY <1>1, <1>2, <1>3, <1>4, <1>5, <1>6, <1>7, <1>8 DEF Next

\* The state always has the types its variables are declared with.
THEOREM TypeCorrect == Spec => []TypeOK
  <1>1. Init => TypeOK
    BY BoundAssumption, EmptyIsMap DEF Init, TypeOK, Reply
  <1>2. QED
    BY <1>1, TypeStep, PTL DEF Spec

-----------------------------------------------------------------------------
(* The inductive invariant.  Every step does one of four things to the      *)
(* stores and the history: it takes credentials out of the stores, empties  *)
(* them (a restart), adds a code, or exchanges a credential for a token.    *)

\* m only lost keys.
Shrinks(m, n) ==
    /\ DOMAIN n \subseteq DOMAIN m
    /\ \A k \in DOMAIN n : n[k] = m[k]

Forget ==
    /\ Shrinks(codes, codes')
    /\ Shrinks(rows, rows')
    /\ UNCHANGED <<epoch, consents, issuance>>

\* Credential k of consent g is exchanged for token t.
Exchange(k, g, t) ==
    LET row == rows'[t] IN
    /\ t \in TokenIds \ DOMAIN issuance
    /\ g \in DOMAIN consents
    /\ k \in Redeemable(g)
    /\ Shrinks(codes, codes')
    /\ DOMAIN codes \ {k} \subseteq DOMAIN codes'
    /\ \A u \in DOMAIN rows \ {k} : ConsumesRow(rows, u, now) => u \in DOMAIN rows'
    /\ t \in DOMAIN rows'
    /\ DOMAIN rows' \subseteq DOMAIN rows \cup {t}
    /\ \A u \in DOMAIN rows' \ {t} : rows'[u] = rows[u]
    /\ k \notin DOMAIN codes' \cup DOMAIN rows'
    /\ g \notin DOMAIN codes'
    /\ DOMAIN issuance' = DOMAIN issuance \cup {t}
    /\ \A u \in DOMAIN issuance : issuance'[u] = issuance[u]
    /\ issuance'[t] = [grant |-> g, parent |-> k, at |-> now, epoch |-> epoch, row |-> row]
    /\ row.clientId = consents[g].record.clientId
    /\ row.scope \subseteq ScopeOf(k)
    /\ row.expiresAt = now + RefreshTtl
    /\ (k = g /\ consents[g].record.resource # Absent)
        => row.resource = consents[g].record.resource
    /\ IF k \in CodeIds THEN now - HandedOutAt(k) <= CodeTtl
                        ELSE now - HandedOutAt(k) < RefreshTtl
    /\ UNCHANGED <<now, epoch, consents>>

\* Redeeming a code is an exchange of the code.
LEMMA RedeemIsExchange ==
    ASSUME IInv, NEW w \in Workers, TokenRedeemCode(w)
    PROVE  \E k \in CodeIds \cup TokenIds, g \in CodeIds, t \in TokenIds : Exchange(k, g, t)
  <1> DEFINE r == requests[w]
             c == r.code
             Input(t) == [familyId |-> t, clientId |-> r.clientId,
                          scope |-> codes[r.code].scope,
                          resource |-> OrElse(codes[r.code].resource,
                                              OrElse(r.resource, Resource))]
  <1>1. PICK t \in TokenIds \ DOMAIN issuance : IssueTokens(rows, t, Input(t), c, c)
    BY DEF TokenRedeemCode
  <1>2. /\ c \in DOMAIN codes
        /\ ~(now > codes[c].expiresAt)
        /\ codes[c].clientId = r.clientId
        /\ Shrinks(codes, codes')
        /\ DOMAIN codes' = DOMAIN codes \ {c}
        /\ UNCHANGED <<now, epoch, consents>>
    BY DEF TokenRedeemCode, ConsumesCode, ExpiredCode, Shrinks,
           CodesAfterConsume, Without, Restrict
  <1>3. /\ c \in DOMAIN consents
        /\ c \in CodeIds
        /\ codes[c] = consents[c].record
        /\ codes[c] \in CodeRecord
        /\ codes[c].expiresAt = codes[c].createdAt + CodeTtl
    BY <1>2 DEF IInv, StoresAgree, Lifetimes, TypeOK, IsMap
  <1> DEFINE row == [familyId  |-> Input(t).familyId, clientId |-> Input(t).clientId,
                     scope |-> Input(t).scope, resource |-> Input(t).resource,
                     expiresAt |-> now + RefreshTtl]
             issued == [grant |-> c, parent |-> c, at |-> now, epoch |-> epoch, row |-> row]
  <1>4. /\ DOMAIN rows' = DOMAIN rows \cup {t}
        /\ rows'[t] = row
        /\ \A u \in DOMAIN rows \ {t} : rows'[u] = rows[u]
    BY <1>1 DEF IssueTokens, IssueRow, Put
  <1>5. issuance' = Put(issuance, t, issued)
    BY <1>1 DEF IssueTokens, IssueRow, Put
  <1>6. /\ DOMAIN issuance' = DOMAIN issuance \cup {t}
        /\ issuance'[t] = issued
        /\ \A u \in DOMAIN issuance : issuance'[u] = issuance[u]
    BY <1>5 DEF Put
  <1>7. /\ c \in Redeemable(c)
        /\ ScopeOf(c) = codes[c].scope
        /\ HandedOutAt(c) = codes[c].createdAt
    BY <1>2, <1>3 DEF Redeemable, ExpiredCode, Held, ScopeOf, HandedOutAt
  <1>8. now - codes[c].createdAt <= CodeTtl
    BY <1>2, <1>3, CodeTtlAssumption, BoundAssumption DEF CodeRecord, IInv, TypeOK
  <1>9. c \notin DOMAIN rows' /\ c \notin TokenIds
    BY <1>3, <1>4, IdAssumption DEF IInv, TypeOK, IsMap
  <1>10. codes[c].resource # Absent => row.resource = codes[c].resource
    BY DEF OrElse
  <1>11. Exchange(c, c, t)
    BY <1>1, <1>2, <1>3, <1>4, <1>6, <1>7, <1>8, <1>9, <1>10 DEF Exchange
  <1>12. QED
    BY <1>3, <1>11

\* Rotating a refresh token is an exchange of the token.
LEMMA RotateIsExchange ==
    ASSUME IInv, NEW r \in RefreshRequest, RefreshRotate(r),
           UNCHANGED <<now, epoch, clients, codes, requests, uuids, consents>>
    PROVE  \E k \in CodeIds \cup TokenIds, g \in CodeIds, t \in TokenIds : Exchange(k, g, t)
  <1> DEFINE k == r.token
             g == issuance[k].grant
             left == RowsAfterConsume(rows, k, now)
             Input == [familyId |-> rows[r.token].familyId, clientId |-> r.clientId,
                       scope |-> OrElse(r.scope, rows[r.token].scope),
                       resource |-> OrElse(r.resource, rows[r.token].resource)]
  <1>1. PICK t \in TokenIds \ DOMAIN issuance : IssueTokens(left, t, Input, g, k)
    BY DEF RefreshRotate
  <1>2. /\ k \in DOMAIN rows
        /\ ~(rows[k].expiresAt <= now)
        /\ rows[k].clientId = r.clientId
        /\ OrElse(r.scope, rows[k].scope) \subseteq rows[k].scope
    BY DEF RefreshRotate, ConsumesRow, SweepRows, Restrict, Rotatable, OrElse
  <1>3. /\ k \in DOMAIN issuance
        /\ k \in TokenIds
        /\ rows[k] = issuance[k].row
        /\ issuance[k] \in Issuance
        /\ rows[k].expiresAt = issuance[k].at + RefreshTtl
    BY <1>2 DEF IInv, StoresAgree, Lifetimes, TypeOK, IsMap
  <1>4. /\ g \in DOMAIN consents
        /\ g \notin DOMAIN codes
        /\ g \in CodeIds
        /\ rows[k].clientId = consents[g].record.clientId
    BY <1>3 DEF IInv, Lineage, TokensTraceToConsent, TokenTraces, Issuance
  <1> DEFINE row == [familyId  |-> Input.familyId, clientId |-> Input.clientId,
                     scope |-> Input.scope, resource |-> Input.resource,
                     expiresAt |-> now + RefreshTtl]
             issued == [grant |-> g, parent |-> k, at |-> now, epoch |-> epoch, row |-> row]
  <1>5. /\ DOMAIN left \subseteq DOMAIN rows \ {k}
        /\ \A u \in DOMAIN left : left[u] = rows[u]
        /\ \A u \in DOMAIN rows \ {k} : ConsumesRow(rows, u, now) => u \in DOMAIN left
    BY DEF RowsAfterConsume, ConsumesRow, SweepRows, Without, Restrict
  <1>6. /\ DOMAIN rows' = DOMAIN left \cup {t}
        /\ rows'[t] = row
        /\ \A u \in DOMAIN left \ {t} : rows'[u] = left[u]
    BY <1>1 DEF IssueTokens, IssueRow, Put
  <1>7. issuance' = Put(issuance, t, issued)
    BY <1>1 DEF IssueTokens, IssueRow, Put
  <1>8. /\ DOMAIN issuance' = DOMAIN issuance \cup {t}
        /\ issuance'[t] = issued
        /\ \A u \in DOMAIN issuance : issuance'[u] = issuance[u]
    BY <1>7 DEF Put
  <1>9. k \notin CodeIds /\ k # t /\ k # g
    BY <1>3, <1>4, IdAssumption
  <1>10. /\ k \in Redeemable(g)
         /\ ScopeOf(k) = rows[k].scope
         /\ HandedOutAt(k) = issuance[k].at
    BY <1>2, <1>3, <1>9 DEF RefreshRotate, Redeemable, Held, ScopeOf, HandedOutAt
  <1>11. now - issuance[k].at < RefreshTtl
    BY <1>2, <1>3, RefreshTtlAssumption, BoundAssumption DEF Issuance, IInv, TypeOK
  <1>12. k \notin DOMAIN codes
    BY <1>9 DEF IInv, TypeOK, IsMap
  <1>13. Exchange(k, g, t)
    BY <1>1, <1>2, <1>3, <1>4, <1>5, <1>6, <1>8, <1>9, <1>10, <1>11, <1>12
       DEF Exchange, Shrinks
  <1>14. QED
    BY <1>3, <1>4, <1>13

\* Every step is one of the four.
LEMMA StepKinds ==
    ASSUME IInv, [Next]_vars
    PROVE  \/ Forget
           \/ Restart
           \/ AuthorizeApprove
           \/ \E k \in CodeIds \cup TokenIds, g \in CodeIds, t \in TokenIds : Exchange(k, g, t)
  <1>1. CASE Tick \/ Register \/ UNCHANGED vars
    BY <1>1 DEF Tick, Register, vars, stores, history, Forget, Shrinks
  <1>2. ASSUME NEW w \in Workers, TokenBegin(w) \/ TokenRefuseClient(w) PROVE Forget
    BY <1>2 DEF TokenBegin, TokenRefuseClient, stores, history, Forget, Shrinks
  <1>3. ASSUME NEW w \in Workers, TokenRefuseCode(w) \/ TokenBurnCode(w) PROVE Forget
    BY <1>3 DEF TokenRefuseCode, TokenBurnCode, history, Forget, Shrinks,
                CodesAfterConsume, Without, Restrict
  <1>4. ASSUME NEW r \in RefreshRequest,
               RefreshUnknown(r) \/ RefreshWrongClient(r) \/ RefreshWrongScope(r),
               UNCHANGED <<now, epoch, clients, codes, requests, uuids, consents>>
        PROVE  Forget
    <2>1. Shrinks(rows, rows')
      BY <1>4 DEF RefreshUnknown, RefreshWrongClient, RefreshWrongScope, RowsAfterConsume,
                  RevokeFamily, SweepRows, Without, Restrict, Shrinks
    <2>2. QED
      BY <1>4, <2>1 DEF RefreshUnknown, RefreshWrongClient, RefreshWrongScope, Forget, Shrinks
  <1>5. QED
    BY <1>1, <1>2, <1>3, <1>4, RedeemIsExchange, RotateIsExchange
       DEF Next, TokenResume, RefreshGrant

\* The part of the invariant that is not about types.
Links ==
    /\ StoresAgree
    /\ Lifetimes
    /\ Lineage
    /\ OneCredentialPerConsent
    /\ TokensTraceToConsent
    /\ ExchangedInTime
    /\ ExchangedOnce

\* Losing credentials keeps the invariant.
LEMMA ForgetKeepsLinks ==
    ASSUME IInv, Forget
    PROVE  Links'
  <1> USE DEF Forget, Shrinks
  <1>1. StoresAgree'
    BY DEF IInv, StoresAgree
  <1>2. Lifetimes' /\ TokensTraceToConsent' /\ ExchangedInTime' /\ ExchangedOnce'
    BY DEF IInv, Lifetimes, TokensTraceToConsent, TokenTraces, ExchangedInTime,
           ExchangedOnce, ScopeOf, HandedOutAt
  <1>3. Lineage'
    BY DEF IInv, Lineage
  <1>4. OneCredentialPerConsent'
    <2>1. \A g : Held(g)' \subseteq Held(g)
      BY DEF Held
    <2>2. QED
      BY <2>1 DEF IInv, OneCredentialPerConsent
  <1>5. QED
    BY <1>1, <1>2, <1>3, <1>4 DEF Links

\* A restart keeps the invariant: nothing is stored any more.
LEMMA RestartKeepsLinks ==
    ASSUME IInv, Restart
    PROVE  Links'
  <1> DOMAIN codes' = {} /\ DOMAIN rows' = {} /\ UNCHANGED <<consents, issuance>>
    BY DEF Restart, EmptyMap, history
  <1>1. StoresAgree' /\ OneCredentialPerConsent'
    BY DEF StoresAgree, OneCredentialPerConsent, Held
  <1>2. Lifetimes' /\ TokensTraceToConsent' /\ ExchangedInTime' /\ ExchangedOnce'
    BY DEF IInv, Lifetimes, TokensTraceToConsent, TokenTraces, ExchangedInTime,
           ExchangedOnce, ScopeOf, HandedOutAt
  <1>3. Lineage'
    BY DEF IInv, Lineage
  <1>4. QED
    BY <1>1, <1>2, <1>3 DEF Links

\* A new code keeps the invariant: no token descends from it yet.
LEMMA ApproveKeepsLinks ==
    ASSUME IInv, AuthorizeApprove
    PROVE  Links'
  <1>1. PICK c \in CodeIds \ DOMAIN consents,
             input \in [clientId : Clients, redirectUri : RedirectUris, scope : SUBSET Scopes,
                        codeChallenge : Verifiers, resource : Optional(Resources)] :
          /\ codes' = CreateCode(codes, c, input, now)
          /\ consents' = Put(consents, c, [record |-> NewCodeRecord(input, now), epoch |-> epoch])
    BY DEF AuthorizeApprove
  <1> DEFINE new == NewCodeRecord(input, now)
  <1>2. UNCHANGED <<rows, issuance, epoch>>
    BY DEF AuthorizeApprove
  <1>3. /\ DOMAIN codes' \subseteq DOMAIN codes \cup {c}
        /\ \A k \in DOMAIN codes' : codes'[k] = IF k = c THEN new ELSE codes[k]
    BY <1>1 DEF CreateCode, SweepCodes, Put, Restrict
  <1>4. /\ DOMAIN consents' = DOMAIN consents \cup {c}
        /\ consents'[c] = [record |-> new, epoch |-> epoch]
        /\ \A k \in DOMAIN consents : consents'[k] = consents[k]
    BY <1>1 DEF Put
  <1>5. \A t \in DOMAIN issuance : issuance[t].grant # c /\ issuance[t].parent # c
    BY <1>1, IdAssumption DEF IInv, Lineage, TypeOK, IsMap
  <1>6. StoresAgree'
    BY <1>2, <1>3, <1>4 DEF IInv, StoresAgree
  <1>7. Lifetimes'
    BY <1>2, <1>4 DEF IInv, Lifetimes, NewCodeRecord
  <1>8. Lineage'
    BY <1>1, <1>2, <1>3, <1>4, <1>5 DEF IInv, Lineage
  <1>9. OneCredentialPerConsent'
    <2>1. \A g \in DOMAIN consents : Held(g)' \subseteq Held(g)
      BY <1>1, <1>2, <1>3, <1>4 DEF Held
    <2>2. Held(c)' \subseteq {c}
      BY <1>2, <1>5 DEF Held, IInv, StoresAgree
    <2>3. QED
      BY <1>4, <2>1, <2>2 DEF IInv, OneCredentialPerConsent
  <1>10. \A t \in DOMAIN issuance : LET k == issuance[t].parent IN
            ScopeOf(k)' = ScopeOf(k) /\ HandedOutAt(k)' = HandedOutAt(k)
    <2> SUFFICES ASSUME NEW t \in DOMAIN issuance
                 PROVE  LET k == issuance[t].parent IN
                        ScopeOf(k)' = ScopeOf(k) /\ HandedOutAt(k)' = HandedOutAt(k)
      OBVIOUS
    <2>1. issuance[t].parent \in CodeIds => issuance[t].parent \in DOMAIN consents
      BY IdAssumption DEF IInv, Lineage, TypeOK, IsMap
    <2>2. QED
      BY <1>2, <1>4, <2>1 DEF ScopeOf, HandedOutAt
  <1>11. TokensTraceToConsent'
    BY <1>2, <1>4, <1>10 DEF IInv, TokensTraceToConsent, TokenTraces, Lineage
  <1>12. ExchangedInTime' /\ ExchangedOnce'
    BY <1>2, <1>10 DEF IInv, ExchangedInTime, ExchangedOnce
  <1>13. QED
    BY <1>6, <1>7, <1>8, <1>9, <1>11, <1>12 DEF Links

\* An exchange keeps the invariant: the new token takes the place of the
\* credential it was exchanged for.
LEMMA ExchangeKeepsLinks ==
    ASSUME IInv, NEW k \in CodeIds \cup TokenIds, NEW g \in CodeIds, NEW t \in TokenIds,
           Exchange(k, g, t)
    PROVE  Links'
  <1>1. /\ Held(g) = {k}
        /\ k # t
        /\ DOMAIN codes \subseteq CodeIds
        /\ DOMAIN rows \subseteq DOMAIN issuance
        /\ DOMAIN issuance \subseteq TokenIds
    BY IdAssumption
       DEF Exchange, Redeemable, IInv, OneCredentialPerConsent, Held, StoresAgree, TypeOK, IsMap
  <1>2. /\ k \notin DOMAIN codes'
        /\ k \notin DOMAIN rows'
        /\ k \in CodeIds => k = g /\ k \in DOMAIN codes
        /\ k \in TokenIds => k \in DOMAIN rows /\ issuance[k].grant = g
    BY <1>1, IdAssumption DEF Exchange, Redeemable, Held
  <1>3. StoresAgree'
    BY <1>1 DEF Exchange, Shrinks, IInv, StoresAgree
  <1>4. Lifetimes'
    BY DEF Exchange, IInv, Lifetimes
  <1>5. Lineage'
    <2>1. issuance'[t].parent = g \/ (k \in DOMAIN issuance /\ issuance'[k].grant = g)
      BY <1>1, <1>2 DEF Exchange
    <2>2. \A u \in DOMAIN issuance : issuance[u].parent # t
      BY IdAssumption DEF Exchange, IInv, Lineage, TypeOK, IsMap
    <2>3. QED
      BY <1>1, <1>2, <2>1, <2>2 DEF Exchange, Shrinks, IInv, Lineage
  <1>6. OneCredentialPerConsent'
    <2>1. \A h \in DOMAIN consents \ {g} : Held(h)' \subseteq Held(h)
      BY <1>1 DEF Exchange, Shrinks, Held
    <2>2. Held(g)' \subseteq {t}
      BY <1>1 DEF Exchange, Shrinks, Held
    <2>3. QED
      BY <2>1, <2>2 DEF Exchange, IInv, OneCredentialPerConsent
  <1>7. /\ \A u \in DOMAIN issuance :
              issuance[u].parent \in CodeIds \/ issuance[u].parent \in DOMAIN issuance
        /\ k \in CodeIds \/ k \in DOMAIN issuance
        /\ k \in CodeIds => k \notin DOMAIN issuance
    BY <1>1, <1>2, IdAssumption DEF IInv, Lineage, TypeOK, IsMap
  <1>8. epoch = consents[g].epoch
    BY <1>2 DEF Exchange, IInv, StoresAgree, TokensTraceToConsent, TokenTraces
  <1>9. TokensTraceToConsent'
    <2>1. ASSUME NEW u \in DOMAIN issuance
          PROVE  TokenTraces(u)'
      BY <1>7, <2>1 DEF Exchange, IInv, TokensTraceToConsent, TokenTraces, ScopeOf
    <2>2. TokenTraces(t)'
      BY <1>7, <1>8 DEF Exchange, TokenTraces, ScopeOf
    <2>3. QED
      BY <2>1, <2>2 DEF Exchange, TokensTraceToConsent
  <1>10. ExchangedInTime'
    BY <1>7 DEF Exchange, IInv, ExchangedInTime, HandedOutAt
  <1>11. ExchangedOnce'
    <2>1. \A u \in DOMAIN issuance : issuance[u].parent # k
      BY <1>1, <1>2, IdAssumption DEF IInv, Lineage, TypeOK, IsMap
    <2>2. QED
      BY <2>1 DEF Exchange, IInv, ExchangedOnce
  <1>12. QED
    BY <1>3, <1>4, <1>5, <1>6, <1>9, <1>10, <1>11 DEF Links

\* The inductive invariant holds in every reachable state.
THEOREM Invariant == Spec => []IInv
  <1>1. Init => IInv
    <2>1. Init => TypeOK
      BY BoundAssumption, EmptyIsMap DEF Init, TypeOK, Reply
    <2>2. Init => Links
      BY DEF Init, EmptyMap, Links, StoresAgree, Lifetimes, Lineage, OneCredentialPerConsent,
             TokensTraceToConsent, ExchangedInTime, ExchangedOnce
    <2>3. QED
      BY <2>1, <2>2 DEF IInv, Links
  <1>2. IInv /\ [Next]_vars => IInv'
    <2> SUFFICES ASSUME IInv, [Next]_vars PROVE IInv'
      OBVIOUS
    <2>1. TypeOK'
      BY TypeStep DEF IInv
    <2>2. Links'
      BY StepKinds, ForgetKeepsLinks, RestartKeepsLinks, ApproveKeepsLinks, ExchangeKeepsLinks
    <2>3. QED
      BY <2>1, <2>2 DEF IInv, Links
  <1>3. QED
    BY <1>1, <1>2, PTL DEF Spec

-----------------------------------------------------------------------------
(* What follows from it *)

\* However many requests race, a consent never has two stored credentials.
THEOREM OneCredential == Spec => []OneCredentialPerConsent
  <1>1. IInv => OneCredentialPerConsent
    BY DEF IInv
  <1>2. QED
    BY <1>1, Invariant, PTL

\* No credential is ever exchanged twice.
THEOREM SingleUse == Spec => []ExchangedOnce
  <1>1. IInv => ExchangedOnce
    BY DEF IInv
  <1>2. QED
    BY <1>1, Invariant, PTL

\* Every token stays within the consent it comes from.
THEOREM Provenance == Spec => []TokensTraceToConsent
  <1>1. IInv => TokensTraceToConsent
    BY DEF IInv
  <1>2. QED
    BY <1>1, Invariant, PTL

\* Every credential is exchanged within its lifetime.
THEOREM InTime == Spec => []ExchangedInTime
  <1>1. IInv => ExchangedInTime
    BY DEF IInv
  <1>2. QED
    BY <1>1, Invariant, PTL

\* A restart leaves nothing that was granted before it.
THEOREM Restarted == Spec => []RestartForcesReauthorization
  <1>1. IInv => RestartForcesReauthorization
    <2> SUFFICES ASSUME IInv PROVE RestartForcesReauthorization
      OBVIOUS
    <2>1. ASSUME NEW g \in DOMAIN consents, Redeemable(g) # {}
          PROVE  consents[g].epoch = epoch
      <3>1. PICK k \in Held(g) : TRUE
        BY <2>1 DEF Redeemable
      <3>2. CASE k \in DOMAIN codes /\ k = g
        BY <3>2 DEF IInv, StoresAgree
      <3>3. CASE k \in DOMAIN rows /\ issuance[k].grant = g
        BY <3>3 DEF IInv, StoresAgree, TokensTraceToConsent, TokenTraces
      <3>4. QED
        BY <3>1, <3>2, <3>3 DEF Held
    <2>2. ASSUME NEW t \in DOMAIN issuance, Accepted(t)
          PROVE  consents[issuance[t].grant].epoch = epoch
      <3>1. issuance[t].epoch = epoch
        BY <2>2 DEF Accepted, ValidateAccess, AccessToken, IssueAccess
      <3>2. QED
        BY <3>1 DEF IInv, TokensTraceToConsent, TokenTraces
    <2>3. QED
      BY <2>1, <2>2 DEF RestartForcesReauthorization
  <1>2. QED
    BY <1>1, Invariant, PTL

-----------------------------------------------------------------------------
(* What becomes of what is presented *)

\* A refresh token in an answer is one that was handed out.
KnownPresented ==
    reply # NoReply /\ reply.presented \in TokenIds => reply.presented \in DOMAIN issuance

\* What an answer says it is about.
LEMMA AnswersName ==
    /\ \A error, k : Refusal(error, k).presented = k
    /\ \A k, t : Success(k, t).presented = k
    /\ \A error, k : Refusal(error, k).outcome = error
    /\ \A k, t : Success(k, t).outcome = "issued"
  BY DEF Refusal, Success

\* An answer of the code grant is about a code.
LEMMA CodeAnswers ==
    ASSUME IInv, NEW w \in Workers, TokenResume(w)
    PROVE  reply'.presented \notin TokenIds
  <1>1. requests[w] \in TokenRequest
    BY DEF IInv, TypeOK, TokenResume, TokenRefuseClient, TokenRefuseCode, TokenBurnCode,
           TokenRedeemCode
  <1>2. reply'.presented = requests[w].code
    <2>1. CASE TokenRefuseClient(w)
      BY <2>1, AnswersName DEF TokenRefuseClient, Answer
    <2>2. CASE TokenRefuseCode(w)
      BY <2>2, AnswersName DEF TokenRefuseCode, Answer
    <2>3. CASE TokenBurnCode(w)
      BY <2>3, AnswersName DEF TokenBurnCode, Answer
    <2>4. CASE TokenRedeemCode(w)
      BY <2>4, AnswersName DEF TokenRedeemCode, Answer
    <2>5. QED
      BY <2>1, <2>2, <2>3, <2>4 DEF TokenResume
  <1>3. QED
    BY <1>1, <1>2, IdAssumption DEF TokenRequest

\* An answer of the refresh grant leaves nothing of the token presented.
LEMMA RefreshAnswers ==
    ASSUME IInv, RefreshGrant
    PROVE  KnownPresented' /\ PresentedTokenIsSpent'
  <1>1. PICK r \in RefreshRequest :
            /\ r.token \in DOMAIN issuance
            /\ RefreshUnknown(r) \/ RefreshWrongClient(r) \/ RefreshWrongScope(r) \/ RefreshRotate(r)
    BY DEF RefreshGrant
  <1>. DEFINE k == r.token
              left == RowsAfterConsume(rows, k, now)
  <1>2. /\ DOMAIN left \subseteq DOMAIN rows \ {k}
        /\ k \in TokenIds /\ UNCHANGED <<codes, consents>>
    BY DEF RowsAfterConsume, SweepRows, Without, Restrict, RefreshRequest, RefreshGrant
  <1>3. /\ reply'.presented = k
        /\ DOMAIN issuance \subseteq DOMAIN issuance'
    <2>1. CASE RefreshUnknown(r)
      BY <2>1, AnswersName DEF RefreshUnknown
    <2>2. CASE RefreshWrongClient(r)
      BY <2>2, AnswersName DEF RefreshWrongClient
    <2>3. CASE RefreshWrongScope(r)
      BY <2>3, AnswersName DEF RefreshWrongScope
    <2>4. CASE RefreshRotate(r)
      BY <2>4, AnswersName DEF RefreshRotate, IssueTokens, Put
    <2>5. QED
      BY <1>1, <2>1, <2>2, <2>3, <2>4
  <1>4. k \notin DOMAIN rows'
    <2>1. CASE RefreshUnknown(r) \/ RefreshWrongScope(r)
      BY <1>2, <2>1 DEF RefreshUnknown, RefreshWrongScope
    <2>2. CASE RefreshWrongClient(r)
      BY <1>2, <2>2 DEF RefreshWrongClient, RevokeFamily, Without, Restrict
    <2>3. CASE RefreshRotate(r)
      <3>1. PICK t \in TokenIds \ DOMAIN issuance : DOMAIN rows' = DOMAIN left \cup {t}
        BY <2>3 DEF RefreshRotate, IssueTokens, IssueRow, Put
      <3>2. QED
        BY <1>1, <1>2, <3>1
    <2>4. QED
      BY <1>1, <2>1, <2>2, <2>3
  <1>5. ASSUME reply'.outcome = "invalid_scope"
        PROVE  Held(issuance[k].grant)' = {}
    <2>1. RefreshWrongScope(r)
      BY <1>1, <1>5 DEF RefreshUnknown, RefreshWrongClient, RefreshRotate, Refusal, Success
    <2>2. k \in DOMAIN rows /\ rows' = left /\ UNCHANGED issuance
      BY <2>1 DEF RefreshWrongScope, ConsumesRow, SweepRows, Restrict
    <2>3. Held(issuance[k].grant) = {k} /\ issuance[k].grant \notin DOMAIN codes
      BY <1>1, <2>2 DEF IInv, OneCredentialPerConsent, Held, Lineage
    <2>4. QED
      BY <1>2, <2>2, <2>3 DEF Held
  <1>6. UNCHANGED issuance \/ reply'.outcome # "invalid_scope"
    BY <1>1 DEF RefreshUnknown, RefreshWrongClient, RefreshWrongScope, RefreshRotate, Success
  <1>7. QED
    BY <1>1, <1>3, <1>4, <1>5, <1>6 DEF KnownPresented, PresentedTokenIsSpent, Held

\* Nothing comes back of a refresh token that was presented.
LEMMA SpentStep ==
    ASSUME IInv, KnownPresented, PresentedTokenIsSpent, [Next]_vars
    PROVE  KnownPresented' /\ PresentedTokenIsSpent'
  <1>1. CASE Tick \/ Register \/ (\E w \in Workers : TokenBegin(w)) \/ UNCHANGED vars
    <2>1. UNCHANGED <<codes, rows, reply, issuance>>
      BY <1>1 DEF Tick, Register, TokenBegin, vars, stores, history
    <2>2. QED
      BY <2>1 DEF KnownPresented, PresentedTokenIsSpent, Held
  <1>2. CASE AuthorizeApprove
    <2>1. PICK c \in CodeIds \ DOMAIN consents : DOMAIN codes' \subseteq DOMAIN codes \cup {c}
      BY <1>2 DEF AuthorizeApprove, CreateCode, SweepCodes, Put, Restrict
    <2>2. UNCHANGED <<rows, reply, issuance>>
      BY <1>2 DEF AuthorizeApprove
    <2>3. \A t \in DOMAIN issuance : Held(issuance[t].grant)' \subseteq Held(issuance[t].grant)
      BY <2>1, <2>2 DEF Held, IInv, Lineage
    <2>4. QED
      BY <2>2, <2>3 DEF KnownPresented, PresentedTokenIsSpent
  <1>3. CASE Restart
    BY <1>3 DEF Restart, KnownPresented, PresentedTokenIsSpent
  <1>4. CASE \E w \in Workers : TokenResume(w)
    BY <1>4, CodeAnswers DEF KnownPresented, PresentedTokenIsSpent
  <1>5. CASE RefreshGrant
    BY <1>5, RefreshAnswers
  <1>6. QED
    BY <1>1, <1>2, <1>3, <1>4, <1>5 DEF Next

\* Whatever the answer was, a refresh token that was presented is gone, and
\* with a refused scope its whole family.
THEOREM Spent == Spec => []PresentedTokenIsSpent
  <1>1. Init => KnownPresented /\ PresentedTokenIsSpent
    BY DEF Init, KnownPresented, PresentedTokenIsSpent
  <1>2. IInv /\ KnownPresented /\ PresentedTokenIsSpent /\ [Next]_vars
            => KnownPresented' /\ PresentedTokenIsSpent'
    BY SpentStep
  <1>3. QED
    BY <1>1, <1>2, Invariant, PTL DEF Spec

\* No request of another client, and none for another redirect URI, takes a
\* code from the store.
THEOREM CodesAreSafe == Spec => StrangersCannotBurnCodes
  <1>. DEFINE Safe ==
        \A c \in DOMAIN codes \ DOMAIN codes' :
            \/ now > codes[c].expiresAt
            \/ epoch' # epoch
            \/ \E w \in Workers :
                /\ requests[w] # Idle /\ requests'[w] = Idle
                /\ requests[w].code = c
                /\ requests[w].clientId = consents[c].record.clientId
                /\ requests[w].redirectUri = consents[c].record.redirectUri
  <1>1. ASSUME IInv, [Next]_vars, NEW c \in DOMAIN codes \ DOMAIN codes'
        PROVE  \/ now > codes[c].expiresAt
               \/ epoch' # epoch
               \/ \E w \in Workers :
                    /\ requests[w] # Idle /\ requests'[w] = Idle
                    /\ requests[w].code = c
                    /\ requests[w].clientId = consents[c].record.clientId
                    /\ requests[w].redirectUri = consents[c].record.redirectUri
    <2>1. codes[c] = consents[c].record
      BY <1>1 DEF IInv, StoresAgree
    <2>2. CASE \/ Tick \/ Register \/ RefreshGrant \/ UNCHANGED vars
               \/ \E w \in Workers : TokenBegin(w) \/ TokenRefuseClient(w)
      <3>1. codes' = codes
        BY <2>2 DEF Tick, Register, RefreshGrant, vars, stores, TokenBegin, TokenRefuseClient
      <3>2. QED
        BY <1>1, <3>1
    <2>3. CASE AuthorizeApprove
      <3>1. PICK d, record :
                /\ d \notin DOMAIN consents
                /\ codes' = SweepCodes(Put(codes, d, record), now)
        BY <2>3 DEF AuthorizeApprove, CreateCode
      <3>2. c # d /\ c \in DOMAIN Put(codes, d, record) /\ Put(codes, d, record)[c] = codes[c]
        BY <1>1, <3>1 DEF Put, IInv, StoresAgree
      <3>3. QED
        BY <1>1, <3>1, <3>2 DEF SweepCodes, Restrict
    <2>4. CASE Restart
      <3>1. epoch \in Nat /\ epoch' = epoch + 1
        BY <1>1, <2>4, BoundAssumption DEF Restart, TypeOK, IInv
      <3>2. QED
        BY <3>1
    <2>5. ASSUME NEW w \in Workers,
                 TokenRefuseCode(w) \/ TokenBurnCode(w) \/ TokenRedeemCode(w)
          PROVE  \/ now > codes[c].expiresAt
                 \/ /\ requests[w] # Idle /\ requests'[w] = Idle
                    /\ requests[w].code = c
                    /\ requests[w].clientId = consents[c].record.clientId
                    /\ requests[w].redirectUri = consents[c].record.redirectUri
      <3>1. /\ requests[w] # Idle /\ requests'[w] = Idle
            /\ codes' = CodesAfterConsume(codes, requests[w].code, requests[w].clientId,
                                          requests[w].redirectUri, now)
        BY <1>1, <2>5 DEF TokenRefuseCode, TokenBurnCode, TokenRedeemCode, Answer, IInv, TypeOK
      <3>2. QED
        BY <1>1, <2>1, <3>1
           DEF CodesAfterConsume, ConsumesCode, ExpiredCode, Without, Restrict
    <2>6. QED
      BY <1>1, <2>2, <2>3, <2>4, <2>5 DEF Next, TokenResume
  <1>2. IInv /\ [Next]_vars => [Safe]_vars
    BY <1>1
  <1>3. Spec => [][Safe]_vars
    BY <1>2, Invariant, PTL DEF Spec
  <1>4. QED
    BY <1>3 DEF StrangersCannotBurnCodes

\* A first token goes only to a request that has the verifier of the consent
\* and comes through its redirect URI.
THEOREM OnlyVerifier == Spec => OnlyVerifierRedeems
  <1>. DEFINE Proven ==
        \A t \in DOMAIN issuance' \ DOMAIN issuance :
            LET g == issuance'[t].grant IN
            issuance'[t].parent = g =>
                \E w \in Workers :
                    /\ requests[w] # Idle /\ requests'[w] = Idle
                    /\ requests[w].code = g
                    /\ requests[w].codeVerifier = consents[g].record.codeChallenge
                    /\ requests[w].codeVerifier \notin BadVerifiers
                    /\ requests[w].redirectUri = consents[g].record.redirectUri
  <1>1. ASSUME IInv, [Next]_vars
        PROVE  Proven
    <2>1. CASE \A w \in Workers : ~TokenRedeemCode(w)
      <3>1. ASSUME RefreshGrant, NEW t \in DOMAIN issuance' \ DOMAIN issuance
            PROVE  issuance'[t].parent # issuance'[t].grant
        <4>1. PICK r \in RefreshRequest :
                  /\ r.token \in DOMAIN issuance
                  /\ \/ UNCHANGED issuance
                     \/ \E u, row : issuance' =
                            Put(issuance, u, [grant |-> issuance[r.token].grant,
                                              parent |-> r.token, at |-> now,
                                              epoch |-> epoch, row |-> row])
          BY <3>1 DEF RefreshGrant, RefreshUnknown, RefreshWrongClient, RefreshWrongScope,
                      RefreshRotate, IssueTokens
        <4>2. issuance'[t].parent = r.token /\ issuance'[t].grant = issuance[r.token].grant
          <5>1. PICK u, row : issuance' =
                    Put(issuance, u, [grant |-> issuance[r.token].grant, parent |-> r.token,
                                      at |-> now, epoch |-> epoch, row |-> row])
            BY <3>1, <4>1
          <5>2. t = u
            BY <3>1, <5>1 DEF Put
          <5>3. QED
            BY <5>1, <5>2 DEF Put
        <4>3. issuance[r.token].grant \in CodeIds /\ r.token \in TokenIds
          BY <1>1, <4>1 DEF IInv, TypeOK, IsMap, Issuance
        <4>4. QED
          BY <4>2, <4>3, IdAssumption
      <3>2. CASE ~RefreshGrant
        <4>1. UNCHANGED issuance
          BY <1>1, <2>1, <3>2
             DEF Next, Tick, Restart, Register, AuthorizeApprove, TokenBegin, TokenResume,
                 TokenRefuseClient, TokenRefuseCode, TokenBurnCode, vars, history
        <4>2. QED
          BY <4>1
      <3>3. QED
        BY <3>1, <3>2
    <2>2. ASSUME NEW w \in Workers, TokenRedeemCode(w)
          PROVE  Proven
      <3>. DEFINE r == requests[w]
      <3>1. PICK u, row :
                issuance' = Put(issuance, u, [grant |-> r.code, parent |-> r.code, at |-> now,
                                              epoch |-> epoch, row |-> row])
        BY <2>2 DEF TokenRedeemCode, IssueTokens
      <3>2. /\ r # Idle /\ requests'[w] = Idle
            /\ ConsumesCode(codes, r.code, r.clientId, r.redirectUri, now)
            /\ RedemptionError(codes[r.code], r) = "none"
        BY <1>1, <2>2 DEF TokenRedeemCode, Answer, IInv, TypeOK
      <3>3. codes[r.code] = consents[r.code].record
        BY <1>1, <3>2 DEF ConsumesCode, IInv, StoresAgree
      <3>4. VerifyCodeChallenge(r.codeVerifier, codes[r.code].codeChallenge)
        BY <3>2 DEF RedemptionError
      <3>5. \A t \in DOMAIN issuance' \ DOMAIN issuance : issuance'[t].grant = r.code
        BY <3>1 DEF Put
      <3>6. QED
        BY <3>2, <3>3, <3>4, <3>5 DEF ConsumesCode, VerifyCodeChallenge
    <2>3. QED
      BY <2>1, <2>2
  <1>2. IInv /\ [Next]_vars => [Proven]_vars
    BY <1>1
  <1>3. Spec => [][Proven]_vars
    BY <1>2, Invariant, PTL DEF Spec
  <1>4. QED
    BY <1>3 DEF OnlyVerifierRedeems

-----------------------------------------------------------------------------
(* Refinement of ConsentLedger: each step of the server is an Approve, an     *)
(* Exchange or a Lapse of the ledger, or changes nothing there.               *)

\* A consent has no other redeemable credential than its holder.
LEMMA HolderUnique ==
    ASSUME IInv, NEW g \in CodeIds
    PROVE  /\ \A k, l \in Redeemable(g) : k = l
           /\ \A k \in Redeemable(g) : /\ Redeemable(g) = {k}
                                       /\ Holder(g) = k
                                       /\ Power(g) = ScopeOf(k)
           /\ Redeemable(g) = {} => Holder(g) = Absent /\ Power(g) = {}
  <1>1. g \in DOMAIN consents \/ Redeemable(g) = {}
    BY DEF Redeemable, Held, IInv, StoresAgree, Lineage
  <1>2. \A k, l \in Redeemable(g) : k = l
    BY <1>1 DEF Redeemable, IInv, OneCredentialPerConsent
  <1>3. ASSUME NEW k \in Redeemable(g)
        PROVE  Redeemable(g) = {k} /\ Holder(g) = k /\ Power(g) = ScopeOf(k)
    <2>1. Redeemable(g) = {k}
      BY <1>2
    <2>2. Holder(g) = k
      BY <2>1 DEF Holder
    <2>3. Power(g) = ScopeOf(k)
      BY <2>1 DEF Power
    <2>4. QED
      BY <2>1, <2>2, <2>3
  <1>4. Redeemable(g) = {} => Holder(g) = Absent /\ Power(g) = {}
    BY DEF Holder, Power
  <1>5. QED
    BY <1>2, <1>3, <1>4

\* What is redeemable is an identifier that was handed out, never Absent.
LEMMA RedeemableIds ==
    ASSUME TypeOK, NEW g \in CodeIds, NEW k \in Redeemable(g)
    PROVE  k \in CodeIds \cup TokenIds /\ k # Absent
  BY IdAssumption DEF Redeemable, Held, TypeOK, IsMap

\* The scope of a credential that was handed out never changes.
LEMMA ScopeIsFixed ==
    ASSUME IInv, IInv', [Next]_vars, NEW k,
           k \in DOMAIN consents \/ k \in DOMAIN issuance
    PROVE  ScopeOf(k)' = ScopeOf(k)
  <1>1. CASE Forget \/ Restart
    BY <1>1 DEF Forget, Restart, history, ScopeOf
  <1>2. CASE AuthorizeApprove
    BY <1>2, IdAssumption DEF AuthorizeApprove, Put, ScopeOf, IInv, TypeOK, IsMap
  <1>3. CASE \E l \in CodeIds \cup TokenIds, g \in CodeIds, t \in TokenIds : Exchange(l, g, t)
    BY <1>3, IdAssumption DEF Exchange, ScopeOf, IInv, TypeOK, IsMap
  <1>4. QED
    BY <1>1, <1>2, <1>3, StepKinds

\* A step that only takes redeemable credentials away is a Lapse.
LEMMA LapseStep ==
    ASSUME IInv, IInv', [Next]_vars, UNCHANGED <<consents, issuance>>,
           \A g \in CodeIds : Redeemable(g)' \subseteq Redeemable(g)
    PROVE  Ledger!Next
  <1> DEFINE gone == {g \in CodeIds : Redeemable(g)' = {}}
  <1>1. ASSUME NEW g \in CodeIds \ gone
        PROVE  Holder(g)' = Holder(g) /\ Power(g)' = Power(g)
    <2>1. PICK k \in Redeemable(g)' : TRUE
      OBVIOUS
    <2>2. k \in Redeemable(g)
      BY <1>1, <2>1
    <2>3. Redeemable(g) = {k} /\ Redeemable(g)' = {k}
      BY <1>1, <2>1, <2>2, HolderUnique
    <2>4. Holder(g)' = Holder(g)
      BY <2>3 DEF Holder
    <2>5. Power(g)' = Power(g)
      BY <2>3 DEF Power, ScopeOf
    <2>6. QED
      BY <2>4, <2>5
  <1>2. ASSUME NEW g \in gone
        PROVE  Holder(g)' = Absent /\ Power(g)' = {}
    BY <1>2 DEF Holder, Power
  <1>3. Ledger!Lapse(gone)
    BY <1>1, <1>2 DEF Ledger!Lapse
  <1>4. QED
    BY <1>3 DEF Ledger!Next

\* The clock never runs backwards, so what had expired stays expired.
LEMMA ForgetLapses ==
    ASSUME IInv, IInv', [Next]_vars, Forget \/ Restart, NEW g \in CodeIds
    PROVE  Redeemable(g)' \subseteq Redeemable(g)
  <1>1. now \in Nat /\ now' \in Nat /\ now <= now'
    <2>1. now \in Nat /\ now' \in Nat
      BY BoundAssumption DEF IInv, TypeOK
    <2>2. now' = now \/ now' = now + 1
      BY DEF Next, Tick, Restart, Register, AuthorizeApprove, TokenBegin, TokenResume,
             TokenRefuseClient, TokenRefuseCode, TokenBurnCode, TokenRedeemCode,
             RefreshGrant, vars
    <2>3. QED
      BY <2>1, <2>2
  <1>2. CASE Restart
    BY <1>2 DEF Restart, EmptyMap, Redeemable, Held
  <1>3. CASE Forget
    <2> SUFFICES ASSUME NEW k \in Redeemable(g)'
                 PROVE  k \in Redeemable(g)
      OBVIOUS
    <2>1. k \in Held(g)
      BY <1>3 DEF Forget, Shrinks, Redeemable, Held
    <2>2. CASE k \in CodeIds
      <3>1. k \in DOMAIN codes' /\ ~(now' > codes'[k].expiresAt)
        BY <2>2, IdAssumption DEF Redeemable, Held, ExpiredCode, IInv, TypeOK, IsMap
      <3>2. k \in DOMAIN codes /\ codes[k].expiresAt \in Nat /\ codes'[k] = codes[k]
        BY <1>3, <3>1 DEF Forget, Shrinks, IInv, TypeOK, IsMap, CodeRecord
      <3>3. ~ExpiredCode(codes, k, now)
        BY <1>1, <3>1, <3>2 DEF ExpiredCode
      <3>4. QED
        BY <2>1, <2>2, <3>3 DEF Redeemable
    <2>3. CASE k \notin CodeIds
      <3>1. k \in DOMAIN rows' /\ ~(rows'[k].expiresAt <= now')
        BY <2>3 DEF Redeemable, ConsumesRow, SweepRows, Restrict
      <3>2. k \in DOMAIN rows /\ rows[k].expiresAt \in Nat /\ rows'[k] = rows[k]
        BY <1>3, <3>1 DEF Forget, Shrinks, IInv, TypeOK, IsMap, Row
      <3>3. ConsumesRow(rows, k, now)
        BY <1>1, <3>1, <3>2 DEF ConsumesRow, SweepRows, Restrict
      <3>4. QED
        BY <2>1, <2>3, <3>3 DEF Redeemable
    <2>4. QED
      BY <2>2, <2>3
  <1>4. QED
    BY <1>2, <1>3

\* A new code is an Approve of the ledger.
LEMMA ApproveStep ==
    ASSUME IInv, IInv', [Next]_vars, AuthorizeApprove
    PROVE  Ledger!Next
  <1>1. PICK c \in CodeIds \ DOMAIN consents,
             input \in [clientId : Clients, redirectUri : RedirectUris, scope : SUBSET Scopes,
                        codeChallenge : Verifiers, resource : Optional(Resources)] :
          /\ codes' = CreateCode(codes, c, input, now)
          /\ consents' = Put(consents, c, [record |-> NewCodeRecord(input, now), epoch |-> epoch])
    BY DEF AuthorizeApprove
  <1> DEFINE new == NewCodeRecord(input, now)
  <1>2. UNCHANGED <<now, rows, issuance>> /\ now \in Nat
    BY BoundAssumption DEF AuthorizeApprove, IInv, TypeOK
  <1>3. DOMAIN consents' = DOMAIN consents \cup {c} /\ consents'[c].record = new
    BY <1>1 DEF Put
  <1>4. c \in DOMAIN codes' /\ codes'[c] = new /\ ~(now > new.expiresAt)
    BY <1>1, <1>2, CodeTtlAssumption DEF CreateCode, SweepCodes, Put, Restrict, NewCodeRecord
  <1>5. \A k \in CodeIds \ {c} : ~ExpiredCode(codes, k, now) =>
            /\ k \in DOMAIN codes' <=> k \in DOMAIN codes
            /\ k \in DOMAIN codes => codes'[k] = codes[k]
    BY <1>1 DEF CreateCode, SweepCodes, Put, Restrict, ExpiredCode
  <1>6. \A k \in DOMAIN codes' \ {c} : k \in DOMAIN codes /\ codes'[k] = codes[k]
    BY <1>1 DEF CreateCode, SweepCodes, Put, Restrict
  <1>7. ASSUME NEW g \in CodeIds \ {c}
        PROVE  Holder(g)' = Holder(g) /\ Power(g)' = Power(g)
    <2>1. ASSUME NEW k
          PROVE  k \in Redeemable(g)' <=> k \in Redeemable(g)
      <3>1. CASE k \in CodeIds
        BY <1>2, <1>5, <1>6, <1>7, <3>1, IdAssumption
           DEF Redeemable, Held, ExpiredCode, IInv, TypeOK, IsMap
      <3>2. CASE k \notin CodeIds
        BY <1>2, <1>6, <1>7, <3>2 DEF Redeemable, Held, IInv, TypeOK, IsMap
      <3>3. QED
        BY <3>1, <3>2
    <2>2. Redeemable(g)' = Redeemable(g)
      BY <2>1
    <2>3. Holder(g)' = Holder(g)
      BY <2>2 DEF Holder
    <2>4. \A k \in Redeemable(g) : ScopeOf(k)' = ScopeOf(k)
      <3>1. \A k \in Redeemable(g) : k \in DOMAIN consents \/ k \in DOMAIN issuance
        BY DEF Redeemable, Held, IInv, StoresAgree
      <3>2. QED
        BY <3>1, ScopeIsFixed
    <2>5. Power(g)' = Power(g)
      <3>1. CASE Redeemable(g) = {}
        BY <2>2, <3>1 DEF Power
      <3>2. ASSUME NEW k \in Redeemable(g) PROVE Power(g)' = Power(g)
        <4>1. Redeemable(g) = {k} /\ Redeemable(g)' = {k}
          BY <2>2, <3>2, HolderUnique
        <4>2. Power(g) = ScopeOf(k) /\ Power(g)' = ScopeOf(k)'
          BY <4>1 DEF Power
        <4>3. QED
          BY <2>4, <4>2
      <3>3. QED
        BY <3>1, <3>2
    <2>6. QED
      BY <2>3, <2>5
  <1>8. Holder(c)' = c /\ Power(c)' = new.scope
    <2>1. c \in Redeemable(c)'
      BY <1>2, <1>4 DEF Redeemable, Held, ExpiredCode
    <2>2. Redeemable(c)' = {c}
      BY <1>3, <2>1 DEF Redeemable, IInv, OneCredentialPerConsent
    <2>3. Holder(c)' = c
      BY <2>2 DEF Holder
    <2>4. Power(c)' = ScopeOf(c)'
      BY <2>2 DEF Power
    <2>5. ScopeOf(c)' = new.scope
      BY <1>3 DEF ScopeOf
    <2>6. QED
      BY <2>3, <2>4, <2>5
  <1>9. c \notin DOMAIN issuance /\ new.scope \in SUBSET Scopes
    BY IdAssumption DEF IInv, TypeOK, IsMap, NewCodeRecord
  <1>10. Ledger!Approve(c, c, new.scope)
    BY <1>1, <1>2, <1>3, <1>7, <1>8, <1>9 DEF Ledger!Approve
  <1>11. QED
    BY <1>9, <1>10 DEF Ledger!Next

\* An exchange is an Exchange of the ledger.
LEMMA ExchangeStep ==
    ASSUME IInv, IInv', [Next]_vars,
           NEW k \in CodeIds \cup TokenIds, NEW g \in CodeIds, NEW t \in TokenIds,
           Exchange(k, g, t)
    PROVE  Ledger!Next
  <1>1. now \in Nat /\ now' = now /\ UNCHANGED consents
    BY BoundAssumption DEF Exchange, IInv, TypeOK
  <1>2. k \in Redeemable(g) /\ Redeemable(g) = {k} /\ Holder(g) = k /\ Power(g) = ScopeOf(k)
    BY HolderUnique DEF Exchange
  <1>3. t \notin DOMAIN consents /\ t \notin DOMAIN issuance /\ t \notin CodeIds
    BY IdAssumption DEF Exchange, IInv, TypeOK, IsMap
  <1>4. t \in Redeemable(g)'
    <2>1. t \in DOMAIN rows' /\ ~(rows'[t].expiresAt <= now)
      BY <1>1, RefreshTtlAssumption DEF Exchange
    <2>2. issuance'[t].grant = g
      BY DEF Exchange
    <2>3. QED
      BY <1>1, <1>3, <2>1, <2>2 DEF Redeemable, Held, ConsumesRow, SweepRows, Restrict
  <1>5. Redeemable(g)' = {t}
    BY <1>4 DEF Exchange, Redeemable, IInv, OneCredentialPerConsent
  <1>6. Holder(g)' = t /\ Power(g)' = ScopeOf(t)' /\ ScopeOf(t)' \subseteq ScopeOf(k)
    <2>1. Holder(g)' = t
      BY <1>5 DEF Holder
    <2>2. Power(g)' = ScopeOf(t)'
      BY <1>5 DEF Power
    <2>3. ScopeOf(t)' \subseteq ScopeOf(k)
      BY <1>3 DEF Exchange, ScopeOf
    <2>4. QED
      BY <2>1, <2>2, <2>3
  <1>7. ASSUME NEW h \in CodeIds \ {g}
        PROVE  Holder(h)' = Holder(h) /\ Power(h)' = Power(h)
    <2>1. k \notin Held(h)
      <3>1. k \in Held(g)
        BY <1>2 DEF Redeemable
      <3>2. QED
        BY <1>7, <3>1, IdAssumption DEF Held, IInv, StoresAgree, TypeOK, IsMap
    <2>2. ASSUME NEW l
          PROVE  l \in Redeemable(h)' <=> l \in Redeemable(h)
      <3>1. CASE l \in CodeIds
        <4>1. l # k => (l \in DOMAIN codes' <=> l \in DOMAIN codes)
          BY DEF Exchange, Shrinks
        <4>2. l \in Held(h)' <=> l \in Held(h)
          BY <1>3, <2>1, <3>1, <4>1, IdAssumption DEF Exchange, Held, IInv, TypeOK, IsMap
        <4>3. l \in Held(h)' => l \in DOMAIN codes'
          BY <3>1, IdAssumption DEF Held, IInv, TypeOK, IsMap
        <4>4. QED
          BY <1>1, <3>1, <4>2, <4>3 DEF Exchange, Shrinks, Redeemable, ExpiredCode
      <3>2. CASE l \notin CodeIds
        <4>1. l # t /\ l \in DOMAIN rows' =>
                l \in DOMAIN rows /\ rows'[l] = rows[l]
          BY DEF Exchange
        <4>2. l # k /\ ConsumesRow(rows, l, now) => l \in DOMAIN rows'
          BY DEF Exchange, ConsumesRow, SweepRows, Restrict
        <4>3. l # t /\ l # k => (ConsumesRow(rows, l, now)' <=> ConsumesRow(rows, l, now))
          BY <1>1, <4>1, <4>2 DEF ConsumesRow, SweepRows, Restrict
        <4>4. l # t /\ l \in DOMAIN rows => issuance'[l].grant = issuance[l].grant
          BY DEF Exchange, IInv, StoresAgree
        <4>5. l = t => l \notin Held(h)' /\ l \notin Held(h)
          BY <1>3, <1>7 DEF Exchange, Held, IInv, StoresAgree, TypeOK, IsMap
        <4>6. l = k => l \notin Held(h)' /\ l \notin Held(h)
          BY <2>1 DEF Exchange, Held
        <4>7. l \in Redeemable(h)' <=>
                l \in DOMAIN rows' /\ issuance'[l].grant = h /\ ConsumesRow(rows, l, now)'
          BY <3>2 DEF Redeemable, Held, ConsumesRow, SweepRows, Restrict
        <4>8. l \in Redeemable(h) <=>
                l \in DOMAIN rows /\ issuance[l].grant = h /\ ConsumesRow(rows, l, now)
          BY <3>2 DEF Redeemable, Held, ConsumesRow, SweepRows, Restrict
        <4>9. CASE l = t \/ l = k
          BY <4>5, <4>6, <4>9 DEF Redeemable
        <4>10. CASE l # t /\ l # k
          BY <4>1, <4>2, <4>3, <4>4, <4>7, <4>8, <4>10
        <4>11. QED
          BY <4>9, <4>10
      <3>3. QED
        BY <3>1, <3>2
    <2>3. Redeemable(h)' = Redeemable(h)
      BY <2>2
    <2>4. Holder(h)' = Holder(h)
      BY <2>3 DEF Holder
    <2>5. Power(h)' = Power(h)
      <3>1. CASE Redeemable(h) = {}
        BY <2>3, <3>1 DEF Power
      <3>2. ASSUME NEW l \in Redeemable(h) PROVE Power(h)' = Power(h)
        <4>1. Redeemable(h) = {l} /\ Redeemable(h)' = {l}
          BY <2>3, <3>2, HolderUnique
        <4>2. Power(h) = ScopeOf(l) /\ Power(h)' = ScopeOf(l)'
          BY <4>1 DEF Power
        <4>3. l \in DOMAIN consents \/ l \in DOMAIN issuance
          BY <3>2 DEF Redeemable, Held, IInv, StoresAgree
        <4>4. QED
          BY <4>2, <4>3, ScopeIsFixed
      <3>3. QED
        BY <3>1, <3>2
    <2>6. QED
      BY <2>4, <2>5
  <1>8. ScopeOf(t)' \in SUBSET Scopes
    BY <1>3 DEF Exchange, ScopeOf, IInv, TypeOK, IsMap, Issuance, Row
  <1>9. Holder(g) # Absent
    BY <1>2, RedeemableIds DEF IInv
  <1>10. Ledger!Exchange(g, t, ScopeOf(t)')
    <2>1. DOMAIN issuance' = DOMAIN issuance \cup {t}
      BY DEF Exchange
    <2>2. QED
      BY <1>1, <1>2, <1>3, <1>6, <1>7, <1>9, <2>1 DEF Ledger!Exchange
  <1>11. QED
    BY <1>8, <1>10 DEF Ledger!Next

\* The authorization server implements the ledger of consents.
THEOREM Refinement == Spec => ImplementsLedger
  <1>1. Init => Ledger!Init
    BY DEF Init, EmptyMap, Ledger!Init, Holder, Power, Redeemable, Held
  <1>2. IInv /\ IInv' /\ [Next]_vars => [Ledger!Next]_Ledger!ledger
    <2> SUFFICES ASSUME IInv, IInv', [Next]_vars PROVE Ledger!Next
      OBVIOUS
    <2>1. CASE Forget \/ Restart
      <3>1. UNCHANGED <<consents, issuance>>
        BY <2>1 DEF Forget, Restart, history
      <3>2. QED
        BY <2>1, <3>1, ForgetLapses, LapseStep
    <2>2. CASE AuthorizeApprove
      BY <2>2, ApproveStep
    <2>3. CASE \E k \in CodeIds \cup TokenIds, g \in CodeIds, t \in TokenIds : Exchange(k, g, t)
      BY <2>3, ExchangeStep
    <2>4. QED
      BY <2>1, <2>2, <2>3, StepKinds
  <1>3. QED
    BY <1>1, <1>2, Invariant, PTL DEF Spec, ImplementsLedger, Ledger!Spec
=============================================================================
