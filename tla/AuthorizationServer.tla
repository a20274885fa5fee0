------------------------ MODULE AuthorizationServer ------------------------
(***************************************************************************)
(* The in-process authorization server: the handlers of                     *)
(* src/src/server/oauth/as-handlers.ts over the two credential stores and   *)
(* the registry of clients (dcr.ts), in one Node process that can restart.  *)
(*                                                                          *)
(* The event loop runs a handler up to its next await, so the unit of       *)
(* atomicity is the code between two awaits.                                *)
(*   - The authorization-code grant awaits resolveClient before it touches  *)
(*     a store; meanwhile other requests run, codes expire, the process     *)
(*     may restart.  It is two actions, TokenBegin and one of the actions   *)
(*     that resume the request.                                             *)
(*   - The refresh grant awaits nothing after its body: one action.         *)
(*   - POST /authorize awaits the client before its only access to mutable  *)
(*     state (codeStore.create), and a registration never changes once      *)
(*     made: one action, at the time of create.                             *)
(*                                                                          *)
(* A DCR client is known to the registry.  A CIMD client is a URL whose     *)
(* document is fetched: the resolver may answer with any redirect URIs or   *)
(* an error, whatever it answered before.                                   *)
(***************************************************************************)
EXTENDS AuthorizationCodeStore, RefreshTokenStore, TokenIssuer, FiniteSets

CONSTANTS DcrClients,       \* the UUIDs register() may draw as client ids
          CimdClients,      \* client ids that are URLs
          RedirectUris,
          Scopes,
          Verifiers,        \* PKCE verifiers; their S256 hash is the challenge
          BadVerifiers,     \* those too short, too long or with a bad character
          OtherResources,   \* resource indicators besides this server's own
          CodeIds,          \* the strings create() may draw: bounds the codes
          TokenIds,         \* the strings issue() may draw: bounds the tokens
          Workers,          \* bounds the token requests in flight
          MaxTime,          \* bounds the clock
          MaxRestarts,      \* bounds the restarts
          Absent            \* an optional parameter that is not given

Clients   == DcrClients \cup CimdClients
Resources == OtherResources \cup {Resource}

ASSUME IdAssumption ==
    /\ DcrClients \cap CimdClients = {}
    /\ CodeIds \cap TokenIds = {}
    /\ BadVerifiers \subseteq Verifiers
    /\ Absent \notin Resources \cup CodeIds \cup TokenIds
    /\ \A s \in SUBSET Scopes : Absent # s

ASSUME BoundAssumption == MaxTime \in Nat /\ MaxRestarts \in Nat

VARIABLES
    now,        \* the clock
    epoch,      \* which incarnation of the process, hence which signing key
    clients,    \* ClientRegistry.clients: client id -> redirect URIs
    codes,      \* AuthorizationCodeStore.codes
    rows,       \* RefreshTokenStore.rows
    requests,   \* code grants waiting for resolveClient, by worker
    reply,      \* the last answer of the token endpoint
    \* History, read by no handler:
    uuids,      \* every client id ever registered
    consents,   \* code -> the record it was created with, and the epoch
    issuance    \* refresh token -> what it was issued with, and from what

stores  == <<clients, codes, rows>>
history == <<uuids, consents, issuance>>
vars    == <<now, epoch, clients, codes, rows, requests, reply, uuids, consents, issuance>>

-----------------------------------------------------------------------------
(* Requests, replies and records *)

Optional(S) == S \cup {Absent}

TokenRequest ==
    [code : CodeIds, clientId : Clients, redirectUri : RedirectUris,
     codeVerifier : Verifiers, resource : Optional(Resources)]

\* A worker without a request.
Idle == [idle |-> TRUE]

NoReply == [outcome |-> "none"]

\* An answer without tokens; `presented' is the credential of the request.
Refusal(error, presented) == [outcome |-> error, presented |-> presented]

\* A 200 answer: the credential presented and the refresh token minted.
Success(presented, token) ==
    [outcome |-> "issued", presented |-> presented, token |-> token]

CodeRecord ==
    [clientId : Clients, redirectUri : RedirectUris, scope : SUBSET Scopes,
     codeChallenge : Verifiers, resource : Optional(Resources),
     createdAt : Nat, expiresAt : Nat]

Row ==
    [familyId : TokenIds, clientId : Clients, scope : SUBSET Scopes,
     resource : Resources, expiresAt : Nat]

Consent == [record : CodeRecord, epoch : Nat]

Issuance ==
    [grant : CodeIds, parent : CodeIds \cup TokenIds, row : Row, at : Nat, epoch : Nat]

\* Only the token endpoint's answers are kept; those of /authorize and
\* /register are seen in what they create.
Reply ==
    {NoReply}
    \cup [outcome : {"invalid_client", "invalid_request", "invalid_grant",
                     "invalid_target", "invalid_scope"},
          presented : CodeIds \cup TokenIds]
    \cup [outcome : {"issued"}, presented : CodeIds \cup TokenIds, token : TokenIds]

\* Mutant: any well-formed verifier will do.
VerifyShapeOnly(verifier, challenge) == verifier \notin BadVerifiers

\* S256 is collision free: the model writes a challenge as its verifier.
VerifyCodeChallenge(verifier, challenge) ==
    /\ verifier \notin BadVerifiers
    /\ verifier = challenge

\* Mutant: the default is forgotten.
FirstOnly(a, b) == a

\* The JavaScript a ?? b
OrElse(a, b) == IF a # Absent THEN a ELSE b

-----------------------------------------------------------------------------
Init ==
    /\ now = 0
    /\ epoch = 0
    /\ clients = EmptyMap
    /\ codes = EmptyMap
    /\ rows = EmptyMap
    /\ requests = [w \in Workers |-> Idle]
    /\ reply = NoReply
    /\ uuids = {}
    /\ consents = EmptyMap
    /\ issuance = EmptyMap

\* Time passes.  (Date.now(); the bound MaxTime ends the run of the clock.)
Tick ==
    /\ now < MaxTime
    /\ now' = now + 1
    /\ UNCHANGED <<epoch, stores, requests, reply, history>>

\* Mutant: the refresh tokens are kept on disk.
RestartKeepingRows ==
    /\ epoch < MaxRestarts
    /\ epoch' = epoch + 1
    /\ clients' = EmptyMap
    /\ codes' = EmptyMap
    /\ requests' = [w \in Workers |-> Idle]
    /\ reply' = NoReply
    /\ UNCHANGED <<now, rows, history>>

\* The process ends and a new one starts: every store is in memory, the
\* signing key is generated at start, and requests in flight are lost.
Restart ==
    /\ epoch < MaxRestarts
    /\ epoch' = epoch + 1
    /\ clients' = EmptyMap
    /\ codes' = EmptyMap
    /\ rows' = EmptyMap
    /\ requests' = [w \in Workers |-> Idle]
    /\ reply' = NoReply
    /\ UNCHANGED <<now, history>>

\* POST /oauth2/v1/register of valid metadata.
Register ==
    \E c \in DcrClients \ uuids, uris \in SUBSET RedirectUris \ {{}} :
        /\ clients' = Put(clients, c, uris)
        /\ uuids' = uuids \cup {c}
        /\ UNCHANGED <<now, epoch, codes, rows, requests, reply, consents, issuance>>

\* resolveClient(clientId) can give a registration with these redirect URIs.
ResolvesTo(clientId, uris) ==
    \/ clientId \in CimdClients /\ uris # {}
    \/ clientId \in DOMAIN clients /\ uris = clients[clientId]

\* assertClientRedirect(clientId, redirectUri) can succeed.
AllowsRedirect(clientId, redirectUri) ==
    \E uris \in SUBSET RedirectUris : ResolvesTo(clientId, uris) /\ redirectUri \in uris

-----------------------------------------------------------------------------
(* POST /oauth2/v1/authorize *)

\* The user allowed a request of a known client: create and send a code.
\* (A denied, malformed or refused request changes nothing.)
AuthorizeApprove ==
    \E c \in CodeIds \ DOMAIN consents,
       input \in [clientId : Clients, redirectUri : RedirectUris, scope : SUBSET Scopes,
                  codeChallenge : Verifiers, resource : Optional(Resources)] :
        /\ AllowsRedirect(input.clientId, input.redirectUri)
        /\ codes' = CreateCode(codes, c, input, now)
        /\ consents' = Put(consents, c, [record |-> NewCodeRecord(input, now), epoch |-> epoch])
        /\ UNCHANGED <<now, epoch, clients, rows, requests, reply, uuids, issuance>>

-----------------------------------------------------------------------------
(* POST /oauth2/v1/token, grant_type=authorization_code *)

\* The registry is read at once; a CIMD document is read when it arrives.
TokenBegin(w) ==
    /\ requests[w] = Idle
    /\ \E r \in TokenRequest :
        /\ r.code \in DOMAIN consents
        /\ r.clientId \in CimdClients \cup DOMAIN clients
        /\ requests' = [requests EXCEPT ![w] = r]
    /\ UNCHANGED <<now, epoch, stores, reply, history>>

\* The request ends with this answer.
Answer(w, answer) ==
    /\ requests' = [requests EXCEPT ![w] = Idle]
    /\ reply' = answer

\* The client cannot be resolved (a CIMD fetch fails), or its registration
\* does not list the redirect_uri: nothing else is looked at.
TokenRefuseClient(w) ==
    /\ requests[w] # Idle
    /\ LET r == requests[w] IN
        \/ /\ r.clientId \in CimdClients
           /\ Answer(w, Refusal("invalid_client", r.code))
        \/ /\ \E uris \in SUBSET RedirectUris :
                ResolvesTo(r.clientId, uris) /\ r.redirectUri \notin uris
           /\ Answer(w, Refusal("invalid_request", r.code))
    /\ UNCHANGED <<now, epoch, stores, history>>

\* codeStore.consume returns null.
TokenRefuseCode(w) ==
    /\ requests[w] # Idle
    /\ LET r == requests[w] IN
        /\ AllowsRedirect(r.clientId, r.redirectUri)
        /\ ~ConsumesCode(codes, r.code, r.clientId, r.redirectUri, now)
        /\ codes' = CodesAfterConsume(codes, r.code, r.clientId, r.redirectUri, now)
        /\ Answer(w, Refusal("invalid_grant", r.code))
    /\ UNCHANGED <<now, epoch, clients, rows, history>>

\* Why the handler refuses a code it has consumed, or "none".
RedemptionError(record, r) ==
    IF ~VerifyCodeChallenge(r.codeVerifier, record.codeChallenge)
    THEN "invalid_grant"
    ELSE IF /\ record.resource # Absent
            /\ r.resource # Absent
            /\ record.resource # r.resource
         THEN "invalid_target"
         ELSE "none"

\* The code is consumed and then the request is refused: the code is lost.
TokenBurnCode(w) ==
    /\ requests[w] # Idle
    /\ LET r == requests[w] IN
        /\ AllowsRedirect(r.clientId, r.redirectUri)
        /\ ConsumesCode(codes, r.code, r.clientId, r.redirectUri, now)
        /\ RedemptionError(codes[r.code], r) # "none"
        /\ codes' = CodesAfterConsume(codes, r.code, r.clientId, r.redirectUri, now)
        /\ Answer(w, Refusal(RedemptionError(codes[r.code], r), r.code))
    /\ UNCHANGED <<now, epoch, clients, rows, history>>

\* refreshStore.issue and localIssuer.issue of one 200 answer: the row of the
\* new refresh token, and in `issuance' what both tokens say.
IssueTokens(base, t, input, grant, parent) ==
    /\ rows' = IssueRow(base, t, input, now)
    /\ issuance' = Put(issuance, t,
                       [grant |-> grant, parent |-> parent, at |-> now, epoch |-> epoch,
                        row |-> IssueRow(base, t, input, now)[t]])

\* The code is redeemed for an access token and a refresh token of a new
\* family.  randomUUID() names the family: the model uses the fresh t itself.
TokenRedeemCode(w) ==
    /\ requests[w] # Idle
    /\ LET r == requests[w] IN
        /\ AllowsRedirect(r.clientId, r.redirectUri)
        /\ ConsumesCode(codes, r.code, r.clientId, r.redirectUri, now)
        /\ RedemptionError(codes[r.code], r) = "none"
        /\ codes' = CodesAfterConsume(codes, r.code, r.clientId, r.redirectUri, now)
        /\ \E t \in TokenIds \ DOMAIN issuance :
            /\ IssueTokens(rows, t,
                   [familyId |-> t, clientId |-> r.clientId, scope |-> codes[r.code].scope,
                    resource |-> OrElse(codes[r.code].resource, OrElse(r.resource, Resource))],
                   r.code, r.code)
            /\ Answer(w, Success(r.code, t))
    /\ UNCHANGED <<now, epoch, clients, uuids, consents>>

-----------------------------------------------------------------------------
(* POST /oauth2/v1/token, grant_type=refresh_token *)

RefreshRequest ==
    [token : TokenIds, clientId : Clients, scope : Optional(SUBSET Scopes),
     resource : Optional(Resources)]

\* Mutant: the scope asked for is taken as it is.
RotatableUnscoped(row, r) == row.clientId = r.clientId

\* The row consumed for request r is one the handler rotates.
Rotatable(row, r) ==
    /\ row.clientId = r.clientId
    /\ r.scope # Absent => r.scope \subseteq row.scope

\* refreshStore.consume returns {}: expired, revoked or already consumed.
RefreshUnknown(r) ==
    /\ ~ConsumesRow(rows, r.token, now)
    /\ rows' = RowsAfterConsume(rows, r.token, now)
    /\ reply' = Refusal("invalid_grant", r.token)
    /\ UNCHANGED issuance

\* The token belongs to another client: its family is revoked.
RefreshWrongClient(r) ==
    /\ ConsumesRow(rows, r.token, now)
    /\ rows[r.token].clientId # r.clientId
    /\ rows' = RevokeFamily(RowsAfterConsume(rows, r.token, now), rows[r.token].familyId)
    /\ reply' = Refusal("invalid_grant", r.token)
    /\ UNCHANGED issuance

\* Mutant: the scope is checked before the token is consumed.
RefreshWrongScopeEarly(r) ==
    /\ ConsumesRow(rows, r.token, now)
    /\ rows[r.token].clientId = r.clientId
    /\ ~Rotatable(rows[r.token], r)
    /\ rows' = SweepRows(rows, now)
    /\ reply' = Refusal("invalid_scope", r.token)
    /\ UNCHANGED issuance

\* A scope that was not granted: refused with the token already consumed.
RefreshWrongScope(r) ==
    /\ ConsumesRow(rows, r.token, now)
    /\ rows[r.token].clientId = r.clientId
    /\ ~Rotatable(rows[r.token], r)
    /\ rows' = RowsAfterConsume(rows, r.token, now)
    /\ reply' = Refusal("invalid_scope", r.token)
    /\ UNCHANGED issuance

\* Rotation: the next token of the family, for the scope asked for.
RefreshRotate(r) ==
    /\ ConsumesRow(rows, r.token, now)
    /\ Rotatable(rows[r.token], r)
    /\ \E t \in TokenIds \ DOMAIN issuance :
        /\ IssueTokens(RowsAfterConsume(rows, r.token, now), t,
               [familyId |-> rows[r.token].familyId, clientId |-> r.clientId,
                scope |-> OrElse(r.scope, rows[r.token].scope),
                resource |-> OrElse(r.resource, rows[r.token].resource)],
               issuance[r.token].grant, r.token)
        /\ reply' = Success(r.token, t)

\* A request presents a token it was once given.
RefreshGrant ==
    /\ \E r \in RefreshRequest :
        /\ r.token \in DOMAIN issuance
        /\ \/ RefreshUnknown(r)
           \/ RefreshWrongClient(r)
           \/ RefreshWrongScope(r)
           \/ RefreshRotate(r)
    /\ UNCHANGED <<now, epoch, clients, codes, requests, uuids, consents>>

-----------------------------------------------------------------------------
TokenResume(w) ==
    \/ TokenRefuseClient(w)
    \/ TokenRefuseCode(w)
    \/ TokenBurnCode(w)
    \/ TokenRedeemCode(w)

Next ==
    \/ Tick
    \/ Restart
    \/ Register
    \/ AuthorizeApprove
    \/ \E w \in Workers : TokenBegin(w) \/ TokenResume(w)
    \/ RefreshGrant

Spec == Init /\ [][Next]_vars

-----------------------------------------------------------------------------
(* What the state means *)

\* The credentials of consent g that a store still holds.
Held(g) ==
    (DOMAIN codes \cap {g}) \cup {t \in DOMAIN rows : issuance[t].grant = g}

\* Those the token endpoint would still take: they have not expired.
Redeemable(g) ==
    {k \in Held(g) : IF k \in CodeIds THEN ~ExpiredCode(codes, k, now)
                                      ELSE ConsumesRow(rows, k, now)}

\* The access token sent along with refresh token t.
AccessToken(t) ==
    IssueAccess(issuance[t].row, issuance[t].epoch, issuance[t].at)

\* The protected resource accepts it (auth.ts validates with no scopes).
Accepted(t) == ValidateAccess(AccessToken(t), epoch, {}, now) = "ok"

\* When the credential k was handed out, and with which scope.
HandedOutAt(k) == IF k \in CodeIds THEN consents[k].record.createdAt ELSE issuance[k].at
ScopeOf(k)     == IF k \in CodeIds THEN consents[k].record.scope ELSE issuance[k].row.scope

-----------------------------------------------------------------------------
(* Properties *)

\* The shape of the state.
TypeOK ==
    /\ now \in 0..MaxTime
    /\ epoch \in 0..MaxRestarts
    /\ IsMap(clients, DcrClients, SUBSET RedirectUris)
    /\ IsMap(codes, CodeIds, CodeRecord)
    /\ IsMap(rows, TokenIds, Row)
    /\ requests \in [Workers -> TokenRequest \cup {Idle}]
    /\ reply \in Reply
    /\ uuids \subseteq DcrClients
    /\ IsMap(consents, CodeIds, Consent)
    /\ IsMap(issuance, TokenIds, Issuance)

\* One consent, one credential: however requests interleave, the stores never
\* hold two credentials that descend from the same consent, be they a code
\* and a refresh token or two refresh tokens.  (Double submission of a code
\* while resolveClient is awaited; consume-then-issue of both grants.)
OneCredentialPerConsent ==
    \A g \in DOMAIN consents : \A k, l \in Held(g) : k = l

\* Token t says no more than what it was exchanged for.
TokenTraces(t) ==
    LET i == issuance[t] IN
    /\ i.row.clientId = consents[i.grant].record.clientId
    /\ i.row.scope \subseteq ScopeOf(i.parent)
    /\ i.epoch = consents[i.grant].epoch
    /\ (i.parent = i.grant /\ consents[i.grant].record.resource # Absent)
        => i.row.resource = consents[i.grant].record.resource

\* A token never says more than the consent it comes from: same client, a
\* scope the parent credential already had, and (for the code's own exchange)
\* the resource the code was bound to.  (Parameters captured before an await
\* against a record read after it; downscoping along a chain of rotations.)
TokensTraceToConsent == \A t \in DOMAIN issuance : TokenTraces(t)

\* A credential is exchanged within its own lifetime, at the instant of the
\* exchange and not of the request: a code up to and including its expiry,
\* a refresh token strictly before it.  (A code that expires while its
\* request waits for the client's metadata.)
ExchangedInTime ==
    \A t \in DOMAIN issuance :
        LET k == issuance[t].parent
            age == issuance[t].at - HandedOutAt(k) IN
        IF k \in CodeIds THEN age <= CodeTtl ELSE age < RefreshTtl

\* No credential is exchanged twice: two tokens never have the same parent.
ExchangedOnce ==
    \A t, u \in DOMAIN issuance : issuance[t].parent = issuance[u].parent => t = u

\* A restart forces every client to authorize again (docs/SECURITY.md:81):
\* whatever is still redeemable, and every access token still accepted, comes
\* from a consent given to the running process.
RestartForcesReauthorization ==
    /\ \A g \in DOMAIN consents : Redeemable(g) # {} => consents[g].epoch = epoch
    /\ \A t \in DOMAIN issuance : Accepted(t) => consents[issuance[t].grant].epoch = epoch

\* Once presented, a refresh token is no longer in the store, whatever the
\* answer was: refused for its client or its scope, it is lost too, and its
\* family with it.
PresentedTokenIsSpent ==
    reply # NoReply /\ reply.presented \in TokenIds =>
        /\ reply.presented \notin DOMAIN rows
        /\ reply.outcome = "invalid_scope" => Held(issuance[reply.presented].grant) = {}

\* A code leaves the store only because it expired, the process restarted, or
\* a request with its own client_id and redirect_uri was answered: a request
\* of another client cannot burn it.
StrangersCannotBurnCodes ==
    [][\A c \in DOMAIN codes \ DOMAIN codes' :
        \/ now > codes[c].expiresAt
        \/ epoch' # epoch
        \/ \E w \in Workers :
            /\ requests[w] # Idle /\ requests'[w] = Idle
            /\ requests[w].code = c
            /\ requests[w].clientId = consents[c].record.clientId
            /\ requests[w].redirectUri = consents[c].record.redirectUri]_vars

\* A first token is minted only by a request that proves possession of the
\* verifier whose hash the consent was given with, through the redirect URI
\* of the consent; whoever else raced for the code got nothing.
OnlyVerifierRedeems ==
    [][\A t \in DOMAIN issuance' \ DOMAIN issuance :
        LET g == issuance'[t].grant IN
        issuance'[t].parent = g =>
            \E w \in Workers :
                /\ requests[w] # Idle /\ requests'[w] = Idle
                /\ requests[w].code = g
                /\ requests[w].codeVerifier = consents[g].record.codeChallenge
                /\ requests[w].codeVerifier \notin BadVerifiers
                /\ requests[w].redirectUri = consents[g].record.redirectUri]_vars

\* The credential consent g can be continued with, and what it allows.
Holder(g) == IF Redeemable(g) = {} THEN Absent ELSE CHOOSE k \in Redeemable(g) : TRUE
Power(g)  == UNION {ScopeOf(k) : k \in Redeemable(g)}

\* The server keeps the promises of ConsentLedger: one redeemable credential
\* per consent, replaced by fresh ones of no more power, never back once gone.
Ledger == INSTANCE ConsentLedger WITH
    Grants      <- CodeIds,
    Credentials <- CodeIds \cup TokenIds,
    Powers      <- Scopes,
    None        <- Absent,
    approved    <- DOMAIN consents,
    drawn       <- DOMAIN consents \cup DOMAIN issuance,
    holder      <- [g \in CodeIds |-> Holder(g)],
    power       <- [g \in CodeIds |-> Power(g)]

ImplementsLedger == Ledger!Spec

-----------------------------------------------------------------------------
(* The inductive invariant: what links the stores to the history *)

\* A stored record is the one that was handed out, in this incarnation of
\* the process, and dies its time to live later.
StoresAgree ==
    /\ \A c \in DOMAIN codes :
        /\ c \in DOMAIN consents
        /\ codes[c] = consents[c].record
        /\ consents[c].epoch = epoch
    /\ \A t \in DOMAIN rows :
        /\ t \in DOMAIN issuance
        /\ rows[t] = issuance[t].row
        /\ issuance[t].epoch = epoch

Lifetimes ==
    /\ \A c \in DOMAIN consents :
        consents[c].record.expiresAt = consents[c].record.createdAt + CodeTtl
    /\ \A t \in DOMAIN issuance :
        issuance[t].row.expiresAt = issuance[t].at + RefreshTtl

\* A token descends from a code that was created, through credentials that
\* were handed out; what was exchanged is gone from the stores for good.
Lineage ==
    \A t \in DOMAIN issuance :
        LET i == issuance[t] IN
        /\ i.grant \in DOMAIN consents \ DOMAIN codes
        /\ \/ i.parent = i.grant
           \/ /\ i.parent \in DOMAIN issuance \ DOMAIN rows
              /\ issuance[i.parent].grant = i.grant

IInv ==
    /\ TypeOK
    /\ StoresAgree
    /\ Lifetimes
    /\ Lineage
    /\ OneCredentialPerConsent
    /\ TokensTraceToConsent
    /\ ExchangedInTime
    /\ ExchangedOnce

=============================================================================
