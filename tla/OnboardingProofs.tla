-------------------------- MODULE OnboardingProofs --------------------------
(***************************************************************************)
(* The client of a willing user is refused by a well-configured server only  *)
(* because of a restart, on every deployment.                               *)
(*                                                                          *)
(* That is not inductive: what the client carries from one request to the    *)
(* next has to be what the server gave it.  IInv says so of each thing it    *)
(* carries: the URL (OnItsWay), the form and the code (AskedFor,             *)
(* Remembered), the token (TokenTraces), the route (Routed).                 *)
(***************************************************************************)
EXTENDS Onboarding, MapLemmas

-----------------------------------------------------------------------------
(* Deployments *)

\* A URL that has no terminal slash is not changed by dropping it.
LEMMA NoSlash ==
    ASSUME NEW o, NEW p, NEW s, NEW q, NEW r,
           r = [origin |-> o, path |-> p, slash |-> s, query |-> q]
    PROVE  [r EXCEPT !.slash = s] = r
  <1>1. [r EXCEPT !.slash = s] = [origin |-> o, path |-> p, slash |-> s, query |-> q]
    OBVIOUS
  <1>2. QED
    BY <1>1

\* The metadata of a default resource is at a URL of the same parts, which the
\* route recognises.
LEMMA DefaultResourceUrl ==
    ASSUME NEW o
    PROVE  /\ WellKnownUrlForResource(DefaultResource(o)) = DefaultResource(o)
           /\ IsWellKnownPath(DefaultResource(o))
  <1>1. ASSUME NEW r, r = DefaultResource(o)
        PROVE  [r EXCEPT !.slash = ""] = r /\ r.path = "/mcp"
    <2>1. r = [origin |-> o, path |-> "/mcp", slash |-> "", query |-> ""]
      BY <1>1 DEF DefaultResource, Url
    <2>2. [r EXCEPT !.slash = ""] = r
      BY <2>1, NoSlash, Zenon
    <2>3. QED
      BY <2>1, <2>2
  <1>2. QED
    BY <1>1 DEF WellKnownUrlForResource, IsWellKnownPath

\* The URLs of a well-configured deployment lead where they should.
LEMMA WellConfiguredUrls ==
    ASSUME NEW d \in Deployments, WellConfigured(d)
    PROVE  /\ WellKnownUrlForResource(d.endpoint) = d.endpoint
           /\ IsWellKnownPath(d.endpoint)
           /\ ProtectedResourceMetadata(d, d.endpoint).resource = d.endpoint
           /\ RoutesAt(d, PublishedIssuer(d))
           /\ d.servers = {} => PublishedIssuer(d) = DefaultIssuer(d.endpoint.origin)
           /\ Starts(d)
  <1>1. /\ d.mode = "local" /\ d.endpoint = DefaultResource(d.endpoint.origin)
        /\ d.endpoint.origin.scheme = "http" \/ d.forwarded
        /\ d.issuer.origin \in d.reaches /\ d.issuer.path = "" /\ d.issuer.query = ""
        /\ d.servers = {} => d.issuer.origin = d.endpoint.origin
    BY DEF WellConfigured, RoutesAt
  <1>2. /\ d.endpoint.origin = Origin(d.endpoint.origin.scheme, d.endpoint.origin.host)
        /\ d.issuer = Url(d.issuer.origin, d.issuer.path, d.issuer.slash, d.issuer.query)
    BY DeploymentsAssumption
  <1>3. WellKnownUrlForResource(d.endpoint) = d.endpoint
    BY <1>1, DefaultResourceUrl, Zenon
  <1>4. IsWellKnownPath(d.endpoint)
    BY <1>1, DefaultResourceUrl, Zenon
  <1>5. AsRequested(d, d.endpoint) = d.endpoint
    <2>1. [d.endpoint.origin EXCEPT !.scheme = d.endpoint.origin.scheme] = d.endpoint.origin
      BY <1>2 DEF Origin
    <2>2. AsRequested(d, d.endpoint)
            = [d.endpoint EXCEPT !.origin = [d.endpoint.origin EXCEPT !.scheme = d.endpoint.origin.scheme]]
      BY <1>1 DEF AsRequested
    <2>3. QED
      BY <1>1, <2>1, <2>2 DEF DefaultResource, Url
  <1>6. ProtectedResourceMetadata(d, d.endpoint).resource = d.endpoint
    BY <1>5 DEF ProtectedResourceMetadata, ResourceFromWellKnown
  <1>7. PublishedIssuer(d) = Url(d.issuer.origin, "", "", "")
    BY <1>1, <1>2 DEF PublishedIssuer, StripTrailingSlash, Url
  <1>8. RoutesAt(d, PublishedIssuer(d))
    <2>1. PublishedIssuer(d).origin = d.issuer.origin /\ PublishedIssuer(d).path = ""
      <3>1. \A o : Url(o, "", "", "").origin = o /\ Url(o, "", "", "").path = ""
        BY DEF Url
      <3>2. QED
        BY <1>7, <3>1, Zenon
    <2>2. QED
      BY <1>1, <2>1 DEF RoutesAt
  <1>9. d.servers = {} => PublishedIssuer(d) = DefaultIssuer(d.endpoint.origin)
    BY <1>1, <1>7 DEF DefaultIssuer
  <1>10. Starts(d)
    BY <1>1 DEF Starts
  <1>11. QED
    BY <1>3, <1>4, <1>6, <1>8, <1>9, <1>10

\* The endpoint of a well-configured deployment is behind the gate.
LEMMA WellConfiguredRoute ==
    WellConfigured(deployment) => EndpointRoute = "gate"
  BY DEF WellConfigured, EndpointRoute, Config, Route

\* A token of this process and of the configured resource passes the gate.
LEMMA TokenPasses ==
    ASSUME TypeOK, token # None, token.key = epoch, deployment.resource \in token.aud
    PROVE  GateAnswer = "ok"
  <1>1. token \in Token(deployment)
    BY DEF TypeOK
  <1>2. token # NoBearer
    BY <1>1, DeploymentsAssumption DEF TypeOK
  <1>3. token.iss = PublishedIssuer(deployment) /\ token.exp = 1 /\ token.nbf = 0
    BY <1>1 DEF Token
  <1>4. Tokens!ValidateAccess(token, epoch, {}, 0) = "ok"
    BY <1>3 DEF Tokens!ValidateAccess, Tokens!ValidateClaims
  <1>5. QED
    BY <1>2, <1>4 DEF GateAnswer, CheckAuth

\* Without a token the answer of the gate depends on the deployment only.
LEMMA GateWithoutToken ==
    ASSUME token = None, token' = None, UNCHANGED given
    PROVE  GateAnswer' = GateAnswer
  BY DEF GateAnswer, CheckAuth, Config, given, MustAuthenticate

\* No step touches the deployment, so none changes what follows from it.
LEMMA GivenStays ==
    [Next]_vars =>
        /\ UNCHANGED <<deployment, user, indicates, enforces>>
        /\ UNCHANGED <<EndpointRoute, Indicated, Page, CodeRecord>>
  <1> SUFFICES ASSUME [Next]_vars
               PROVE  /\ UNCHANGED <<deployment, user, indicates, enforces>>
                      /\ UNCHANGED <<EndpointRoute, Indicated, Page, CodeRecord>>
    OBVIOUS
  <1>1. UNCHANGED given
    BY DEF Next, ClientStep, vars, Probe, Present, FetchResourceMetadata, FetchServerMetadata,
           RegisterClient, OpenConsent, Decide, Redeem, StartOver, Restart
  <1>2. UNCHANGED <<deployment, user, indicates, enforces>>
    BY <1>1 DEF given
  <1>3. QED
    BY <1>2 DEF EndpointRoute, Config, Indicated, Page, CodeRecord, Urls

-----------------------------------------------------------------------------
(* What a code and a token are made of *)

\* The code made of a page that asks for what the client asked for.
LEMMA CodeOfPage ==
    ASSUME TypeOK, page \in Page, NEW c \in CodeIds
    PROVE  LET made == CreateCode(codes, c, page, 0) IN
           /\ IsMap(made, CodeIds, CodeRecord)
           /\ c \in DOMAIN made
           /\ \A k \in DOMAIN made :
                made[k].resource = page.resource \/ (k \in DOMAIN codes /\ made[k] = codes[k])
  <1>. DEFINE record == NewCodeRecord(page, 0)
              put    == Put(codes, c, record)
              kept   == {k \in DOMAIN put : ~(0 > put[k].expiresAt)}
  <1>1. IsMap(codes, CodeIds, CodeRecord)
    BY DEF TypeOK
  <1>2. record \in CodeRecord /\ record.resource = page.resource
    BY CodeTtlAssumption DEF NewCodeRecord, Page, CodeRecord
  <1>3. /\ IsMap(put, CodeIds, CodeRecord)
        /\ DOMAIN put = DOMAIN codes \cup {c} /\ put[c] = record
        /\ \A k \in DOMAIN codes \ {c} : put[k] = codes[k]
    <2>1. IsMap(put, CodeIds, CodeRecord)
      BY <1>1, <1>2, PutIsMap
    <2>2. QED
      BY <2>1 DEF Put
  <1>4. c \in kept
    BY <1>2, <1>3, CodeTtlAssumption DEF CodeRecord
  <1>5. CreateCode(codes, c, page, 0) = Restrict(put, kept)
    BY DEF CreateCode, SweepCodes
  <1>6. IsMap(Restrict(put, kept), CodeIds, CodeRecord)
    BY <1>3, RestrictIsMap
  <1>7. /\ DOMAIN Restrict(put, kept) = kept
        /\ \A k \in kept : Restrict(put, kept)[k] = put[k]
    BY DEF Restrict
  <1>. HIDE DEF put, kept, record
  <1>8. kept \subseteq DOMAIN codes \cup {c}
    BY <1>3 DEF kept
  <1>9. \A k \in kept :
            put[k].resource = page.resource \/ (k \in DOMAIN codes /\ put[k] = codes[k])
    BY <1>2, <1>3, <1>8
  <1>10. QED
    BY <1>4, <1>5, <1>6, <1>7, <1>9

\* The token a code is exchanged for.
LEMMA TokenOfCode ==
    ASSUME TypeOK, AskedFor, code \in DOMAIN codes,
           NEW t, t = Tokens!IssueAccess([resource |-> EffectiveResource(codes[code], Indicated),
                                         scope |-> codes[code].scope], epoch, 0)
    PROVE  /\ t \in Token(deployment) /\ t # None
           /\ t.key = epoch
           /\ t.aud = {OrElse(Indicated, deployment.resource)}
  <1>1. codes[code] \in CodeRecord /\ codes[code].resource = Indicated
    BY DEF TypeOK, IsMap, AskedFor
  <1>2. EffectiveResource(codes[code], Indicated) = OrElse(Indicated, deployment.resource)
    BY <1>1 DEF EffectiveResource, OrElse
  <1>3. OrElse(Indicated, deployment.resource) \in Urls(deployment)
    BY DEF OrElse, Indicated, Urls
  <1>4. t = [iss |-> PublishedIssuer(deployment), aud |-> {OrElse(Indicated, deployment.resource)},
             nbf |-> 0, exp |-> 0 + 1, scope |-> codes[code].scope, key |-> epoch]
    BY <1>2 DEF Tokens!IssueAccess
  <1>5. codes[code].scope \in Grants /\ epoch \in 0..MaxRestarts /\ 0 + 1 = 1
    BY <1>1 DEF CodeRecord, TypeOK
  <1>6. t \in Token(deployment)
    BY <1>3, <1>4, <1>5 DEF Token
  <1>7. QED
    BY <1>4, <1>6, DeploymentsAssumption DEF TypeOK

-----------------------------------------------------------------------------
(* Every step keeps the invariant *)

\* The inductive invariant holds initially.
LEMMA InitIInv == Init => IInv
  <1> SUFFICES ASSUME Init PROVE IInv
    OBVIOUS
  <1>1. IsMap(codes, CodeIds, CodeRecord) /\ DOMAIN codes = {}
    BY EmptyIsMap DEF Init
  <1>2. phase \in {"down", "start"}
    BY DEF Init
  <1>3. TypeOK
    BY <1>1, <1>2, OnboardingAssumption DEF Init, TypeOK, Phases
  <1>4. Routed /\ TokenTraces /\ AskedFor /\ Remembered /\ OnItsWay /\ AskedInVain
    BY <1>1, <1>2
       DEF Init, Routed, TokenTraces, AskedFor, Remembered, OnItsWay, AskedInVain
  <1>5. QED
    BY <1>3, <1>4 DEF IInv

\* Every step keeps the shape of the state.
LEMMA TypeStep == IInv /\ [Next]_vars => TypeOK'
  <1> SUFFICES ASSUME IInv, [Next]_vars PROVE TypeOK'
    OBVIOUS
  <1>1. /\ TypeOK /\ AskedFor /\ Remembered
        /\ UNCHANGED <<deployment, user, indicates, enforces, Page, CodeRecord>>
    BY GivenStays DEF IInv
  <1>2. CASE \/ Probe \/ Present \/ FetchResourceMetadata \/ FetchServerMetadata
             \/ RegisterClient \/ StartOver
    <2>1. \/ UNCHANGED <<epoch, codes, page, code, token>>
          \/ UNCHANGED <<epoch, codes>> /\ <<page, code, token>>' = <<None, None, None>>
      BY <1>2 DEF Probe, Present, FetchResourceMetadata, FetchServerMetadata, RegisterClient,
                  StartOver, server
    <2>2. phase' \in Phases /\ registered' \subseteq {ClientId} /\ attempt' \in 0..epoch'
      BY <1>1, <1>2 DEF Probe, Present, FetchResourceMetadata, FetchServerMetadata,
                        RegisterClient, StartOver, server, TypeOK, Phases
    <2>3. QED
      BY <1>1, <2>1, <2>2 DEF TypeOK
  <1>3. CASE OpenConsent
    <2>1. ASSUME NEW scope \in {None} \cup SUBSET Scopes
          PROVE  ConsentPage(scope) \in Page
      <3>1. OrElse(scope, {"mcp:read"}) \in Grants
        BY <2>1 DEF OrElse, Grants
      <3>2. Indicated \in Urls(deployment) \cup {None}
        BY DEF Indicated, Urls
      <3>3. QED
        BY <3>1, <3>2 DEF ConsentPage, Page
    <2>2. page' \in Page \cup {None} /\ phase' \in Phases
      BY <1>1, <1>3, <2>1 DEF OpenConsent, TypeOK, Phases
    <2>3. QED
      BY <1>1, <1>3, <2>2 DEF OpenConsent, TypeOK, server
  <1>4. CASE Decide
    <2>1. page \in Page
      BY <1>1, <1>4 DEF Decide, AskedFor
    <2>2. IsMap(codes', CodeIds, CodeRecord) /\ code' \in CodeIds \cup {None} /\ phase' \in Phases
      BY <1>1, <1>4, <2>1, CodeOfPage DEF Decide, TypeOK, Phases
    <2>3. QED
      BY <1>1, <1>4, <2>2 DEF Decide, TypeOK
  <1>5. CASE Redeem
    <2>1. IsMap(codes', CodeIds, CodeRecord)
      BY <1>1, <1>5, WithoutIsMap DEF Redeem, CodesAfterConsume, TypeOK
    <2>2. token' \in Token(deployment) \cup {None} /\ phase' \in Phases
      BY <1>1, <1>5, TokenOfCode DEF Redeem, ConsumesCode, TypeOK, Phases
    <2>3. QED
      BY <1>1, <1>5, <2>1, <2>2 DEF Redeem, TypeOK
  <1>6. CASE Restart
    <2>1. epoch' \in 0..MaxRestarts /\ attempt \in 0..epoch'
      BY <1>1, <1>6, OnboardingAssumption DEF Restart, TypeOK
    <2>2. IsMap(codes', CodeIds, CodeRecord)
      BY <1>6, EmptyIsMap DEF Restart
    <2>3. QED
      BY <1>1, <1>6, <2>1, <2>2 DEF Restart, TypeOK
  <1>7. CASE UNCHANGED vars
    BY <1>1, <1>7 DEF vars, given, server, TypeOK
  <1>8. QED
    BY <1>2, <1>3, <1>4, <1>5, <1>6, <1>7 DEF Next, ClientStep

\* Whoever is past the start came by the route, and past the gate.
LEMMA RoutedStep == IInv /\ [Next]_vars => Routed'
  <1> SUFFICES ASSUME IInv, [Next]_vars PROVE Routed'
    OBVIOUS
  <1>1. /\ Routed /\ TokenTraces /\ UNCHANGED <<deployment, user, indicates, enforces, EndpointRoute>>
    BY GivenStays DEF IInv
  <1>2. phase' \notin {"down", "start", "refused"} => EndpointRoute' = "gate"
    BY <1>1 DEF Routed, TokenTraces, Next, ClientStep, vars, Probe, Present, FetchResourceMetadata,
                FetchServerMetadata, RegisterClient, OpenConsent, Decide, Redeem, StartOver, Restart
  <1>3. ASSUME phase' = "connected", token' = None
        PROVE  GateAnswer' = "ok"
    <2>1. token = None /\ GateAnswer = "ok"
      BY <1>1, <1>3
         DEF Routed, TokenTraces, Next, ClientStep, vars, Probe, Present, FetchResourceMetadata,
             FetchServerMetadata, RegisterClient, OpenConsent, Decide, Redeem, StartOver, Restart
    <2>2. QED
      BY <1>1, <1>3, <2>1, GateWithoutToken DEF given
  <1>4. QED
    BY <1>2, <1>3 DEF Routed

\* A token is of this attempt and for the resource that was asked for.
LEMMA TracesStep == IInv /\ [Next]_vars => TokenTraces'
  <1> SUFFICES ASSUME IInv, [Next]_vars PROVE TokenTraces'
    OBVIOUS
  <1>1. /\ TypeOK /\ Routed /\ TokenTraces /\ AskedFor
        /\ UNCHANGED <<deployment, user, indicates, enforces, EndpointRoute, Indicated>>
    BY GivenStays DEF IInv
  <1>2. attempt \in 0..epoch /\ epoch \in Nat
    BY <1>1, OnboardingAssumption DEF TypeOK
  <1>3. UNCHANGED OrElse(Indicated, deployment.resource)
    BY <1>1 DEF OrElse
  <1>4. CASE \/ Probe \/ Present \/ FetchResourceMetadata \/ FetchServerMetadata
             \/ RegisterClient \/ OpenConsent \/ Decide
    <2>1. UNCHANGED <<epoch, attempt, token>>
      BY <1>4 DEF Probe, Present, FetchResourceMetadata, FetchServerMetadata, RegisterClient,
                  OpenConsent, Decide, server
    <2>2. /\ phase' # "connect"
          /\ token # None => phase' \in {"connected", "refused"}
      BY <1>1, <1>4 DEF Probe, Present, FetchResourceMetadata, FetchServerMetadata, RegisterClient,
                        OpenConsent, Decide, TokenTraces
    <2>3. QED
      BY <1>1, <1>3, <2>1, <2>2 DEF TokenTraces
  <1>5. CASE Redeem
    <2>1. token = None
      BY <1>1, <1>5 DEF Redeem, TokenTraces
    <2>2. EndpointRoute = "gate"
      BY <1>1, <1>5 DEF Redeem, Routed
    <2>3. CASE ConsumesCode(codes, code, ClientId, Callback, 0) /\ phase' = "connect"
      <3>1. /\ code \in DOMAIN codes
            /\ token' = Tokens!IssueAccess([resource |-> EffectiveResource(codes[code], Indicated),
                                            scope |-> codes[code].scope], epoch, 0)
        BY <1>5, <2>3 DEF Redeem, ConsumesCode
      <3>2. token' # None /\ token'.key = epoch
            /\ token'.aud = {OrElse(Indicated, deployment.resource)}
        BY <1>1, <3>1, TokenOfCode
      <3>3. epoch' = epoch /\ attempt' = attempt
        BY <1>5 DEF Redeem
      <3>4. QED
        BY <1>1, <1>2, <1>3, <2>2, <2>3, <3>2, <3>3 DEF TokenTraces
    <2>4. CASE phase' = "refused" /\ UNCHANGED token
      BY <2>1, <2>4 DEF TokenTraces
    <2>5. QED
      BY <1>5, <2>3, <2>4 DEF Redeem
  <1>6. CASE StartOver
    BY <1>6 DEF StartOver, TokenTraces
  <1>7. CASE Restart
    <2>1. epoch' = epoch + 1 /\ UNCHANGED <<phase, attempt, token>>
      BY <1>7 DEF Restart
    <2>2. attempt..epoch \subseteq attempt'..epoch'
      BY <1>2, <2>1
    <2>3. QED
      BY <1>1, <1>3, <2>1, <2>2 DEF TokenTraces
  <1>8. CASE UNCHANGED vars
    BY <1>1, <1>3, <1>8 DEF vars, server, TokenTraces
  <1>9. QED
    BY <1>4, <1>5, <1>6, <1>7, <1>8 DEF Next, ClientStep

\* The form and the codes ask for what the client asked for.
LEMMA AskedForStep == IInv /\ [Next]_vars => AskedFor'
  <1> SUFFICES ASSUME IInv, [Next]_vars PROVE AskedFor'
    OBVIOUS
  <1>1. TypeOK /\ AskedFor /\ UNCHANGED <<Indicated, Page>>
    BY GivenStays DEF IInv
  <1>2. ASSUME phase' = "consent"
        PROVE  page' \in Page /\ page'.resource = Indicated
    <2>1. CASE OpenConsent
      <3>1. PICK scope \in {None} \cup SUBSET Scopes : page' = ConsentPage(scope)
        BY <1>2, <2>1 DEF OpenConsent
      <3>2. page'.resource = Indicated
        BY <3>1 DEF ConsentPage
      <3>3. OrElse(scope, {"mcp:read"}) \in Grants
        BY DEF OrElse, Grants
      <3>4. Indicated \in Urls(deployment) \cup {None}
        BY DEF Indicated, Urls
      <3>5. QED
        BY <3>1, <3>2, <3>3, <3>4 DEF ConsentPage, Page
    <2>2. CASE ~OpenConsent
      <3>1. phase = "consent" /\ page' = page
        BY <1>2, <2>2 DEF Next, ClientStep, vars, Probe, Present, FetchResourceMetadata,
                          FetchServerMetadata, RegisterClient, Decide, Redeem, StartOver, Restart
      <3>2. QED
        BY <1>1, <3>1 DEF AskedFor
    <2>3. QED
      BY <2>1, <2>2
  <1>3. \A c \in DOMAIN codes' : codes'[c].resource = Indicated
    <2>1. CASE Decide
      BY <1>1, <2>1, CodeOfPage DEF Decide, AskedFor
    <2>2. CASE Redeem
      BY <1>1, <2>2 DEF Redeem, CodesAfterConsume, Without, Restrict, AskedFor
    <2>3. CASE Restart
      BY <2>3 DEF Restart, EmptyMap
    <2>4. CASE UNCHANGED codes
      BY <1>1, <2>4 DEF AskedFor
    <2>5. QED
      BY <2>1, <2>2, <2>3, <2>4
         DEF Next, ClientStep, vars, server, Probe, Present, FetchResourceMetadata,
             FetchServerMetadata, RegisterClient, OpenConsent, StartOver
  <1>4. QED
    BY <1>1, <1>2, <1>3 DEF AskedFor

\* What the client was given in this attempt is still good.
LEMMA RememberedStep == IInv /\ [Next]_vars => Remembered'
  <1> SUFFICES ASSUME IInv, [Next]_vars, attempt' = epoch'
               PROVE  /\ phase' \in {"authorize", "consent", "redeem"} => ClientId \in registered'
                      /\ phase' = "redeem" => code' \in DOMAIN codes'
    BY DEF Remembered
  <1>1. TypeOK /\ AskedFor /\ Remembered
    BY DEF IInv
  <1>2. CASE \/ Probe \/ Present \/ FetchResourceMetadata \/ FetchServerMetadata
             \/ RegisterClient \/ OpenConsent \/ Redeem \/ StartOver \/ UNCHANGED vars
    <2>1. UNCHANGED <<epoch, codes, registered>> \/ RegisterClient \/ Redeem
      BY <1>2 DEF vars, server, Probe, Present, FetchResourceMetadata, FetchServerMetadata,
                  OpenConsent, StartOver
    <2>2. QED
      BY <1>1, <1>2, <2>1 DEF Remembered, vars, Probe, Present, FetchResourceMetadata,
                              FetchServerMetadata, RegisterClient, OpenConsent, Redeem, StartOver
  <1>3. CASE Decide
    BY <1>1, <1>3, CodeOfPage DEF Decide, AskedFor, Remembered
  <1>4. CASE Restart
    BY <1>1, <1>4, OnboardingAssumption DEF Restart, TypeOK
  <1>5. QED
    BY <1>2, <1>3, <1>4 DEF Next, ClientStep

\* On a well-configured server every step of an attempt leads on.
LEMMA OnItsWayStep == IInv /\ [Next]_vars => OnItsWay'
  <1> SUFFICES ASSUME IInv, [Next]_vars, WellConfigured(deployment)', user' = "willing", attempt' = epoch'
               PROVE  /\ phase' # "refused"
                      /\ phase' = "metadata" => url' = deployment'.endpoint
                      /\ phase' = "issuer" => url' = PublishedIssuer(deployment')
    BY DEF OnItsWay
  <1>1. /\ TypeOK /\ Routed /\ TokenTraces /\ AskedFor /\ Remembered /\ OnItsWay
        /\ UNCHANGED <<deployment, user, indicates, enforces>>
    BY GivenStays DEF IInv
  <1>2. WellConfigured(deployment) /\ user = "willing" /\ deployment \in Deployments
    BY <1>1 DEF TypeOK
  <1>3. /\ deployment.mode = "local" /\ deployment.resource = deployment.endpoint
        /\ deployment.servers # {} => deployment.servers = {PublishedIssuer(deployment)}
        /\ deployment.endpoint.origin \in deployment.reaches
    BY <1>2, DeploymentsAssumption DEF WellConfigured
  <1>4. CASE StartOver
    BY <1>4 DEF StartOver
  <1>5. CASE Restart
    BY <1>1, <1>5, OnboardingAssumption DEF Restart, TypeOK
  <1>6. CASE UNCHANGED vars
    BY <1>1, <1>2, <1>6 DEF vars, given, server, OnItsWay
  <1>. SUFFICES ASSUME ClientStep, ~StartOver
               PROVE  /\ phase' # "refused"
                      /\ phase' = "metadata" => url' = deployment.endpoint
                      /\ phase' = "issuer" => url' = PublishedIssuer(deployment)
    BY <1>1, <1>4, <1>5, <1>6 DEF Next
  <1>7. attempt = epoch
    BY DEF ClientStep, Probe, Present, FetchResourceMetadata, FetchServerMetadata, RegisterClient,
           OpenConsent, Decide, Redeem, server
  <1>8. CASE Probe
    <2>1. phase' = "metadata" =>
            url' \in {WellKnownUrlForResource(deployment.resource),
                     WellKnownUrlForResource(deployment.endpoint)}
      BY <1>8 DEF Probe, ChallengeMetadata
    <2>2. phase' \in {"metadata", "connected"}
      BY <1>2, <1>8, WellConfiguredRoute DEF Probe
    <2>3. QED
      BY <1>2, <1>3, <2>1, <2>2, WellConfiguredUrls
  <1>9. CASE Present
    <2>1. CASE token = None
      <3>1. phase = "connected"
        BY <1>1, <1>9, <2>1 DEF Present, TokenTraces
      <3>2. QED
        BY <1>1, <1>2, <1>9, <2>1, <3>1, WellConfiguredRoute DEF Present, Routed
    <2>2. CASE token # None
      <3>1. token.key \in epoch..epoch /\ epoch \in Int
            /\ token.aud = {OrElse(Indicated, deployment.resource)}
        BY <1>1, <1>7, <2>2, OnboardingAssumption DEF TokenTraces, TypeOK
      <3>2. token.key = epoch
        BY <3>1
      <3>3. OrElse(Indicated, deployment.resource) = deployment.resource
        BY <1>3 DEF OrElse, Indicated
      <3>4. GateAnswer = "ok"
        BY <1>1, <2>2, <3>1, <3>2, <3>3, TokenPasses
      <3>5. QED
        BY <1>2, <1>9, <3>4, WellConfiguredRoute DEF Present
    <2>3. QED
      BY <2>1, <2>2
  <1>10. CASE FetchResourceMetadata
    <2>1. url = deployment.endpoint
      BY <1>1, <1>2, <1>7, <1>10 DEF FetchResourceMetadata, OnItsWay
    <2>2. ~(\/ url.origin \notin deployment.reaches \/ ~IsWellKnownPath(url)
            \/ ProtectedResourceMetadata(deployment, url).resource # deployment.endpoint)
      BY <1>2, <1>3, <2>1, WellConfiguredUrls
    <2>3. /\ phase' = "issuer"
          /\ url' \in IF deployment.servers = {} THEN {DefaultIssuer(deployment.endpoint.origin)}
                                                ELSE deployment.servers
      BY <1>10, <2>2 DEF FetchResourceMetadata, ProtectedResourceMetadata
    <2>4. QED
      BY <1>2, <1>3, <2>3, WellConfiguredUrls
  <1>11. CASE FetchServerMetadata
    <2>1. url = PublishedIssuer(deployment)
      BY <1>1, <1>2, <1>7, <1>11 DEF FetchServerMetadata, OnItsWay
    <2>2. IssuerFound
      BY <1>2, <1>3, <2>1, WellConfiguredUrls DEF IssuerFound
    <2>3. QED
      BY <1>11, <2>2 DEF FetchServerMetadata
  <1>12. CASE RegisterClient
    BY <1>12 DEF RegisterClient
  <1>13. CASE OpenConsent
    BY <1>1, <1>7, <1>13 DEF OpenConsent, Remembered
  <1>14. CASE Decide
    <2>1. page \in Page /\ ClientId \in registered
      BY <1>1, <1>7, <1>14 DEF Decide, AskedFor, Remembered
    <2>2. page.clientId = ClientId /\ Decision(page, "allow") = "allow"
      BY <2>1 DEF Page, Decision
    <2>3. QED
      BY <1>2, <1>14, <2>1, <2>2 DEF Decide
  <1>15. CASE Redeem
    <2>1. ClientId \in registered /\ code \in DOMAIN codes
      BY <1>1, <1>7, <1>15 DEF Redeem, Remembered
    <2>2. codes[code] \in CodeRecord
      BY <1>1, <2>1 DEF TypeOK, IsMap
    <2>3. ConsumesCode(codes, code, ClientId, Callback, 0)
      BY <2>1, <2>2, CodeTtlAssumption DEF ConsumesCode, ExpiredCode, CodeRecord
    <2>4. QED
      BY <1>15, <2>1, <2>3 DEF Redeem
  <1>16. QED
    BY <1>8, <1>9, <1>10, <1>11, <1>12, <1>13, <1>14, <1>15 DEF ClientStep

\* A token is refused only by another process or by another resource.
LEMMA AskedInVainStep == IInv /\ [Next]_vars => AskedInVain'
  <1> SUFFICES ASSUME IInv, [Next]_vars, phase' = "refused", token' # None
               PROVE  \/ token'.key # epoch'
                      \/ indicates' /\ deployment'.resource # deployment'.endpoint
    BY DEF AskedInVain
  <1>1. /\ TypeOK /\ TokenTraces /\ AskedInVain /\ UNCHANGED <<deployment, user, indicates, enforces>>
    BY GivenStays DEF IInv
  <1>2. token \in Token(deployment) \cup {None} /\ attempt \in 0..epoch /\ epoch \in Int
    BY <1>1, OnboardingAssumption DEF TypeOK
  <1>3. token # None /\ UNCHANGED token
    BY <1>1 DEF TokenTraces, Next, ClientStep, vars, Probe, Present, FetchResourceMetadata,
                FetchServerMetadata, RegisterClient, OpenConsent, Decide, Redeem, StartOver, Restart
  <1>4. CASE Present
    <2>1. GateAnswer # "ok"
      BY <1>1, <1>3, <1>4 DEF Present, TokenTraces
    <2>2. token.key # epoch \/ deployment.resource \notin token.aud
      BY <1>1, <1>3, <2>1, TokenPasses
    <2>3. deployment.resource \notin token.aud =>
            indicates /\ deployment.resource # deployment.endpoint
      BY <1>1, <1>3 DEF TokenTraces, OrElse, Indicated
    <2>4. epoch' = epoch
      BY <1>4 DEF Present, server
    <2>5. QED
      BY <1>1, <1>3, <2>2, <2>3, <2>4
  <1>5. CASE Restart
    <2>1. token.key \in attempt..epoch /\ epoch' = epoch + 1
      BY <1>1, <1>3, <1>5 DEF TokenTraces, Restart
    <2>2. QED
      BY <1>2, <1>3, <2>1
  <1>6. CASE UNCHANGED vars
    BY <1>1, <1>6 DEF vars, given, server, AskedInVain
  <1>7. CASE ClientStep /\ ~Present
    BY <1>1, <1>3, <1>7
       DEF ClientStep, TokenTraces, Probe, FetchResourceMetadata, FetchServerMetadata,
           RegisterClient, OpenConsent, Decide, Redeem, StartOver
  <1>8. QED
    BY <1>4, <1>5, <1>6, <1>7 DEF Next

-----------------------------------------------------------------------------
\* The inductive invariant: whatever the client carries is what the server
\* gave it.
THEOREM CarriedOn == Spec => []IInv
  <1>1. IInv /\ [Next]_vars => IInv'
    BY TypeStep, RoutedStep, TracesStep, AskedForStep, RememberedStep, OnItsWayStep, AskedInVainStep
       DEF IInv
  <1>2. QED
    BY InitIInv, <1>1, PTL DEF Spec

\* The state keeps its shape.
THEOREM OnboardingTypeCorrect == Spec => []TypeOK
  <1>1. IInv => TypeOK
    BY DEF IInv
  <1>2. QED
    BY CarriedOn, <1>1, PTL

\* On every well-configured deployment the documents, the challenge, the
\* tokens and the gate agree: only a restart turns the client of a willing
\* user away.
THEOREM WellConfiguredAdmits == Spec => []RefusedOnlyByRestart
  <1>1. IInv => RefusedOnlyByRestart
    BY DEF IInv, OnItsWay, RefusedOnlyByRestart
  <1>2. QED
    BY CarriedOn, <1>1, PTL

\* On any deployment, a token that was minted is refused at the endpoint only
\* by a later process or by a process configured to be another resource.
THEOREM TokensAreTaken == Spec => []AskedInVain
  <1>1. IInv => AskedInVain
    BY DEF IInv
  <1>2. QED
    BY CarriedOn, <1>1, PTL
=============================================================================
