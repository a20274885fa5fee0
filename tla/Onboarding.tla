----------------------------- MODULE Onboarding -----------------------------
(***************************************************************************)
(* A client that is given nothing but the URL of the server's endpoint:     *)
(* refused there, it reads the challenge and the metadata, registers, sends *)
(* its user to the consent page, redeems the code and comes back with a     *)
(* token.  Every answer is that of the code: the routes and checkAuth       *)
(* (HttpGate), the documents (Discovery), the consent page and the handlers *)
(* of as-handlers.ts, the code store and the token issuer.  The client is   *)
(* the environment: it does what RFC 9728 and RFC 8414 ask of it, compares  *)
(* identifiers as strings, and starts over when it is refused.              *)
(*                                                                          *)
(* The process may restart between any two requests; registrations, codes   *)
(* and the signing key are then gone.  Lifetimes are those of               *)
(* AuthorizationServer's runs: here the clock stands still.                 *)
(***************************************************************************)
EXTENDS Discovery, HttpGate, AuthorizationCodeStore

CONSTANTS Deployments,  \* the deployments looked at: see Discovery
          CodeIds,      \* the strings create() may draw
          ClientId,     \* the id register() draws
          Callback,     \* the client's redirect URI
          Challenge,    \* its PKCE challenge
          Scopes,
          MaxRestarts   \* bounds the restarts

Grants == SUBSET (Scopes \cup {"mcp:read"})

\* What a deployment calls itself: as configured, and as the client knows it.
Urls(d) == {d.resource, d.endpoint}

\* The access tokens of a deployment.
Token(d) ==
    [iss : {PublishedIssuer(d)}, aud : {{u} : u \in Urls(d)}, nbf : {0}, exp : {1},
     scope : Grants, key : 0..MaxRestarts]

ASSUME OnboardingAssumption ==
    /\ MaxRestarts \in Nat
    /\ None \notin CodeIds
    /\ \A S \in Grants : None # S

\* URLs are what Discovery takes them for, requests to the URL of the endpoint
\* get to the process, and a token is not the absence of one.
ASSUME DeploymentsAssumption ==
    \A d \in Deployments :
        /\ d.endpoint.origin \in d.reaches
        /\ d.endpoint.origin = Origin(d.endpoint.origin.scheme, d.endpoint.origin.host)
        /\ d.issuer = Url(d.issuer.origin, d.issuer.path, d.issuer.slash, d.issuer.query)
        /\ None \notin Token(d) /\ NoBearer \notin Token(d)

VARIABLES
    deployment, \* what the process was started with; never changes
    user,       \* whether the user is willing to allow the client
    indicates,  \* whether the client sends resource indicators (RFC 8707)
    enforces,   \* whether the browser enforces the consent page's own policy
    epoch,      \* which incarnation of the process, hence which signing key
    registered, \* ClientRegistry.clients: its ids
    codes,      \* AuthorizationCodeStore.codes
    phase,      \* where the client is
    attempt,    \* the epoch in which the client started
    url,        \* the metadata URL or the issuer the client goes to next
    page,       \* the hidden fields of the consent page, or None
    code,       \* the code the browser brought back, or None
    token       \* the access token the client holds, or None

given  == <<deployment, user, indicates, enforces>>
server == <<epoch, registered, codes>>
vars   == <<given, server, phase, attempt, url, page, code, token>>

Phases == {"down", "start", "metadata", "issuer", "register", "authorize", "consent",
           "redeem", "connect", "connected", "refused"}

Init ==
    /\ deployment \in Deployments
    /\ user \in {"willing", "unwilling"}
    /\ indicates \in BOOLEAN
    /\ enforces \in BOOLEAN
    /\ epoch = 0
    /\ registered = {}
    /\ codes = EmptyMap
    /\ phase = IF Starts(deployment) THEN "start" ELSE "down"
    /\ attempt = 0
    /\ url = None
    /\ page = None
    /\ code = None
    /\ token = None

-----------------------------------------------------------------------------
(* POST /mcp *)

Config == [mode |-> deployment.mode, requireAuth |-> deployment.requireAuth, statics |-> {}]

\* The tokens of this deployment.
Tokens == INSTANCE TokenIssuer WITH
    AccessTtl <- 1,
    Issuer    <- PublishedIssuer(deployment),
    Resource  <- deployment.resource

\* The route of a request from the client's endpoint: req.url is compared
\* with "/mcp", query and all.
EndpointRoute ==
    Route(Config, [originAllowed |-> TRUE, method |-> "POST",
                   path |-> IF deployment.endpoint = DefaultResource(deployment.endpoint.origin)
                            THEN "/mcp" ELSE "/other"])

\* checkAuth of what the client sends: the token, or no bearer at all.
GateAnswer ==
    IF token = None THEN CheckAuth(Config, NoBearer, "none")
    ELSE CheckAuth(Config, token, Tokens!ValidateAccess(token, epoch, {}, 0))

\* The client comes without a token.  On a server that asks for none it may
\* be told to authorize all the same.
Probe ==
    /\ phase = "start"
    /\ \/ EndpointRoute # "gate" /\ phase' = "refused" /\ UNCHANGED url
       \/ /\ EndpointRoute = "gate" /\ GateAnswer = "ok"
          /\ phase' = "connected" /\ UNCHANGED url
       \/ /\ EndpointRoute = "gate"
          /\ phase' = "metadata"
          /\ url' = IF GateAnswer # "ok" /\ ChallengeMetadata(deployment) # None
                    THEN ChallengeMetadata(deployment)
                    ELSE WellKnownUrlForResource(deployment.endpoint)
    /\ UNCHANGED <<given, server, attempt, page, code, token>>

\* The client comes with its token, the first time or a later one.
Present ==
    /\ phase \in {"connect", "connected"}
    /\ phase' = IF EndpointRoute = "gate" /\ GateAnswer = "ok" THEN "connected" ELSE "refused"
    /\ UNCHANGED <<given, server, attempt, url, page, code, token>>

-----------------------------------------------------------------------------
(* Discovery *)

\* GET the protected-resource metadata: the resource must be the endpoint,
\* and one of the servers, or else the endpoint's own host, is asked next.
FetchResourceMetadata ==
    /\ phase = "metadata"
    /\ \/ /\ url.origin \in deployment.reaches
          /\ IsWellKnownPath(url)
          /\ LET doc == ProtectedResourceMetadata(deployment, url) IN
              /\ doc.resource = deployment.endpoint
              /\ url' \in IF doc.authorization_servers = {}
                          THEN {DefaultIssuer(deployment.endpoint.origin)}
                          ELSE doc.authorization_servers
          /\ phase' = "issuer"
       \/ /\ \/ url.origin \notin deployment.reaches
             \/ ~IsWellKnownPath(url)
             \/ ProtectedResourceMetadata(deployment, url).resource # deployment.endpoint
          /\ phase' = "refused" /\ UNCHANGED url
    /\ UNCHANGED <<given, server, attempt, page, code, token>>

\* The metadata of the server at url is found and says that it is url.
IssuerFound ==
    /\ deployment.mode = "local"
    /\ RoutesAt(deployment, url)
    /\ PublishedIssuer(deployment) = url

\* GET the authorization-server metadata.
FetchServerMetadata ==
    /\ phase = "issuer"
    /\ phase' = IF IssuerFound THEN "register" ELSE "refused"
    /\ UNCHANGED <<given, server, attempt, url, page, code, token>>

\* POST /oauth2/v1/register: a new id, here always the same one.
RegisterClient ==
    /\ phase = "register"
    /\ registered' = registered \cup {ClientId}
    /\ phase' = "authorize"
    /\ UNCHANGED <<given, epoch, codes, attempt, url, page, code, token>>

-----------------------------------------------------------------------------
(* Consent *)

OrElse(a, b) == IF a # None THEN a ELSE b

\* The resource the client's requests name, or None.
Indicated == IF indicates THEN deployment.endpoint ELSE None

\* renderConsentPage() repeats the request in hidden fields, and adds to them
\* the decision.
ConsentPage(scope) ==
    [clientId |-> ClientId, redirectUri |-> Callback, codeChallenge |-> Challenge,
     scope |-> OrElse(scope, {"mcp:read"}),
     resource |-> Indicated,
     decision |-> "allow"]

\* GET /oauth2/v1/authorize, with or without a scope.
OpenConsent ==
    /\ phase = "authorize"
    /\ \/ /\ ClientId \in registered
          /\ \E scope \in {None} \cup SUBSET Scopes : page' = ConsentPage(scope)
          /\ phase' = "consent"
       \/ /\ ClientId \notin registered
          /\ phase' = "refused"
          /\ UNCHANGED page
    /\ UNCHANGED <<given, server, attempt, url, code, token>>

\* What body.get("decision") is: the first field of that name, and the hidden
\* fields come before the button that was pressed.
Decision(form, button) == IF "decision" \in DOMAIN form THEN form.decision ELSE button

\* Where the page's meta content security policy lets a form go: what its
\* form-action lists is the path alone, which is no source expression.
FormTargets == {}

\* Pressing a button sends the form.  A browser that enforces the policy
\* sends neither answer, and the user stays on the page.
Submits == enforces => "/oauth2/v1/authorize" \in FormTargets

\* POST /oauth2/v1/authorize: the user has pressed Allow or Deny.
Decide ==
    /\ phase = "consent"
    /\ Submits
    /\ LET button == IF user = "willing" THEN "allow" ELSE "deny" IN
        \/ /\ Decision(page, button) # "deny"
           /\ page.clientId \in registered
           /\ \E c \in CodeIds \ DOMAIN codes :
                /\ codes' = CreateCode(codes, c, page, 0)
                /\ code' = c
           /\ phase' = "redeem"
        \/ /\ Decision(page, button) = "deny" \/ page.clientId \notin registered
           /\ phase' = "refused"
           /\ UNCHANGED <<codes, code>>
    /\ UNCHANGED <<given, epoch, registered, attempt, url, page, token>>

-----------------------------------------------------------------------------
(* POST /oauth2/v1/token *)

\* Mutant: a token that was asked for no resource is for the issuer.
ResourceOrIssuer(record, resource) ==
    OrElse(record.resource, OrElse(resource, PublishedIssuer(deployment)))

\* Mutant: the configured resource is forgotten.
ResourceOfRequest(record, resource) == OrElse(record.resource, resource)

\* codeRecord.resource ?? resource ?? deps.resource
EffectiveResource(record, resource) ==
    OrElse(record.resource, OrElse(resource, deployment.resource))

\* The code grant, of the verifier and the redirect URI that belong to it.
Redeem ==
    /\ phase = "redeem"
    /\ \/ /\ ClientId \in registered
          /\ ConsumesCode(codes, code, ClientId, Callback, 0)
          /\ token' = Tokens!IssueAccess(
                 [resource |-> EffectiveResource(codes[code], Indicated),
                  scope |-> codes[code].scope], epoch, 0)
          /\ codes' = CodesAfterConsume(codes, code, ClientId, Callback, 0)
          /\ phase' = "connect"
       \/ /\ ClientId \notin registered \/ ~ConsumesCode(codes, code, ClientId, Callback, 0)
          /\ phase' = "refused"
          /\ UNCHANGED <<codes, token>>
    /\ UNCHANGED <<given, epoch, registered, attempt, url, page, code>>

-----------------------------------------------------------------------------
\* The client forgets what it learnt and tries again.
StartOver ==
    /\ phase = "refused"
    /\ phase' = "start"
    /\ attempt' = epoch
    /\ url' = None
    /\ page' = None
    /\ code' = None
    /\ token' = None
    /\ UNCHANGED <<given, server>>

\* A new process with the same environment: empty stores, a new key.
Restart ==
    /\ phase # "down"
    /\ epoch < MaxRestarts
    /\ epoch' = epoch + 1
    /\ registered' = {}
    /\ codes' = EmptyMap
    /\ UNCHANGED <<given, phase, attempt, url, page, code, token>>

ClientStep ==
    \/ Probe \/ Present \/ FetchResourceMetadata \/ FetchServerMetadata
    \/ RegisterClient \/ OpenConsent \/ Decide \/ Redeem \/ StartOver

Next == ClientStep \/ Restart

Spec == Init /\ [][Next]_vars

\* The client and the browser go on where they can, and the server answers
\* every request.
FairSpec == Spec /\ WF_vars(ClientStep)

-----------------------------------------------------------------------------
(* Properties *)

Page ==
    [clientId : {ClientId}, redirectUri : {Callback}, codeChallenge : {Challenge},
     scope : Grants, resource : Urls(deployment) \cup {None}, decision : {"allow"}]

CodeRecord ==
    [clientId : {ClientId}, redirectUri : {Callback}, codeChallenge : {Challenge},
     scope : Grants, resource : Urls(deployment) \cup {None}, createdAt : {0}, expiresAt : {CodeTtl}]

\* The shape of the state.
TypeOK ==
    /\ deployment \in Deployments
    /\ user \in {"willing", "unwilling"}
    /\ indicates \in BOOLEAN
    /\ enforces \in BOOLEAN
    /\ epoch \in 0..MaxRestarts
    /\ registered \subseteq {ClientId}
    /\ IsMap(codes, CodeIds, CodeRecord)
    /\ phase \in Phases
    /\ attempt \in 0..epoch
    /\ page \in Page \cup {None}
    /\ code \in CodeIds \cup {None}
    /\ token \in Token(deployment) \cup {None}

\* What an operator has to get right, one line of the environment each.
WellConfigured(d) ==
    /\ d.mode = "local"
    /\ d.endpoint = DefaultResource(d.endpoint.origin)
    /\ d.resource = d.endpoint
    /\ d.endpoint.origin.scheme = "http" \/ d.forwarded
    /\ RoutesAt(d, d.issuer) /\ d.issuer.query = ""
    /\ IF d.servers = {} THEN d.issuer.origin = d.endpoint.origin
                         ELSE d.servers = {PublishedIssuer(d)}

\* However the client of a willing user finds its way, on a well-configured
\* server it is turned away at no step, unless the process was restarted under
\* it: the documents, the challenge, the tokens and the gate agree on who is
\* who.  (Of a user who denies, consent-page.ts:20-21 promises the contrary.)
RefusedOnlyByRestart ==
    WellConfigured(deployment) /\ user = "willing" /\ phase = "refused" => attempt # epoch

\* Whatever else is configured wrong shows before this server asks the user: a
\* token is refused at the endpoint only if the process was restarted since,
\* or if the client asked for the endpoint it knows, which discovery has
\* confirmed, and the process is configured to be another resource.
AskedInVain ==
    phase = "refused" /\ token # None =>
        \/ token.key # epoch
        \/ indicates /\ deployment.resource # deployment.endpoint

\* The client went past the route of its endpoint, and past the gate without a
\* token only where none is asked for.
Routed ==
    /\ phase \notin {"down", "start", "refused"} => EndpointRoute = "gate"
    /\ phase = "connected" /\ token = None => GateAnswer = "ok"

\* A token was made in this attempt, for the resource that was asked for or
\* else for the configured one.
TokenTraces ==
    /\ token # None =>
        /\ phase \in {"connect", "connected", "refused"}
        /\ EndpointRoute = "gate"
        /\ token.key \in attempt..epoch
        /\ token.aud = {OrElse(Indicated, deployment.resource)}
    /\ phase = "connect" => token # None

\* The page and the codes carry on what the client asked for.
AskedFor ==
    /\ phase = "consent" => page \in Page /\ page.resource = Indicated
    /\ \A c \in DOMAIN codes : codes[c].resource = Indicated

\* What the process has been told in this attempt it still knows.
Remembered ==
    attempt = epoch =>
        /\ phase \in {"authorize", "consent", "redeem"} => ClientId \in registered
        /\ phase = "redeem" => code \in DOMAIN codes

\* On a well-configured server the client of a willing user is on its way.
OnItsWay ==
    WellConfigured(deployment) /\ user = "willing" /\ attempt = epoch =>
        /\ phase # "refused"
        /\ phase = "metadata" => url = deployment.endpoint
        /\ phase = "issuer" => url = PublishedIssuer(deployment)

IInv == TypeOK /\ Routed /\ TokenTraces /\ AskedFor /\ Remembered /\ OnItsWay /\ AskedInVain

\* With finitely many restarts, every client of a well-configured server whose
\* user is willing is connected in the end and stays so, if the browser does
\* not enforce the page's form-action (consent-page.ts:55).  In one that does,
\* nobody can answer the page, and a client that needs a token never gets one.
WellConfiguredConnects ==
    WellConfigured(deployment) /\ user = "willing" /\ ~enforces => <>[](phase = "connected")

-----------------------------------------------------------------------------
(* What the repository says and the code does not do *)

\* consent-page.ts:20-21: "The "deny" button redirects back to the client
\* with `error=access_denied`": a user who denies gives no code.  (Violated
\* where the form can be sent at all: see Submits.)
DenyGivesNoCode == user = "unwilling" => code = None
=============================================================================
