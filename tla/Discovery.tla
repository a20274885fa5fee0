----------------------------- MODULE Discovery -----------------------------
(***************************************************************************)
(* What the server says of itself to a client that knows only its address:  *)
(* the protected-resource metadata and the challenge that points at it      *)
(* (src/src/server/oauth/protected-resource-metadata.ts, with the route in   *)
(* app.ts), the authorization-server metadata                               *)
(* (authorization-server-metadata.ts), and the identifiers both are built   *)
(* from.  The documents are recomputed for every request; nothing here has  *)
(* state.                                                                   *)
(*                                                                          *)
(* A URL is compared as a string by everyone, so it keeps what makes two    *)
(* strings of one place differ: scheme, host, path, a terminal slash ("/"    *)
(* or "") and a query (or "").  A path is "" or has no slash at its end.     *)
(*                                                                          *)
(* A deployment is the environment of the process and the way to it:        *)
(*   mode, requireAuth    MCP_OAUTH_MODE, MCP_OAUTH_REQUIRE_AUTH            *)
(*   resource, issuer     MCP_OAUTH_RESOURCE, MCP_OAUTH_ISSUER              *)
(*   servers              MCP_OAUTH_AUTHORIZATION_SERVERS                   *)
(*   pointing             MCP_OAUTH_CHALLENGE_INCLUDE_METADATA              *)
(*   idp, jwks            MCP_OAUTH_IDP_ISSUER (or None), and whether       *)
(*                        MCP_OAUTH_IDP_JWKS_URL is set                     *)
(*   endpoint             the URL the client was given                      *)
(*   reaches              the origins whose requests get to the process     *)
(*   forwarded            whether a proxy sends x-forwarded-proto           *)
(***************************************************************************)
EXTENDS FiniteSets

CONSTANT None           \* a value that is not given

Origin(scheme, host) == [scheme |-> scheme, host |-> host]

Url(origin, path, slash, query) ==
    [origin |-> origin, path |-> path, slash |-> slash, query |-> query]

\* The default resource (loadOAuthConfig) and the default issuer
\* (loadAuthorizationServerConfig) of a process that listens at `origin'.
DefaultResource(origin) == Url(origin, "/mcp", "", "")
DefaultIssuer(origin)   == Url(origin, "", "", "")

\* stripTrailingSlash() of app.ts and of the metadata; a URL with a query
\* does not end in the slash of its path.
StripTrailingSlash(url) == IF url.query # "" THEN url ELSE [url EXCEPT !.slash = ""]

-----------------------------------------------------------------------------
(* The protected resource *)

\* wellKnownUrlForResource(): the well-known prefix goes between the host and
\* the rest, and the slash before a query or the end is dropped.  The prefix
\* is left out of the model: a metadata URL is written as what follows it.
WellKnownUrlForResource(resource) == [resource EXCEPT !.slash = ""]

\* isProtectedResourceWellKnownPath(): it looks at req.url, query included,
\* so the root form with a query is not recognised.
IsWellKnownPath(url) == url.path # "" \/ url.slash # "" \/ url.query = ""

\* Mutant: x-forwarded-proto is not looked at.
AsRequestedPlainly(d, url) == [url EXCEPT !.origin.scheme = "http"]

\* The URL of a metadata request as the process sees it: the Host header, and
\* the scheme a proxy forwards or else http.
AsRequested(d, url) ==
    [url EXCEPT !.origin.scheme = IF d.forwarded THEN url.origin.scheme ELSE "http"]

\* resourceFromWellKnown(): without its prefix, the request names the resource.
ResourceFromWellKnown(url) == url

\* buildProtectedResourceMetadata() as the route calls it.  An empty list of
\* servers is left out of the document.
ProtectedResourceMetadata(d, url) ==
    [resource |-> ResourceFromWellKnown(AsRequested(d, url)),
     authorization_servers |-> d.servers]

\* The resource_metadata parameter of a challenge (buildChallenge of auth.ts).
ChallengeMetadata(d) ==
    IF d.pointing THEN WellKnownUrlForResource(d.resource) ELSE None

-----------------------------------------------------------------------------
(* The authorization server *)

\* Mutant: the issuer is published as it was configured.
IssuerAsConfigured(d) == d.issuer

\* The issuer, in tokens (buildIssuerFactory) and in the metadata
\* (buildAuthorizationServerMetadata), where every endpoint is relative to it.
PublishedIssuer(d) == StripTrailingSlash(d.issuer)

\* The routes of handleAsRequest are matched from the root of the host, so
\* they are where the metadata says only if the issuer has no path.
RoutesAt(d, issuer) == issuer.origin \in d.reaches /\ issuer.path = ""

\* replace(/\/+$/, "") of both issuers, in createIssuerFactory.
SameIssuer(a, b) == StripTrailingSlash(a) = StripTrailingSlash(b)

\* buildIssuerFactory() and createIssuerFactory() do not throw.
Starts(d) ==
    d.mode = "external" =>
        /\ d.idp # None
        /\ d.jwks
        /\ SameIssuer(PublishedIssuer(d), d.idp)
=============================================================================
