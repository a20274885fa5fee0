------------------------------ MODULE HttpGate ------------------------------
(***************************************************************************)
(* What the HTTP server decides about a request before it reaches an MCP    *)
(* session: the order of the routes in src/src/server/app.ts and checkAuth  *)
(* of src/src/server/auth.ts.  `config' is the environment the process was  *)
(* started with:                                                            *)
(*   mode         MCP_OAUTH_MODE                                            *)
(*   requireAuth  MCP_OAUTH_REQUIRE_AUTH                                    *)
(*   statics      the tokens listed in MCP_AUTH_TOKEN (a value that lists    *)
(*                none, such as ",", is left out)                           *)
(***************************************************************************)

CONSTANT NoBearer       \* no Authorization: Bearer header

\* "/prm" stands for the protected-resource well-known URLs and "/as" for
\* the routes of the authorization server, each with its own method.
Paths   == {"/health", "/ready", "/prm", "/as", "/mcp", "/other"}
Methods == {"OPTIONS", "GET", "POST", "DELETE"}

\* The routes in the order they are tried; in external mode handleAsRequest
\* answers whatever gets to it.
Route(config, req) ==
    IF ~req.originAllowed                         THEN "forbidden"   ELSE
    IF req.method = "OPTIONS"                     THEN "preflight"   ELSE
    IF req.path \in {"/health", "/ready"}         THEN "status"      ELSE
    IF req.method = "GET" /\ req.path = "/prm"    THEN "metadata"    ELSE
    IF config.mode = "external"                   THEN "as_disabled" ELSE
    IF req.path = "/as"                           THEN "as"          ELSE
    IF req.path # "/mcp"                          THEN "not_found"   ELSE "gate"

\* Mutant: a configured static token does not force authentication.
MustIfRequired(config) == config.requireAuth

\* app.ts names no tool, so no tool's scheme has a say.
MustAuthenticate(config) == config.requireAuth \/ config.statics # {}

\* mapToRfc6750, and the static-token challenge of what is not a
\* TokenValidationError.
ChallengeFor(outcome) ==
    IF outcome = "insufficient_scope" THEN "insufficient_scope" ELSE "invalid_token"

\* checkAuth(): "ok" or the error of the challenge.  `outcome' is what
\* validator.validate() does with the bearer: "ok", the code of a
\* TokenValidationError, or "exception" for anything else it throws.
CheckAuth(config, bearer, outcome) ==
    IF bearer = NoBearer
    THEN IF MustAuthenticate(config) THEN "invalid_request" ELSE "ok"
    ELSE IF \/ outcome = "ok"
            \/ bearer \in config.statics
            \/ outcome = "exception" /\ ~MustAuthenticate(config)
         THEN "ok"
         ELSE ChallengeFor(outcome)

\* The status of a challenge.
ChallengeStatus(error) == IF error = "invalid_token" THEN 403 ELSE 401

RouteStatus(route) ==
    CASE route = "forbidden"   -> 403
      [] route = "preflight"   -> 204
      [] route = "as_disabled" -> 404
      [] route = "not_found"   -> 404
      [] OTHER                 -> 200

\* Who may call /mcp, by the three modes of docs/OAUTH_AS.md:38-42 (the
\* strictest that is configured counts) and the comment at auth.ts:60: a token
\* that validates; a listed token, unless MCP_OAUTH_REQUIRE_AUTH demands a JWT
\* (:42, :215, docs/SECURITY.md:72); no token where nothing asks for one.
Admissible(config, bearer, outcome) ==
    \/ bearer # NoBearer /\ outcome = "ok"
    \/ ~config.requireAuth /\ bearer \in config.statics
    \/ ~config.requireAuth /\ config.statics = {} /\ bearer = NoBearer

\* What checkAuth() admits beyond that (auth.ts:83-87, 97-99): a listed token
\* is taken although a JWT is required.
StaticDespiteRequired(config, bearer) ==
    config.requireAuth /\ bearer \in config.statics
=============================================================================
