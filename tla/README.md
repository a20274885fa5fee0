# Anotator8 ChatGPT Integration Lab: TLA+ models, checks and proofs

The repository is an MCP server for reviewing Anotator8 projects from ChatGPT:
an HTTP server that routes requests and keeps MCP sessions, an in-process OAuth
authorization server (or a validator for the tokens of an external identity
provider), eight read-only tools over a project adapter, and a widget that runs
in the host's iframe. All of it is TypeScript on one event loop: concurrency is
what happens between one `await` and the next.

Paths below are relative to `src/` unless they name a module of this directory;
`oauth/` stands for `src/server/oauth/`.

## 1. Inventory

| Part | Code | State it keeps | Operations | Hard behaviour | What makes it correct |
| --- | --- | --- | --- | --- | --- |
| Authorization server | `oauth/as-handlers.ts` | none of its own; uses the three stores below | `GET/POST /authorize`, `POST /token` (two grants), `POST /register` | the code grant awaits the client's metadata before it touches a store; consume-then-check; restart | one consent gives one live credential; a token says no more than the consent; nothing is exchanged twice or late |
| Code store | `oauth/authorization-code-store.ts` | Map of codes | create, consume, sweep | boundary of the lifetime; a stranger's request | a code is used at most once, by its client |
| Refresh-token store | `oauth/refresh-token-store.ts` | Map of rows by hash | issue, consume, revokeFamily, sweep | reuse after rotation; refusal after consumption | a presented token is spent |
| Registry | `oauth/dcr.ts` | Map of registrations | register, get | a restart forgets it | redirect URIs are those of the client |
| CIMD resolver | `oauth/cimd.ts` | Map of cached documents | resolve, clearCache | overlapping and failing fetches into one cache, no timer | a document given out was served lately |
| Local issuer | `oauth/token-issuer.ts`, `jwks.ts` | a key pair per process | issue, validate | restart changes the key | old access tokens die with the process |
| Remote validator | `oauth/remote-issuer.ts` | JWKS cache, fetch in flight | validate, fetchJwks, invalidate | shared, forced, overlapping and failing fetches; key rotation | a withdrawn key dies soon, a published key is found, every call is answered |
| Issuer factory | `oauth/issuer-factory.ts`, `app.ts` (`buildIssuerFactory`) | none (environment) | start or throw | two issuers that must be one string | the process starts only where tokens can be checked |
| Discovery, consent page | `oauth/protected-resource-metadata.ts`, `oauth/authorization-server-metadata.ts`, `auth.ts` (challenge), `oauth/consent-page.ts` | none | two documents, a challenge, a form | identifiers derived in four places from the request, the environment or both | a client that follows them arrives, and its token is taken |
| HTTP gate | `app.ts` (routes), `auth.ts` | none (environment) | routing, checkAuth | many reasons to demand and to accept a bearer | only requests the policy admits get through, with one exception; a valid one finds `/mcp` |
| HTTP sessions | `app.ts`, `index.ts` | Map of sessions | POST, GET, DELETE of `/mcp`; signal, exit | session looked up before the body is awaited; closing while in use | the Map holds exactly the open sessions; the process ends |
| Adapter | `anotator8-adapter.ts` | none | parse, normalize, validate | two passes that each decide what is wrong | nothing is lost silently; valid means shown, but for what nobody checks |
| Tools | `tools/*.ts`, `storage.ts` | none | seven tools and `list_capabilities` | answers about one project must agree | see `Tools_answers` |
| Widget | `src/widget/widget.ts` | handshake promise, pending requests, panel | render, click, message listener | answers in any order, refused handshake, silent host | an answer finds its click; no fake controls; the fallback |

How they interact: `app.ts` answers the metadata of the protected resource, asks
the authorization server's router, then `checkAuth` (which calls the local
issuer or the remote validator), then hands the request to the SDK transport of
its session, which calls a tool. The authorization server calls the resolver or
the registry, then the stores, then the local issuer. A client meets all of them
in turn: refused at `/mcp`, it reads the challenge and the two documents,
registers, goes through the consent page, redeems its code and comes back. The
widget sees tool results the host pushes and calls `create_review_plan` through
the host.

The hazards of each part, at their lines, are in `PROJECT.json`.

## 2. Modules

| Module | Models | Correspondence |
| --- | --- | --- |
| `Maps`, `MapLemmas` | JavaScript Maps | a function whose domain is the set of keys |
| `AuthorizationCodeStore`, `RefreshTokenStore` | the two stores | one operator per method: old Map to new Map |
| `TokenIssuer` | the local issuer, `validateClaims` | claims and checks, in the code's order |
| `AuthorizationServer` | the handlers over the stores | one action per handler segment between awaits: `TokenBegin`, then `TokenRefuseClient`, `TokenRefuseCode`, `TokenBurnCode` or `TokenRedeemCode`; `RefreshGrant`; `AuthorizeApprove`; `Register`; `Restart` |
| `ConsentLedger` | the abstract promise of the server | a consent has at most one credential: Approve, Exchange, Lapse |
| `CimdResolver` | `cimd.ts` | `Begin` and `Arrive` or `Break` are `resolve()` before and after its await; `ClearCache`; `Replace`, `Serve`, `Tick` the hosts and the network |
| `LatelyServed` | the abstract promise of a cache of other people's documents | Give a document its owner served less than Bound ago, or Withhold |
| `RemoteValidator` | `remote-issuer.ts` | `Begin`, `Resume` are the turns of `validate()`; `Arrive`, `Fail` the end of a fetch; `Publish`, `Withdraw`, `Serve` the provider |
| `AnsweredTokens` | the abstract promise of a service that checks other people's tokens | Ask, Answer or AnswerAtOnce with a reason that is true, Wait; no document, cache or fetch |
| `HttpGate` | routes, `checkAuth` | pure operators `Route`, `CheckAuth`; `Admissible` is the policy of `docs/OAUTH_AS.md:38-42`, `StaticDespiteRequired` what the code admits beyond it |
| `HttpApp` | sessions, shutdown | `BeginPost`/`Body` around the await of the body; `OpenStream`, `DeleteSession`, `HangUp`, `Signal`, `KeepAliveEnds`, `Exit` |
| `Discovery` | both metadata documents, the challenge's pointer, the identifiers, the start of the process | pure operators over a *deployment*: the environment variables, what the client was told, what reaches the process |
| `Onboarding` | one client's way through all of it | one action per request: `Probe`, `FetchResourceMetadata`, `FetchServerMetadata`, `RegisterClient`, `OpenConsent`, `Decide`, `Redeem`, `Present`; `StartOver`, `Restart` |
| `Anotator8Adapter`, `ProjectTools` | adapter and tools, the SDK's check of their answers | pure operators; one action per tool; `Sent` is what the output schema lets through |
| `ReviewWidget` | the widget | `Click`, `Resume`, `AnswerCall`, `LegacySettles` are the awaits of one click; `Render`, `AnswerInit` the message listener |
| `*Proofs` | theorems | section 5 |
| `MC*` | small instances | constants for TLC, nothing else |

`AuthorizationServer` extends the three store modules; `RemoteValidator` shares
`TokenIssuer` with it, as both validators share `validateClaims` in the code;
`HttpApp` extends `HttpGate`; `ProjectTools` extends `Anotator8Adapter`.
`Onboarding` is the composition: it extends `Discovery`, `HttpGate` and
`AuthorizationCodeStore` and instantiates `TokenIssuer`, so that the answers of
the endpoint, of the documents and of the token endpoint are those of one process.

### Modelling decisions a reader should know

* **Atomicity.** Code between two awaits is one action. An await that only
  queues a microtask lets nothing else run and is not split. In `RemoteValidator`
  the microtasks that resume the callers of a settled fetch run before any
  other turn (`Quiet`).
* **Authorization server.** The hash of a refresh token stands for the token;
  a family is named by its first token; `subject` is a process constant;
  the field `consumed` is never true of a stored record. A request refused
  before any state is touched changes nothing and is left out. A resource
  given at a refresh replaces the family's, as in the code
  (`oauth/as-handlers.ts:363`). An unknown refresh token only sweeps, which an
  expired one does too. The family revocation of `oauth/as-handlers.ts:346`
  finds no row: `consume` has removed the only one the family has
  (`OneCredentialPerConsent`). The resolver may answer with any redirect URIs
  or an error at any time, which is more than `CimdResolver` allows: what is
  shown of the server does not depend on how the resolver caches.
* **Resolver.** Of a document its redirect URIs are kept, and whether it is
  acceptable. The header of `cimd.ts` says a document must have `client_id` and
  `client_name`; the code requires only `redirect_uris`. The code has no timer:
  `FetchLimit` is an assumption about the network.
* **URLs.** In `Discovery` a URL keeps what makes two strings of one place
  differ: scheme, host, path, terminal slash, query. The well-known prefixes are
  left out. A metadata document is computed from the request's Host header and
  `x-forwarded-proto`, the challenge and the tokens from the environment, the
  routes from `req.url`: nothing in the model makes them agree but the
  deployment.
* **Onboarding.** The client is the environment: it compares identifiers as
  strings, as RFC 9728 and RFC 8414 require, and starts over when it is refused.
  The authorization server it goes to is this one; one it cannot find (the
  server of an external provider) refuses it. Its clock stands still: lifetimes are those of
  `AuthorizationServer`'s runs.
* **Consent page.** Its meta content security policy lists
  `form-action /oauth2/v1/authorize` (`oauth/consent-page.ts:55`), a path, which is
  no source expression and matches no target (`FormTargets`). Whether the user's
  browser enforces such a policy is part of the deployment (`enforces`): where it
  does, neither button sends anything (`Submits`).
* **SDK and Node under `HttpApp`.** A transport that is closed is cut off from its
  server. A call handed to it afterwards, by a request that looked the session up
  before its body came (`app.ts:236`, `app.ts:255-256`), opens an event stream that
  nobody writes to or ends: stage `unanswered`, until the client hangs up.
  `httpServer.close()` (`index.ts:54`) stops listening and drops idle connections;
  one with a request in progress stays, and is kept alive for a while afterwards,
  during which it may bring another request (`late`). A call that runs when its
  session is closed loses its stream to `transport.close()`; it is one action here.
* **Primitives.** S256 is collision free, random identifiers are fresh, a
  signature verifies under its own key only.
* **Clock.** Discrete; `Tick` is bounded by `MaxTime`. In `RemoteValidator` a
  fetch never outlives its timer.
* **Adapter.** Times are counted in half milliseconds so that `Math.round`
  shows. A substring filter is the set of labels that contain it. Warnings are
  a set of codes with the index they are about. What the code keeps of an array
  is a function of the indices the array had, so that what is kept can be set
  against what was skipped; a track's `cueCount`s add up to the number of pairs
  of a track and a cue in it. Nodes, tracks and cues may be `null`, as the input
  schema takes anything; reading a field of one throws. For the same reason an
  id or a parent's id may be a number, a time no number (then `secondsToMs` makes
  it `NaN`, of which every comparison is false), a name, address or duration of
  the source of a wrong type, an `objectUrl` no string, a colour or text an object
  `String()` cannot convert. `app.ts:80` registers each tool's output schema; the
  SDK holds a successful answer against it and refuses the call when a value does
  not fit (`Fits`, `Sent`). The answers that carry raw values are those of
  `inspect_project` (source), `find_annotations` (ids, parents, times of the
  matches it returns), `suggest_labels` (ids) and `summarize_annotations` (times);
  the others are text and counts. Not represented: infinite times (`1e999`),
  objects in place of ids, unconvertible objects in place of times.
* **Widget.** `lastToolResult` is stored and never read; it is left out.

## 3. What TLC checks

| Run | Shows | Bounds, and why they are enough |
| --- | --- | --- |
| `AS_races` | two token requests race for one code while the clock passes its expiry: shape, one credential per consent, exchanges in time, strangers cannot burn a code, only the verifier redeems; every step is one of `ConsentLedger` | one code, two tokens, two requests in flight (a race needs two), two clients of both kinds, a right and a wrong verifier, clock to 2 with lifetimes 1 and 2, so that the boundary and both sides of it occur |
| `AS_chains` | provenance along rotations, single use, spent tokens, a restart forces reauthorization | one code and three tokens (a code exchange and two rotations), two clients, two scopes, a foreign resource, one restart at any point |
| `CIMD_resolve` | shape; an entry outlives its document by a fetch and a lifetime at most; `resolve()` implements `LatelyServed` | one client (entries of different clients never meet), two calls (an overlap needs two, and either may read what both stored), two redirect URIs (hence three usable documents), cache lifetime 2, fetches up to 1, clock to 4, longer than the sum |
| `RV_cache` | a withdrawn key is honoured for less than a fetch and a cache lifetime, one never published not at all; a published key is found; `validate()` implements `AnsweredTokens` | two calls, two keys, one token that expires before the clock stops, cache lifetime 2, timeout 1, clock to 4 (longer than the sum) |
| `RV_live` | shape; only live fetches are awaited or shared, and each is awaited by who started it; every call ends, and is answered by a true reason (`AnsweredTokens` again, here for what a header may get wrong) | two calls; expired, mislabelled, kid-less tokens and an unusable key; the clock stands still |
| `HTTP_sessions` | the Map holds the open sessions; only requests the documented policy admits pass, but for a listed static token under `MCP_OAUTH_REQUIRE_AUTH`; a signal ends the process, but for a call of a closed session and clients that go on over kept-alive connections | two connections (one awaits its body while the other closes the session), two transports, every configuration, a valid and another bearer |
| `HTTP_external` (violation) | finding 1 | one connection |
| `OB_connect` | on every deployment: shape, a well-configured server turns the client of a willing user away only for a restart, a token is refused only for a restart or a resource the client chose itself, and the client of a willing user whose browser does not enforce the page's `form-action` is connected in the end | resource and endpoint each with and without path, slash, query, local and public, another name of the host; five issuers; three lists of servers; proxies that do and do not forward the scheme; external mode with every input of the factory; users of either mind, browsers of either kind; two restarts (one may hit the attempt that follows the other) |
| `OB_deny` (violation) | finding 3, in a browser that sends the form | as `OB_connect`, without restarts |
| `WB_clicks` | an answer finds its click; the handshake comes first; controls that reach no host are shown only while the handshake is unanswered, or after its refusal to the next render; no button of an answering host stays disabled | two buttons, four clicks (a button is used again while the other waits), all hosts |
| `WB_fallback` (violation) | finding 2 | one button |
| `Tools_answers` | the answers of all tools about one project agree | projects of up to two nodes of sixteen kinds, malformed ids and times among them (three when the first and last are equal), two tracks and two cues (either may be `null`), all sources, with odd values too; every tool, focus, format, and some twenty filters |

Symmetry is used for interchangeable identifiers in runs that check safety
only, and in none that checks liveness. Deadlock is checked except where the
system may stop: the process that has exited (`HTTP_*`) or thrown at its start
(`OB_*`), the widget after its last click (`WB_*`).

**Fairness.** `RV_live`: the event loop runs every microtask (weak fairness of
`Resume`) and a timer ends every fetch (strong fairness of its settling, because
turns of other calls may come between for ever). `HTTP_sessions`: the callback
of `close()` runs and a kept-alive connection that is idle times out, which is
Node's part; a client that has begun a request sends the rest of it or breaks
off, which is the client's, because after `close()` Node enforces no request
timeout. Nobody need hang up: an event stream, or a call without an answer, may
be held for ever.
`OB_connect`: the client takes its next step and the server answers it (weak
fairness of `ClientStep` as a whole: no step of the client is owed in
particular; pressing a button is one only where the browser sends the form); there are finitely many restarts, without which nobody need ever
get through. `WB_clicks`, `WB_fallback`: a host that is not silent answers, and
`window.openai` settles its promises. No liveness is claimed of `resolve()`,
whose fetch has no timer.

## 4. Findings

1. **In external mode `/mcp` answers 404** (`oauth/as-handlers.ts:72`, run
   `HTTP_external`). `docs/OAUTH_AS.md:267` says it validates bearers.
2. **A click during a refused handshake never falls back**
   (`widget.ts:103`, run `WB_fallback`). `docs/CHATGPT_APP_SETUP.md:161`.
3. **Deny gives a code** (`oauth/consent-page.ts:47`, run `OB_deny`). The form
   has a hidden field `decision=allow` before its two buttons of the same name,
   and the handler reads the first. `consent-page.ts:20-21` says Deny redirects
   with `access_denied`. It takes a browser that sends the form (section 2).

Observations without a run of their own:

* Gate. `MCP_OAUTH_REQUIRE_AUTH=true` is said to require a JWT of the in-process
  server (`docs/OAUTH_AS.md:42`, `docs/OAUTH_AS.md:215`, `docs/SECURITY.md:72`);
  `checkAuth` takes a token listed in `MCP_AUTH_TOKEN` all the same
  (`auth.ts:83-87`, `auth.ts:97-99`). `Admissible` follows the documents, and
  `OnlyAdmissible` names this one exception.
* Shutdown. A call whose session is closed, by a DELETE or the signal, while its
  body is awaited is handed to a detached transport (`app.ts:256`): it is never
  answered, and if its client holds on, the callback of `index.ts:54` never runs.
  A client that goes on over a kept-alive connection delays it too. Both are
  exceptions of `SignalEnds`; each is reached in the run.
* Tokens. Reuse of a refresh token does not revoke its family
  (`oauth/refresh-token-store.ts:124`, although the comment at lines 14-16 says so;
  `docs/OAUTH_AS.md:385-390` owns the limitation): what holds is that the reused
  token changes nothing (`ExchangedOnce`, `ImplementsLedger`). A family that
  keeps rotating outlives the time to live of its first token
  (`docs/OAUTH_AS.md:128`).
* Caches. A forced refetch that fails or finishes clears `inflight` although a
  newer fetch holds it, so fetches fan out despite the comment at
  `oauth/remote-issuer.ts:90`; the fetch dropped is still awaited by its starter
  (`AwaitsLiveFetch`). An older fetch may overwrite a newer cache, in the
  validator and in the resolver; both are bounded (`AcceptedIsCurrent`,
  `EntriesAge`), and a later call of the resolver may be given an older document
  than an earlier one. `invalidate()` does not stop a fetch in flight.
* Discovery. The document the host-only well-known URL serves (`app.ts:186-191`)
  names the root as the resource; a token for it is refused at `/mcp`.
  `docs/OAUTH_AS.md:31-32` says the document lists the authorization server; by
  default it lists none, and a client has to try the resource's own host. The
  well-known URL of a root resource with a query is not recognised by its route,
  and `/mcp?...` and `/mcp/` are 404: the reasons for the second line of
  `WellConfigured`. In external mode the issuer loses its slash
  (`app.ts:303`) and is then compared with an `iss` that may have one; finding 1
  hides it. `grant_types_supported` leaves out `refresh_token`.
* Consent page. In a browser that enforces its `form-action`
  (`oauth/consent-page.ts:55`) neither button sends anything: every attempt ends
  on the page and no client connects, however the server is configured.
  `WellConfiguredConnects` is claimed of the other browsers only.
* Widget. `hasUsableBridge` counts a handshake that is not yet answered as a
  bridge: with a host that never answers and no `window.openai`, buttons that do
  nothing are shown for ever, and when the host refuses, those shown stay until
  the next render. `docs/ARCHITECTURE.md:94` and `:97` ("Every button either works
  or is absent") and `widget.ts:14-15` say otherwise. `ControlsAreReal` says that
  these two cases are all there are. The bridge-info label is stale as long.
* Tools. A project `validate_project` calls valid may still be refused: by
  `normalize()`, for a non-string `objectUrl` or a value `String()` cannot convert;
  by an output schema, for numeric ids (`find_annotations`, `suggest_labels`),
  numeric parent ids (`find_annotations`), times that are no numbers
  (`find_annotations`, `summarize_annotations`) and odd names or durations of the
  source (`inspect_project`). `RefusedIsNotValid` lists them tool by tool; the plan
  and the report are text and pass. A time that is no number is also found by
  every range on its side.
* Elsewhere. A transport that is never initialized is never closed; the
  resolver's cache is never swept; `export` and `create_review_plan` show nodes
  of duplicate ids; an inverted time range is accepted by `find_annotations`; a `null` cue in a project without tracks is read by `validate()`
  only, so four tools answer and three report an internal error; `proposedLabel`
  of `suggest_labels` is always null, because the adapter has trimmed the label.

## 5. What is proved

For all values of the constants, under the named assumptions of the modules
(disjoint sets of identifiers, natural bounds and lifetimes, finitely many
buttons, URLs that are URLs). In each module the theorems follow from one
inductive invariant, `IInv`, stated beside the properties and checked by TLC
before it was proved.

* **`AuthorizationServerProofs`**: `TypeCorrect`, `OneCredential`, `SingleUse`,
  `Provenance`, `InTime`, `Restarted`, `Spent`, `CodesAreSafe`, `OnlyVerifier`:
  every property of the two `AS_*` runs, and `Refinement`, the server implements
  `ConsentLedger`. The invariants alone are not inductive:
  that a credential is never exchanged twice needs that what has been exchanged
  is in no store (`Lineage`), which needs that a stored record is the one that
  was handed out, in this incarnation (`StoresAgree`), and the lifetimes need the
  arithmetic of `expiresAt` (`Lifetimes`). Every step of the handlers is shown
  to be one of three kinds: it forgets records, it creates a code, or it
  exchanges a credential it removes; the conjuncts of `IInv` are then proved per
  kind. `Spent` adds that the token of an answer is one that was handed out
  (`KnownPresented`). The two action properties follow step by step from
  `IInv`. For the refinement, each kind of step maps to Lapse, Approve or
  Exchange; the holder of a consent is unique by `OneCredentialPerConsent`.
* **`CimdResolverProofs`**: `ResolverTypeCorrect`, `EntriesDieInTime`, and
  `ResolverKeepsPromise`, the resolver implements `LatelyServed`. That a cache
  entry dies in time is not inductive by itself: a document may be on its way
  when its host replaces it, so `EntriesAge` also bounds what is in flight, and
  `SeenNow` ties the history to what the hosts serve.
* **`RemoteValidatorProofs`**: `ValidatorTypeCorrect`, `FetchesAreAwaited`,
  `WithdrawnKeysDie`, `RotationIsFollowed`, and `ValidatorAnswersTruly`, the
  validator implements `AnsweredTokens`. `IInv` bounds the age of every
  document in the cache and on its way (`DocumentsAge`: each of its keys is
  published, or was until lately), says what a retried call knows of the
  document it awaits (`RetryKnows`), and that withdrawn keys are out
  (`WithdrawnIsGone`). For the refinement, a turn of `validate()` asks, answers
  or waits; the reason of an answer is true because the document in hand is
  young enough (`CachedIsHonoured`, `ArrivedIsHonoured`), and a fetch that
  settles touches no question, however many calls share it (`DeliverKeeps`).
* **`HttpAppProofs`**: `AppTypeCorrect`, `SessionsExact`, `GateHolds`: shape, the
  session Map, and that whatever got past the gate was entitled to by the
  documented policy or by the one exception to it. The gate itself is the lemma
  `GateIsPolicy`: `CheckAuth` answers "ok" exactly to what the policy admits and
  to a listed static token where a JWT is required, for any validator outcome but
  an exception. That
  the bearer of an open session was admitted needs that the request whose body
  opened it was, so `OnlyAdmissible` speaks of requests in progress too.
* **`OnboardingProofs`**: `OnboardingTypeCorrect`, `WellConfiguredAdmits`,
  `TokensAreTaken`, for every deployment and not only those of `MCOnboarding`.
  `WellConfiguredAdmits` is about a user who presses Allow; what becomes of Deny is
  finding 3 and no part of it. What the client carries from one request to the
  next has to be what the server gave it: the route (`Routed`), the URL (`OnItsWay`), the page and the code
  (`AskedFor`, `Remembered`), the token (`TokenTraces`).
* **`ReviewWidgetProofs`**: `WidgetTypeCorrect`, `AnswersFound`,
  `NoCallBeforeHandshake`, `RealControls`. The ids drawn are counted against the
  clicks made and those that wait (`ClicksPay`), the handshake's request is alone
  until it settles (`HandshakePending`), and the panel was last shown with a
  project and with what `hasUsableBridge` takes for a bridge (`ShownWithBridge`):
  that leaves dead buttons to the two cases of `RealControls`.

* **`ProjectToolsProofs`**: all seven properties of the tools' answers, for
  every project the type `RawProject` admits, and not only those of
  `MCProjectTools`. The inductive invariant is that each answer is what its tool
  makes of the client's one input, as far as its schema admits it; this holds by
  construction and is only the frame. What remains is to compare the passes over
  one project. For `RefusedIsNotValidHolds`, a refusal is traced to the handler
  (`HandlerRefuses`) or to its schema (`SchemaRefuses`). Nothing is summed or unfolded: a count is the cardinality of the
  set of indices kept, and two counts agree because the sets are disjoint and
  unite to all there is, or are in bijection (an index with the warning about
  it, a pair of a track and a cue with the cue that names the track:
  `OneWarningEach`, `Image`). The reported span has its extremes because a
  finite set of integers has them (`IntegersHaveExtremes`). `ToolsAssumption`
  says of the constants only that projects, labels and filters have their types.

Only model-checked: the four liveness properties (`EveryCallEnds`, `SignalEnds`,
`WellConfiguredConnects`, `EveryClickEnds`): fairness and `ENABLED` are out of
the prover's reach. Every other property of a passing run is a theorem. The
three violated properties are findings.

## 6. Not modelled

* The stdio transport, `list_capabilities`, the prompt, the widget resource, the
  audit log: constants, I/O, or the SDK's own work, without state.
* Shared types and input schemas (`src/shared/types.ts`, `src/server/schemas.ts`):
  declarations; what they admit is what `ProjectTools` takes as input. The output
  schemas are modelled by what they refuse.
* Key generation, JWT and JWKS encoding: perfect primitives here.
* `oauth-tool-result.ts`: nothing calls it.
* Scripts, fixtures and tests: `scripts/oauth-demo.ts` and the others are clients
  that make one fixed sequence of requests each, which the runs of
  `AuthorizationServer`, `HttpApp` and `Onboarding` contain among all others.

## 7. Plan

1. Done: stores, authorization server, ledger and refinement; resolver,
   validator and their promises; gate and sessions; discovery, consent and the
   composition; adapter and tools; widget; proofs of all their safety.
2. Next, proofs: the local issuer as an implementation of a promise of the same
   kind as `AnsweredTokens`; the gate's `checkAuth` with a validator that keeps
   `AnsweredTokens`, in place of one that may answer anything; the widget
   against an abstract call that is answered at most once.
3. Next, models: an `Onboarding` with two clients that share the process, one of
   them a CIMD client through `CimdResolver`; the remote validator behind the
   gate, once `/mcp` is reachable in external mode.
