------------------------------ MODULE HttpApp ------------------------------
(***************************************************************************)
(* The HTTP server of src/src/server/app.ts and its shutdown in index.ts:  *)
(* the Map of MCP sessions, the requests that look one up and then await   *)
(* their body, and the signal that closes everything.                      *)
(*                                                                         *)
(* Awaits that only queue microtasks (the local validator, server.connect, *)
(* the closing of a transport) let nothing else run and are not split; the *)
(* body of a POST arrives from the network, so its request is two actions. *)
(*                                                                         *)
(* StreamableHTTPServerTransport belongs to the MCP SDK: it is modelled by *)
(* what app.ts relies on.  A transport is fresh until an initialize request*)
(* gives it a session id (here, itself), then open until it is closed.  A  *)
(* closed one is cut off from its server: it still takes a call, opens the *)
(* event stream of the answer, and nobody writes to it or ends it.         *)
(*                                                                         *)
(* httpServer.close() belongs to Node: it stops listening and drops the    *)
(* connections that are idle.  One with a request in progress stays, and is*)
(* kept alive for a while afterwards, during which it may bring another.   *)
(***************************************************************************)
EXTENDS HttpGate, Naturals, FiniteSets

CONSTANTS Modes,        \* the values of MCP_OAUTH_MODE looked at
          ValidTokens,  \* bearers the local issuer signed, unexpired
          OtherTokens,  \* any other bearer
          TransportIds, \* bounds the transports ever created
          Conns,        \* bounds the connections
          NoSession

Bearers == ValidTokens \cup OtherTokens \cup {NoBearer}

ASSUME HttpAssumption ==
    /\ Modes \subseteq {"local", "external"}
    /\ ValidTokens \cap OtherTokens = {}
    /\ NoBearer \notin ValidTokens \cup OtherTokens
    /\ NoSession \notin TransportIds

VARIABLES
    config,     \* the environment of the process
    process,    \* serving, draining (after the signal) or exited
    sessions,   \* transports: the Map of sessions, keyed by session id
    transports, \* the state of every transport created
    opener,     \* history: transport -> the bearer it was opened with
    conns,      \* the connections, each with its request in progress
    late,       \* history: a request came in after the signal
    reply       \* the answer given by this step, or NoReply

vars == <<config, process, sessions, transports, opener, conns, late, reply>>

Configs ==
    [mode : Modes, requireAuth : BOOLEAN, statics : SUBSET OtherTokens]

Request == [originAllowed : BOOLEAN, method : Methods, path : Paths, bearer : Bearers]

\* The mcp-session-id header.
SessionHeader == TransportIds \cup {NoSession}

\* A connection without a request (while serving: also one to be opened), and
\* one that is closed for good.
Idle == [stage |-> "idle"]
Gone == [stage |-> "gone"]

\* 400 stands for every refusal of a message by the SDK.
NoReply  == [status |-> 0]
Statuses == {200, 202, 204, 400, 401, 403, 404, 409, 500}
Reply    == {NoReply} \cup [mcp : BOOLEAN, bearer : Bearers, status : Statuses]

\* A POST that waits for its body, a GET whose event stream is open, a call
\* that will never be answered.
Conn == {Idle, Gone} \cup
    [stage : {"body", "stream", "unanswered"}, transport : TransportIds, bearer : Bearers]

\* The local issuer's verdict on a bearer.
Outcome(bearer) == IF bearer \in ValidTokens THEN "ok" ELSE "invalid_token"

\* Of the path it is kept whether it is /mcp.
Answer(path, bearer, status) ==
    reply' = [mcp |-> path = "/mcp", bearer |-> bearer, status |-> status]

Init ==
    /\ config \in Configs
    /\ process = "serving"
    /\ sessions = {}
    /\ transports = [t \in TransportIds |-> "unused"]
    /\ opener = [t \in TransportIds |-> NoBearer]
    /\ conns = [c \in Conns |-> Idle]
    /\ late = FALSE
    /\ reply = NoReply

-----------------------------------------------------------------------------
\* Mutant: a closed session stays in the Map.
KeepOnClose(closed) == sessions

\* transport.onclose of these transports.
SessionsAfterClose(closed) == sessions \ closed

\* transport.close() of these transports: onclose.
CloseAll(closed) ==
    /\ transports' = [t \in TransportIds |-> IF t \in closed THEN "closed" ELSE transports[t]]
    /\ sessions' = SessionsAfterClose(closed)

\* Their event streams end.
ConnsAfterClose(closed) ==
    [c \in Conns |->
        IF conns[c].stage = "stream" /\ conns[c].transport \in closed THEN Idle ELSE conns[c]]

\* A request comes in, on a connection that is free for it.
Takes(c) ==
    /\ process # "exited"
    /\ conns[c] = Idle
    /\ late' = (late \/ process = "draining")

\* The request passes the gate.
Admitted(req) ==
    /\ Route(config, req) = "gate"
    /\ CheckAuth(config, req.bearer, Outcome(req.bearer)) = "ok"

\* The status of an answer given before a session is looked up.
EarlyStatus(req) ==
    IF Route(config, req) # "gate"
    THEN RouteStatus(Route(config, req))
    ELSE ChallengeStatus(CheckAuth(config, req.bearer, Outcome(req.bearer)))

EarlyAnswers ==
    {[mcp |-> req.path = "/mcp", bearer |-> req.bearer, status |-> EarlyStatus(req)] :
        req \in {r \in Request : ~Admitted(r)}}

\* A request that a route, the origin check or checkAuth answers.
Refuse(c) ==
    /\ Takes(c)
    /\ reply' \in EarlyAnswers
    /\ UNCHANGED <<config, process, sessions, transports, opener, conns>>

\* Mutant: the header is taken at its word.
KnownByHeader(session) == TRUE

\* transports.get(sessionId) finds a session.
Known(session) == session \in sessions

\* A request past the gate names a session of the Map, or a server and a
\* transport are made and connected for it: it goes on with transport t.
Binds(t) ==
    \E session \in SessionHeader :
        \/ Known(session) /\ t = session
        \/ ~Known(session) /\ t \in TransportIds /\ transports[t] = "unused"

\* The transport as the request finds it: a new one is fresh.
Found(t) == IF transports[t] = "unused" THEN "fresh" ELSE transports[t]

\* POST /mcp: session in hand, the body is awaited.
BeginPost(c) ==
    /\ Takes(c)
    /\ \E req \in {r \in Request : r.method = "POST" /\ Admitted(r)}, t \in SessionHeader :
        /\ Binds(t)
        /\ conns' = [conns EXCEPT ![c] = [stage |-> "body", transport |-> t, bearer |-> req.bearer]]
        /\ transports' = [u \in TransportIds |-> IF u = t THEN Found(t) ELSE transports[u]]
    /\ reply' = NoReply
    /\ UNCHANGED <<config, process, sessions, opener>>

\* The session has its event stream already.
Taken(t) == \E d \in Conns : conns[d].stage = "stream" /\ conns[d].transport = t

\* GET /mcp: the one event stream of an open session.
OpenStream(c) ==
    /\ Takes(c)
    /\ \E req \in {r \in Request : r.method = "GET" /\ Admitted(r)}, t \in TransportIds :
        /\ Binds(t)
        /\ transports' = [transports EXCEPT ![t] = Found(t)]
        /\ \/ /\ Found(t) = "open" /\ ~Taken(t)
              /\ conns' = [conns EXCEPT ![c] = [stage |-> "stream", transport |-> t, bearer |-> req.bearer]]
              /\ reply' = NoReply
           \/ /\ Found(t) = "open" /\ Taken(t)
              /\ Answer(req.path, req.bearer, 409)
              /\ UNCHANGED conns
           \/ /\ Found(t) # "open"
              /\ Answer(req.path, req.bearer, 400)
              /\ UNCHANGED conns
    /\ UNCHANGED <<config, process, sessions, opener>>

\* DELETE /mcp: the client ends its session.
DeleteSession(c) ==
    /\ Takes(c)
    /\ \E req \in {r \in Request : r.method = "DELETE" /\ Admitted(r)}, t \in TransportIds :
        /\ Binds(t)
        /\ \/ /\ Found(t) = "open"
              /\ CloseAll({t})
              /\ conns' = ConnsAfterClose({t})
              /\ Answer(req.path, req.bearer, 200)
           \/ /\ Found(t) # "open"
              /\ transports' = [transports EXCEPT ![t] = Found(t)]
              /\ Answer(req.path, req.bearer, 400)
              /\ UNCHANGED <<sessions, conns>>
    /\ UNCHANGED <<config, process, opener>>

\* The body has arrived and readJson is over: the transport handles it, in
\* whatever state it is by now.
Body(c) ==
    /\ conns[c].stage = "body"
    /\ LET t == conns[c].transport
           b == conns[c].bearer IN
        \* not JSON, or the connection breaks off: the catch block answers
        \/ /\ Answer("/mcp", b, 500)
           /\ conns' = [conns EXCEPT ![c] = Idle]
           /\ UNCHANGED <<sessions, transports, opener>>
        \* initialize: onsessioninitialized puts the session in the Map
        \/ /\ transports[t] = "fresh"
           /\ transports' = [transports EXCEPT ![t] = "open"]
           /\ sessions' = sessions \cup {t}
           /\ opener' = [opener EXCEPT ![t] = b]
           /\ Answer("/mcp", b, 200)
           /\ conns' = [conns EXCEPT ![c] = Idle]
        \* a malformed message, a second initialize, anything else when fresh
        \/ /\ Answer("/mcp", b, 400)
           /\ conns' = [conns EXCEPT ![c] = Idle]
           /\ UNCHANGED <<sessions, transports, opener>>
        \* a notification
        \/ /\ transports[t] \in {"open", "closed"}
           /\ Answer("/mcp", b, 202)
           /\ conns' = [conns EXCEPT ![c] = Idle]
           /\ UNCHANGED <<sessions, transports, opener>>
        \* a call
        \/ /\ transports[t] = "open"
           /\ Answer("/mcp", b, 200)
           /\ conns' = [conns EXCEPT ![c] = Idle]
           /\ UNCHANGED <<sessions, transports, opener>>
        \* a call of a session that was closed during the await
        \/ /\ transports[t] = "closed"
           /\ conns' = [conns EXCEPT ![c].stage = "unanswered"]
           /\ reply' = NoReply
           /\ UNCHANGED <<sessions, transports, opener>>
    /\ UNCHANGED <<config, process, late>>

\* The client drops its event stream, or a call it has no answer to; the
\* session stays.
HangUp(c) ==
    /\ conns[c].stage \in {"stream", "unanswered"}
    /\ conns' = [conns EXCEPT ![c] = IF process = "serving" THEN Idle ELSE Gone]
    /\ reply' = NoReply
    /\ UNCHANGED <<config, process, sessions, transports, opener, late>>

\* Mutant: the sessions stay open, and their event streams with them.
CloseNothing ==
    /\ UNCHANGED <<transports, sessions>>
    /\ conns' = [c \in Conns |-> IF conns[c] = Idle THEN Gone ELSE conns[c]]

\* Every session of the Map is closed, then the idle connections.
CloseSessions ==
    /\ CloseAll(sessions)
    /\ conns' = [c \in Conns |->
            IF conns[c] = Idle THEN Gone ELSE ConnsAfterClose(sessions)[c]]

\* SIGINT or SIGTERM, the first or a further one.
Signal ==
    /\ process # "exited"
    /\ process' = "draining"
    /\ CloseSessions
    /\ reply' = NoReply
    /\ UNCHANGED <<config, opener, late>>

\* A connection that was kept alive times out.
KeepAliveEnds(c) ==
    /\ process = "draining"
    /\ conns[c] = Idle
    /\ conns' = [conns EXCEPT ![c] = Gone]
    /\ reply' = NoReply
    /\ UNCHANGED <<config, process, sessions, transports, opener, late>>

\* httpServer.close() calls back when the last connection is gone.
Exit ==
    /\ process = "draining"
    /\ \A c \in Conns : conns[c] = Gone
    /\ process' = "exited"
    /\ reply' = NoReply
    /\ UNCHANGED <<config, sessions, transports, opener, conns, late>>

Next ==
    \/ Signal \/ Exit
    \/ \E c \in Conns :
        \/ Refuse(c) \/ BeginPost(c) \/ OpenStream(c) \/ DeleteSession(c)
        \/ Body(c) \/ HangUp(c) \/ KeepAliveEnds(c)

Spec == Init /\ [][Next]_vars

\* The callback of close() runs, an idle connection times out, and a client
\* that has begun a request sends the rest of it or breaks off (after close()
\* Node enforces no requestTimeout any more, so this is the client's part).
\* Nobody hangs up: an event stream may be held for ever.
Fairness ==
    /\ WF_vars(Exit)
    /\ \A c \in Conns : WF_vars(Body(c)) /\ WF_vars(KeepAliveEnds(c))

FairSpec == Spec /\ Fairness

-----------------------------------------------------------------------------
(* Properties *)

\* The shape of the state.
TypeOK ==
    /\ config \in Configs
    /\ process \in {"serving", "draining", "exited"}
    /\ sessions \subseteq TransportIds
    /\ transports \in [TransportIds -> {"unused", "fresh", "open", "closed"}]
    /\ opener \in [TransportIds -> Bearers]
    /\ conns \in [Conns -> Conn]
    /\ late \in BOOLEAN
    /\ reply \in Reply

\* The Map holds exactly the sessions that are open: none is lost to
\* /ready and the shutdown loop, none is handed out after it was closed.
SessionsAreOpen == sessions = {t \in TransportIds : transports[t] = "open"}

\* A bearer the policy admits, or a listed token where a JWT is required.
Entitled(bearer) ==
    Admissible(config, bearer, Outcome(bearer)) \/ StaticDespiteRequired(config, bearer)

\* Whatever has got past the gate was entitled to by the documented policy,
\* with one exception the code makes against docs/OAUTH_AS.md:42: a listed
\* static token under MCP_OAUTH_REQUIRE_AUTH.  It is so of who opened each
\* session and of who makes each request in progress, also of one whose session
\* was opened or closed by somebody else during the await of its body.
OnlyAdmissible ==
    /\ \A t \in TransportIds : transports[t] = "open" => Entitled(opener[t])
    /\ \A c \in Conns : conns[c].stage \in {"body", "stream", "unanswered"} => Entitled(conns[c].bearer)

\* After a signal the process ends, even if no client ever lets go of its event
\* stream, with two exceptions: a call is left without an answer because its
\* session was closed while its body was awaited (index.ts:54 then waits for
\* that client), or a client goes on over a connection that was kept alive.
SignalEnds ==
    process = "draining" ~>
        \/ process = "exited"
        \/ \E c \in Conns : conns[c].stage = "unanswered"
        \/ late

-----------------------------------------------------------------------------
(* What the repository says and the code does not do *)

\* docs/OAUTH_AS.md:267-268: in external mode "The `/mcp` endpoint validates
\* inbound Bearer tokens against the IdP's JWKS", and a call with a token of
\* the IdP gets "200 OK with a session-id header" (line 331): a valid token
\* is never told that /mcp does not exist.
ValidTokenFindsMcp ==
    reply # NoReply /\ reply.mcp /\ reply.bearer \in ValidTokens => reply.status # 404
=============================================================================
