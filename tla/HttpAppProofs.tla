--------------------------- MODULE HttpAppProofs ---------------------------
(***************************************************************************)
(* Theorems about the HTTP server, for every set of tokens, transports and  *)
(* connections and every environment.                                       *)
(***************************************************************************)
EXTENDS HttpApp, TLAPS

\* The inductive invariant: each part of it is used for the next one.
HttpInv == TypeOK /\ SessionsAreOpen /\ OnlyAdmissible

-----------------------------------------------------------------------------
(* The gate *)

\* checkAuth() lets a request on exactly when the policy admits its bearer or
\* it is a listed token where a JWT is required, unless the validator throws
\* something else than a TokenValidationError.
LEMMA GateIsPolicy ==
    ASSUME NEW bearer, NEW outcome, outcome # "exception",
           NEW env, NoBearer \notin env.statics, env.requireAuth \in BOOLEAN
    PROVE  CheckAuth(env, bearer, outcome) = "ok" <=>
               Admissible(env, bearer, outcome) \/ StaticDespiteRequired(env, bearer)
  BY DEF CheckAuth, Admissible, StaticDespiteRequired, MustAuthenticate, ChallengeFor

\* What is let past the gate is entitled to it.
LEMMA AdmittedIsEntitled ==
    ASSUME TypeOK, NEW req \in Request, Admitted(req)
    PROVE  Entitled(req.bearer)
  <1>1. NoBearer \notin config.statics /\ config.requireAuth \in BOOLEAN
    BY HttpAssumption DEF TypeOK, Configs
  <1>2. Outcome(req.bearer) # "exception"
    BY DEF Outcome
  <1>3. QED
    BY <1>1, <1>2, GateIsPolicy DEF Admitted, Entitled

\* A request goes on with a transport, never with the absence of one.
LEMMA BindsTransport ==
    ASSUME TypeOK, NEW t, Binds(t)
    PROVE  t \in TransportIds
  BY DEF Binds, Known, TypeOK

\* A request in progress is a record of the right shape.
LEMMA BusyConn ==
    ASSUME TypeOK, NEW c \in Conns, conns[c].stage \in {"body", "stream", "unanswered"}
    PROVE  conns[c] \in [stage : {"body", "stream", "unanswered"},
                         transport : TransportIds, bearer : Bearers]
  <1>1. conns[c] \in Conn
    BY DEF TypeOK
  <1>2. Idle.stage = "idle" /\ Gone.stage = "gone"
    BY DEF Idle, Gone
  <1>3. QED
    BY <1>1, <1>2 DEF Conn

\* An answer about a known bearer is a reply.
LEMMA AnswerType ==
    ASSUME NEW path, NEW bearer \in Bearers, NEW status \in Statuses,
           Answer(path, bearer, status)
    PROVE  reply' \in Reply
  BY DEF Answer, Reply

\* Free connections are in order, and bring no new request.
LEMMA FreeConns ==
    /\ Idle \in Conn /\ Gone \in Conn
    /\ Idle.stage \notin {"body", "stream", "unanswered"}
    /\ Gone.stage \notin {"body", "stream", "unanswered"}
  BY DEF Idle, Gone, Conn

\* Whoever is past the gate is entitled, if those who join are.
LEMMA OnlyEntitledJoin ==
    ASSUME OnlyAdmissible, UNCHANGED config,
           \A t \in TransportIds : transports'[t] = "open" =>
               \/ transports[t] = "open" /\ opener'[t] = opener[t]
               \/ Entitled(opener'[t]),
           \A c \in Conns :
               conns'[c] \in {conns[c], Idle, Gone} \/ Entitled(conns'[c].bearer)
    PROVE  OnlyAdmissible'
  <1>1. ASSUME NEW t \in TransportIds, transports'[t] = "open"
        PROVE  Entitled(opener[t])'
    <2>1. Entitled(opener'[t])
      BY <1>1 DEF OnlyAdmissible
    <2>2. QED
      BY <2>1 DEF Entitled, Outcome
  <1>2. ASSUME NEW c \in Conns, (conns[c].stage \in {"body", "stream", "unanswered"})'
        PROVE  Entitled(conns[c].bearer)'
    <2>1. Entitled(conns'[c].bearer)
      BY <1>2, FreeConns DEF OnlyAdmissible
    <2>2. QED
      BY <2>1 DEF Entitled, Outcome
  <1>3. QED
    BY <1>1, <1>2 DEF OnlyAdmissible

-----------------------------------------------------------------------------
(* Closing transports *)

\* The closing of open transports, alone or on shutdown, keeps the state
\* well-formed, the Map exact, and opens nothing.
LEMMA CloseAllKeeps ==
    ASSUME TypeOK, SessionsAreOpen, NEW closed \in SUBSET TransportIds, CloseAll(closed)
    PROVE  /\ transports' \in [TransportIds -> {"unused", "fresh", "open", "closed"}]
           /\ sessions' \subseteq TransportIds
           /\ SessionsAreOpen'
           /\ \A t \in TransportIds : transports'[t] = "open" => transports[t] = "open"
  <1>1. transports' \in [TransportIds -> {"unused", "fresh", "open", "closed"}]
    BY DEF CloseAll, TypeOK
  <1>2. sessions' \subseteq TransportIds
    BY DEF CloseAll, SessionsAfterClose, TypeOK
  <1>3. \A t \in TransportIds : transports'[t] = "open" <=> t \notin closed /\ transports[t] = "open"
    BY DEF CloseAll
  <1>4. sessions' = sessions \ closed
    BY DEF CloseAll, SessionsAfterClose
  <1>5. SessionsAreOpen'
    BY <1>3, <1>4 DEF SessionsAreOpen
  <1>6. QED
    BY <1>1, <1>2, <1>3, <1>5

\* Connections lose at most their request.
LEMMA ConnsAfterCloseType ==
    ASSUME TypeOK, NEW closed
    PROVE  /\ ConnsAfterClose(closed) \in [Conns -> Conn]
           /\ \A c \in Conns : ConnsAfterClose(closed)[c] \in {conns[c], Idle}
  BY FreeConns DEF ConnsAfterClose, TypeOK

-----------------------------------------------------------------------------
(* The steps *)

\* The first state satisfies the invariant.
LEMMA HttpInit == Init => HttpInv
  <1> SUFFICES ASSUME Init PROVE HttpInv
    OBVIOUS
  <1>1. TypeOK
    BY DEF Init, TypeOK, Bearers, Conn, Reply
  <1>2. SessionsAreOpen
    BY DEF Init, SessionsAreOpen
  <1>3. OnlyAdmissible
    BY FreeConns DEF Init, OnlyAdmissible
  <1>4. QED
    BY <1>1, <1>2, <1>3 DEF HttpInv

\* A request that comes in leaves its trace in the history only.
LEMMA TakesType ==
    ASSUME TypeOK, NEW c \in Conns, Takes(c)
    PROVE  late' \in BOOLEAN
  BY DEF Takes, TypeOK

\* Nothing but the answer changes.
LEMMA RefuseKeeps ==
    ASSUME HttpInv, NEW c \in Conns, Refuse(c)
    PROVE  HttpInv'
  <1> USE DEF HttpInv
  <1>1. reply' \in Reply
    <2>1. PICK req \in Request :
            reply' = [mcp |-> req.path = "/mcp", bearer |-> req.bearer, status |-> EarlyStatus(req)]
      BY DEF Refuse, EarlyAnswers
    <2>2. req.bearer \in Bearers
      BY DEF Request
    <2>3. \A route : RouteStatus(route) \in Statuses
      BY DEF RouteStatus, Statuses
    <2>4. \A error : ChallengeStatus(error) \in Statuses
      BY DEF ChallengeStatus, Statuses
    <2>5. EarlyStatus(req) \in Statuses
      BY <2>3, <2>4 DEF EarlyStatus
    <2>6. QED
      BY <2>1, <2>2, <2>5 DEF Reply
  <1>2. UNCHANGED <<config, process, sessions, transports, opener, conns>>
    BY DEF Refuse
  <1>3. late' \in BOOLEAN
    BY TakesType DEF Refuse
  <1>4. OnlyAdmissible'
    BY <1>2, OnlyEntitledJoin
  <1>5. QED
    BY <1>1, <1>2, <1>3, <1>4 DEF TypeOK, SessionsAreOpen

\* A transport that a request finds is open afterwards only if it was.
LEMMA FoundType ==
    ASSUME TypeOK, NEW t \in TransportIds
    PROVE  /\ Found(t) \in {"fresh", "open", "closed"}
           /\ Found(t) = "open" <=> transports[t] = "open"
  BY DEF TypeOK, Found

\* A request in progress is added, made by an admitted bearer; the sessions
\* are those they were.
LEMMA BeginPostKeeps ==
    ASSUME HttpInv, NEW c \in Conns, BeginPost(c)
    PROVE  HttpInv'
  <1> USE DEF HttpInv
  <1>1. PICK req \in Request, t \in SessionHeader :
            /\ Admitted(req)
            /\ Binds(t)
            /\ conns' = [conns EXCEPT ![c] = [stage |-> "body", transport |-> t, bearer |-> req.bearer]]
            /\ transports' = [u \in TransportIds |-> IF u = t THEN Found(t) ELSE transports[u]]
    BY DEF BeginPost
  <1>2. t \in TransportIds
    BY <1>1, BindsTransport
  <1>3. /\ reply' = NoReply
        /\ late' \in BOOLEAN
        /\ UNCHANGED <<config, process, sessions, opener>>
    BY TakesType DEF BeginPost
  <1> DEFINE conn == [stage |-> "body", transport |-> t, bearer |-> req.bearer]
  <1>4. conn \in Conn
    BY <1>2 DEF Conn, Request
  <1>5. TypeOK'
    BY <1>1, <1>2, <1>3, <1>4, FoundType DEF TypeOK, Reply
  <1>6. \A u \in TransportIds : transports'[u] = "open" <=> transports[u] = "open"
    BY <1>1, <1>2, FoundType
  <1>7. SessionsAreOpen'
    BY <1>3, <1>6 DEF SessionsAreOpen
  <1>8. OnlyAdmissible'
    <2>1. Entitled(conn.bearer)
      BY <1>1, AdmittedIsEntitled
    <2>2. \A d \in Conns : conns'[d] = IF d = c THEN conn ELSE conns[d]
      BY <1>1 DEF TypeOK
    <2> HIDE DEF conn
    <2>3. QED
      BY <1>3, <1>6, <2>1, <2>2, OnlyEntitledJoin
  <1>9. QED
    BY <1>5, <1>7, <1>8

\* As BeginPost, and an event stream that is refused changes nothing.
LEMMA OpenStreamKeeps ==
    ASSUME HttpInv, NEW c \in Conns, OpenStream(c)
    PROVE  HttpInv'
  <1> USE DEF HttpInv
  <1>1. PICK req \in {r \in Request : r.method = "GET" /\ Admitted(r)}, t \in TransportIds :
            /\ transports' = [transports EXCEPT ![t] = Found(t)]
            /\ \/ /\ Found(t) = "open" /\ ~Taken(t)
                  /\ conns' = [conns EXCEPT ![c] = [stage |-> "stream", transport |-> t, bearer |-> req.bearer]]
                  /\ reply' = NoReply
               \/ /\ Found(t) = "open" /\ Taken(t)
                  /\ Answer(req.path, req.bearer, 409)
                  /\ UNCHANGED conns
               \/ /\ Found(t) # "open"
                  /\ Answer(req.path, req.bearer, 400)
                  /\ UNCHANGED conns
    BY Zenon DEF OpenStream
  <1>2. late' \in BOOLEAN /\ UNCHANGED <<config, process, sessions, opener>>
    BY TakesType DEF OpenStream
  <1> DEFINE conn == [stage |-> "stream", transport |-> t, bearer |-> req.bearer]
  <1>3. conn \in Conn /\ req.bearer \in Bearers
    BY DEF Conn, Request
  <1>4. reply' \in Reply
    BY <1>1, <1>3, AnswerType DEF Reply, Statuses
  <1>5. \A d \in Conns : conns'[d] = conns[d] \/ conns'[d] = conn
    BY <1>1 DEF TypeOK
  <1>6. conns' \in [Conns -> Conn]
    BY <1>1, <1>3 DEF TypeOK
  <1>7. transports' \in [TransportIds -> {"unused", "fresh", "open", "closed"}]
    BY <1>1, FoundType DEF TypeOK
  <1>8. \A u \in TransportIds : transports'[u] = "open" <=> transports[u] = "open"
    BY <1>1, FoundType DEF TypeOK
  <1>9. SessionsAreOpen'
    BY <1>2, <1>8 DEF SessionsAreOpen
  <1>10. OnlyAdmissible'
    <2>1. Entitled(conn.bearer)
      BY <1>1, AdmittedIsEntitled
    <2> HIDE DEF conn
    <2>2. QED
      BY <1>2, <1>5, <1>8, <2>1, OnlyEntitledJoin
  <1>11. TypeOK'
    BY <1>2, <1>4, <1>6, <1>7 DEF TypeOK
  <1>12. QED
    BY <1>9, <1>10, <1>11

\* Either an open session is closed, or the transport found is not open.
LEMMA DeleteSessionKeeps ==
    ASSUME HttpInv, NEW c \in Conns, DeleteSession(c)
    PROVE  HttpInv'
  <1> USE DEF HttpInv
  <1>1. PICK req \in {r \in Request : r.method = "DELETE" /\ Admitted(r)}, t \in TransportIds :
            /\ Binds(t)
            /\ \/ /\ Found(t) = "open"
                  /\ CloseAll({t})
                  /\ conns' = ConnsAfterClose({t})
                  /\ Answer(req.path, req.bearer, 200)
               \/ /\ Found(t) # "open"
                  /\ transports' = [transports EXCEPT ![t] = Found(t)]
                  /\ Answer(req.path, req.bearer, 400)
                  /\ UNCHANGED <<sessions, conns>>
    BY Zenon DEF DeleteSession
  <1>2. late' \in BOOLEAN /\ UNCHANGED <<config, process, opener>>
    BY TakesType DEF DeleteSession
  <1>3. reply' \in Reply
    <2>1. req.bearer \in Bearers
      BY DEF Request
    <2>2. QED
      BY <1>1, <2>1, AnswerType DEF Statuses
  <1>4. CASE CloseAll({t}) /\ conns' = ConnsAfterClose({t})
    <2>1. OnlyAdmissible'
      BY <1>2, <1>4, CloseAllKeeps, ConnsAfterCloseType, OnlyEntitledJoin
    <2>2. QED
      BY <1>2, <1>3, <1>4, <2>1, CloseAllKeeps, ConnsAfterCloseType DEF TypeOK
  <1>5. CASE /\ transports' = [transports EXCEPT ![t] = Found(t)]
             /\ UNCHANGED <<sessions, conns>>
    <2>1. transports' \in [TransportIds -> {"unused", "fresh", "open", "closed"}]
      BY <1>5, FoundType DEF TypeOK
    <2>2. \A u \in TransportIds : transports'[u] = "open" <=> transports[u] = "open"
      BY <1>5, FoundType DEF TypeOK
    <2>3. OnlyAdmissible'
      BY <1>2, <1>5, <2>2, OnlyEntitledJoin
    <2>4. QED
      BY <1>2, <1>3, <1>5, <2>1, <2>2, <2>3 DEF TypeOK, SessionsAreOpen
  <1>6. QED
    BY <1>1, <1>4, <1>5

\* Only an initialize request of a fresh transport opens a session, and then
\* the Map gains it, opened by a bearer that was admitted before the await;
\* the request is over, or goes on without an answer.
LEMMA BodyKeeps ==
    ASSUME HttpInv, NEW c \in Conns, Body(c)
    PROVE  HttpInv'
  <1> USE DEF HttpInv
  <1> DEFINE t == conns[c].transport
             b == conns[c].bearer
             left == [conns[c] EXCEPT !.stage = "unanswered"]
  <1>1. conns[c].stage = "body" /\ UNCHANGED <<config, process, late>>
    BY DEF Body
  <1>2. /\ t \in TransportIds /\ b \in Bearers
        /\ left \in Conn /\ left.bearer = b
    <2>1. conns[c] \in [stage : {"body", "stream", "unanswered"},
                        transport : TransportIds, bearer : Bearers]
      BY <1>1, BusyConn
    <2>2. QED
      BY <2>1 DEF Conn
  <1>3. Entitled(b)
    BY <1>1 DEF OnlyAdmissible
  <1>4. \/ UNCHANGED <<sessions, transports, opener>>
        \/ /\ transports' = [transports EXCEPT ![t] = "open"]
           /\ sessions' = sessions \cup {t}
           /\ opener' = [opener EXCEPT ![t] = b]
    BY Zenon DEF Body
  <1>5. \/ conns' = [conns EXCEPT ![c] = Idle]
        \/ conns' = [conns EXCEPT ![c].stage = "unanswered"]
    BY Zenon DEF Body
  <1>6. \/ reply' = NoReply
        \/ Answer("/mcp", b, 200) \/ Answer("/mcp", b, 202)
        \/ Answer("/mcp", b, 400) \/ Answer("/mcp", b, 500)
    BY Zenon DEF Body
  <1>7. reply' \in Reply
    BY <1>2, <1>6, AnswerType DEF Statuses, Reply
  <1>8. /\ conns' \in [Conns -> Conn]
        /\ \A d \in Conns : conns'[d] \in {conns[d], Idle} \/ conns'[d].bearer = b
    BY <1>2, <1>5, FreeConns DEF TypeOK
  <1> HIDE DEF t, b, left
  <1>9. CASE UNCHANGED <<sessions, transports, opener>>
    <2>1. OnlyAdmissible'
      BY <1>1, <1>3, <1>8, <1>9, OnlyEntitledJoin
    <2>2. QED
      BY <1>1, <1>7, <1>8, <1>9, <2>1 DEF TypeOK, SessionsAreOpen
  <1>10. CASE /\ transports' = [transports EXCEPT ![t] = "open"]
              /\ sessions' = sessions \cup {t}
              /\ opener' = [opener EXCEPT ![t] = b]
    <2>1. TypeOK'
      BY <1>1, <1>2, <1>7, <1>8, <1>10 DEF TypeOK
    <2>2. \A u \in TransportIds : transports'[u] = "open" <=> u = t \/ transports[u] = "open"
      BY <1>10 DEF TypeOK
    <2>3. \A u \in TransportIds : opener'[u] = IF u = t THEN b ELSE opener[u]
      BY <1>10 DEF TypeOK
    <2>4. SessionsAreOpen'
      BY <1>2, <1>10, <2>2 DEF SessionsAreOpen
    <2>5. OnlyAdmissible'
      BY <1>1, <1>3, <1>8, <2>2, <2>3, OnlyEntitledJoin
    <2>6. QED
      BY <2>1, <2>4, <2>5
  <1>11. QED
    BY <1>4, <1>9, <1>10

\* A connection is freed or closed; the sessions stay.
LEMMA ReleaseKeeps ==
    ASSUME HttpInv, NEW c \in Conns, HangUp(c) \/ KeepAliveEnds(c)
    PROVE  HttpInv'
  <1> USE DEF HttpInv
  <1>1. /\ \/ conns' = [conns EXCEPT ![c] = Idle]
           \/ conns' = [conns EXCEPT ![c] = Gone]
        /\ reply' = NoReply
        /\ UNCHANGED <<config, process, sessions, transports, opener, late>>
    BY DEF HangUp, KeepAliveEnds
  <1>2. /\ conns' \in [Conns -> Conn]
        /\ \A d \in Conns : conns'[d] \in {conns[d], Idle, Gone}
    BY <1>1, FreeConns DEF TypeOK
  <1>3. OnlyAdmissible'
    BY <1>1, <1>2, OnlyEntitledJoin
  <1>4. QED
    BY <1>1, <1>2, <1>3 DEF TypeOK, Reply, SessionsAreOpen

\* Shutdown closes the sessions of the Map.
LEMMA SignalKeeps ==
    ASSUME HttpInv, Signal
    PROVE  HttpInv'
  <1> USE DEF HttpInv
  <1>1. /\ process' = "draining"
        /\ CloseAll(sessions)
        /\ conns' = [c \in Conns |-> IF conns[c] = Idle THEN Gone ELSE ConnsAfterClose(sessions)[c]]
        /\ reply' = NoReply
        /\ UNCHANGED <<config, opener, late>>
    BY DEF Signal, CloseSessions
  <1>2. sessions \in SUBSET TransportIds
    BY DEF TypeOK
  <1>3. /\ conns' \in [Conns -> Conn]
        /\ \A c \in Conns : conns'[c] \in {conns[c], Idle, Gone}
    BY <1>1, ConnsAfterCloseType, FreeConns
  <1>4. OnlyAdmissible'
    BY <1>1, <1>2, <1>3, CloseAllKeeps, OnlyEntitledJoin
  <1>5. QED
    BY <1>1, <1>2, <1>3, <1>4, CloseAllKeeps DEF TypeOK, Reply

\* Every step of the server keeps the invariant.
LEMMA HttpStep == HttpInv /\ [Next]_vars => HttpInv'
  <1> SUFFICES ASSUME HttpInv, [Next]_vars
               PROVE  HttpInv'
    OBVIOUS
  <1>1. CASE Signal
    BY <1>1, SignalKeeps
  <1>2. CASE Exit \/ UNCHANGED vars
    <2>1. /\ UNCHANGED <<config, sessions, transports, opener, conns, late>>
          /\ process' \in {process, "exited"}
          /\ reply' \in {reply, NoReply}
      BY <1>2 DEF Exit, vars
    <2>2. OnlyAdmissible'
      BY <2>1, OnlyEntitledJoin DEF HttpInv
    <2>3. QED
      BY <2>1, <2>2 DEF HttpInv, TypeOK, Reply, SessionsAreOpen
  <1>3. ASSUME NEW c \in Conns, Refuse(c) PROVE HttpInv'
    BY <1>3, RefuseKeeps
  <1>4. ASSUME NEW c \in Conns, BeginPost(c) PROVE HttpInv'
    BY <1>4, BeginPostKeeps
  <1>5. ASSUME NEW c \in Conns, OpenStream(c) PROVE HttpInv'
    BY <1>5, OpenStreamKeeps
  <1>6. ASSUME NEW c \in Conns, DeleteSession(c) PROVE HttpInv'
    BY <1>6, DeleteSessionKeeps
  <1>7. ASSUME NEW c \in Conns, Body(c) PROVE HttpInv'
    BY <1>7, BodyKeeps
  <1>8. ASSUME NEW c \in Conns, HangUp(c) \/ KeepAliveEnds(c) PROVE HttpInv'
    BY <1>8, ReleaseKeeps
  <1>9. QED
    BY <1>1, <1>2, <1>3, <1>4, <1>5, <1>6, <1>7, <1>8 DEF Next

-----------------------------------------------------------------------------
(* The theorems *)

\* The invariant holds in every reachable state.
THEOREM HttpInvariant == Spec => []HttpInv
  BY HttpInit, HttpStep, PTL DEF Spec

\* The state of the server keeps its shape.
THEOREM AppTypeCorrect == Spec => []TypeOK
  BY HttpInvariant, PTL DEF HttpInv

\* The Map of sessions (app.ts) holds exactly the open sessions, whatever
\* requests, closings and awaits of a body interleave.
THEOREM SessionsExact == Spec => []SessionsAreOpen
  BY HttpInvariant, PTL DEF HttpInv

\* Every session and every request in progress is one that the documented
\* policy admits, or one of a listed static token where a JWT is required (the
\* code's exception to docs/OAUTH_AS.md:42): nothing else gets round
\* checkAuth, not even across the await of a body or after the signal.
THEOREM GateHolds == Spec => []OnlyAdmissible
  BY HttpInvariant, PTL DEF HttpInv
=============================================================================
