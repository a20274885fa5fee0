---------------------------- MODULE ReviewWidget ----------------------------
(***************************************************************************)
(* The review widget, src/src/widget/widget.ts, in its iframe: a handshake  *)
(* with the host over postMessage, buttons that call a tool through the     *)
(* host bridge or else through window.openai, and tool results pushed by    *)
(* the host that decide what is shown.                                      *)
(*                                                                          *)
(* The host is the environment.  It may speak the MCP Apps bridge, refuse   *)
(* it (a JSON-RPC host that answers with errors) or stay silent, and it may *)
(* inject window.openai.  It answers requests in any order.                 *)
(*                                                                          *)
(* A click goes from one await to the next in one action.  The result of a  *)
(* call is stored in lastToolResult, which nothing reads: left out.         *)
(***************************************************************************)
EXTENDS Naturals, FiniteSets, Maps

CONSTANTS Buttons,
          Bridges,      \* the kinds of host looked at: speaks, refuses, silent
          MaxClicks     \* bounds the clicks

ASSUME WidgetAssumption ==
    /\ Bridges \subseteq {"speaks", "refuses", "silent"}
    /\ MaxClicks \in Nat
    /\ IsFiniteSet(Buttons) /\ "init" \notin Buttons

VARIABLES
    host,       \* the kind of host
    bridgeReady,\* the promise of the handshake: waiting, ready, or null
    rpcId,      \* the last request id drawn
    pending,    \* request id -> who waits for the answer: "init" or a button
    inbox,      \* the requests the host has not answered
    buttons,    \* where the click of each button is; disabled unless "idle"
    project,    \* lastProjectData is there
    panelHidden,\* focusPanel.hidden
    info,       \* the text of the bridge-info span
    clicks,     \* how many clicks so far
    viaLegacy   \* history: the buttons whose last click called window.openai

shown == <<project, panelHidden, info>>
vars  == <<host, bridgeReady, rpcId, pending, inbox, buttons, shown, clicks, viaLegacy>>

Hosts == [bridge : Bridges, legacy : BOOLEAN]
Owners == Buttons \cup {"init"}
\* A click awaits the handshake, its tools/call, or window.openai.
Stages == {"idle", "handshake", "apps", "legacy"}

-----------------------------------------------------------------------------
\* Mutant: the id is incremented once more where the resolver is stored.
IncrementedTwice == rpcId + 2

\* Mutant: the counter is not advanced, every call draws the same id.
SameId == 2

FreshId == rpcId + 1

\* rpcRequest: remember who waits, post the message.
RpcRequest(owner) ==
    /\ rpcId' = rpcId + 1
    /\ pending' = Put(pending, FreshId, owner)
    /\ inbox' = inbox \cup {FreshId}

\* The page is loaded and initAppsHostBridge() has posted ui/initialize.
Init ==
    /\ host \in Hosts
    /\ bridgeReady = "waiting"
    /\ rpcId = 1
    /\ pending = Put(EmptyMap, 1, "init")
    /\ inbox = {1}
    /\ buttons = [b \in Buttons |-> "idle"]
    /\ project = FALSE
    /\ panelHidden = TRUE
    /\ info = "detecting"
    /\ clicks = 0
    /\ viaLegacy = {}

\* hasUsableBridge() and describeBridge(): a promise that is pending is as true
\* as a settled one.
HasUsableBridge == bridgeReady # "null" \/ host.legacy

DescribeBridge ==
    IF bridgeReady # "null" THEN "mcp-apps-host"
    ELSE IF host.legacy THEN "legacy" ELSE "none"

\* Mutant: the panel is shown whenever there is a project to review.
HiddenWithoutProject(withProject) == ~withProject

\* render(): focusPanel.hidden
Hidden(withProject) == ~HasUsableBridge \/ ~withProject

\* The host pushes a tool result, with or without the project: render().
\* Either message listener branch (a notification, a bare result) ends here.
Render ==
    /\ \E withProject \in BOOLEAN : project' = (project \/ withProject)
    /\ panelHidden' = Hidden(project')
    /\ info' = DescribeBridge
    /\ UNCHANGED <<host, bridgeReady, rpcId, pending, inbox, buttons, clicks, viaLegacy>>

\* callToolViaLegacyBridge: null without window.openai, and the click is over.
TryLegacy(b) ==
    \/ /\ host.legacy
       /\ buttons' = [buttons EXCEPT ![b] = "legacy"]
       /\ viaLegacy' = viaLegacy \cup {b}
    \/ /\ ~host.legacy
       /\ buttons' = [buttons EXCEPT ![b] = "idle"]
       /\ UNCHANGED viaLegacy

\* A button of the panel is clicked: callReviewPlan up to its first await.
Click(b) ==
    /\ clicks < MaxClicks
    /\ ~panelHidden
    /\ buttons[b] = "idle"
    /\ clicks' = clicks + 1
    /\ \/ /\ bridgeReady # "null"
          /\ buttons' = [buttons EXCEPT ![b] = "handshake"]
          /\ viaLegacy' = viaLegacy \ {b}
       \/ bridgeReady = "null" /\ TryLegacy(b)
    /\ UNCHANGED <<host, bridgeReady, rpcId, pending, inbox, shown>>

\* Mutant: the handshake is not awaited.
HandshakeNotAwaited == TRUE

\* bridgeReady has settled: its catch makes a refusal look like a success.
HandshakeSettled == bridgeReady # "waiting"

\* The click has awaited bridgeReady and posts its tools/call.
Resume(b) ==
    /\ buttons[b] = "handshake"
    /\ HandshakeSettled
    /\ RpcRequest(b)
    /\ buttons' = [buttons EXCEPT ![b] = "apps"]
    /\ UNCHANGED <<host, bridgeReady, shown, clicks, viaLegacy>>

\* The listener takes the answer to request id out of pending.
Answered(id) ==
    /\ id \in inbox /\ id \in DOMAIN pending
    /\ inbox' = inbox \ {id}
    /\ pending' = Without(pending, {id})

\* The host answers ui/initialize.
AnswerInit ==
    /\ host.bridge # "silent"
    /\ \E id \in inbox : id \in DOMAIN pending /\ pending[id] = "init" /\ Answered(id)
    /\ bridgeReady' = IF host.bridge = "speaks" THEN "ready" ELSE "null"
    /\ UNCHANGED <<host, rpcId, buttons, shown, clicks, viaLegacy>>

\* Mutant: no finally block, a rejected call leaves the button disabled.
StayDisabled(b) == UNCHANGED buttons

\* The finally block after an error: the button is enabled, the error lost.
EnableAfterError(b) == buttons' = [buttons EXCEPT ![b] = "idle"]

\* The host answers a tools/call: a result, an error, or an empty result,
\* which is the only answer after which window.openai is tried.
AnswerCall(b) ==
    /\ host.bridge # "silent"
    /\ buttons[b] = "apps"
    /\ \E id \in inbox : id \in DOMAIN pending /\ pending[id] = b /\ Answered(id)
    /\ \/ /\ host.bridge = "speaks"
          /\ buttons' = [buttons EXCEPT ![b] = "idle"]
          /\ UNCHANGED viaLegacy
       \/ EnableAfterError(b) /\ UNCHANGED viaLegacy
       \/ host.bridge = "speaks" /\ TryLegacy(b)
    /\ UNCHANGED <<host, bridgeReady, rpcId, shown, clicks>>

\* The promise of window.openai.callTool settles.
LegacySettles(b) ==
    /\ buttons[b] = "legacy"
    /\ \/ buttons' = [buttons EXCEPT ![b] = "idle"]
       \/ EnableAfterError(b)
    /\ UNCHANGED <<host, bridgeReady, rpcId, pending, inbox, shown, clicks, viaLegacy>>

Next ==
    \/ Render \/ AnswerInit
    \/ \E b \in Buttons : Click(b) \/ Resume(b) \/ AnswerCall(b) \/ LegacySettles(b)

Spec == Init /\ [][Next]_vars

\* The event loop runs microtasks; a host that is not silent answers what it
\* is asked; window.openai settles its promises.
Fairness ==
    /\ WF_vars(AnswerInit)
    /\ \A b \in Buttons : WF_vars(Resume(b)) /\ WF_vars(AnswerCall(b)) /\ WF_vars(LegacySettles(b))

FairSpec == Spec /\ Fairness

-----------------------------------------------------------------------------
(* Properties *)

\* The shape of the state.
TypeOK ==
    /\ host \in Hosts
    /\ bridgeReady \in {"waiting", "ready", "null"}
    /\ rpcId \in 1..MaxClicks + 1
    /\ IsMap(pending, 1..rpcId, Owners)
    /\ inbox \subseteq 1..rpcId
    /\ buttons \in [Buttons -> Stages]
    /\ project \in BOOLEAN
    /\ panelHidden \in BOOLEAN
    /\ info \in {"detecting", "mcp-apps-host", "legacy", "none"}
    /\ clicks \in 0..MaxClicks
    /\ viaLegacy \subseteq Buttons

\* An answer finds its own click: every click that waits for the host has
\* exactly one request pending, and nobody else waits under that id.
AnswersFindTheirClick ==
    \A b \in Buttons :
        LET ids == {id \in DOMAIN pending : pending[id] = b} IN
        IF buttons[b] = "apps" THEN \E id \in ids : ids = {id} ELSE ids = {}

\* No tools/call leaves before the host has answered ui/initialize, however
\* early a button is clicked.
HandshakeFirst == bridgeReady = "waiting" => inbox \subseteq {1}

\* A click would reach something that can answer: the bridge the host has
\* agreed to, or, without one, window.openai.  A handshake that is pending is
\* no bridge: the click waits for it.
CallsGetThrough == bridgeReady = "ready" \/ (bridgeReady = "null" /\ host.legacy)

\* How far "Every button either works or is absent" and "Not shown when no
\* bridge is available" hold (docs/ARCHITECTURE.md:97, :94).  There are dead
\* buttons on the page in two cases only: the host has not answered the
\* handshake yet (one that never does leaves them there for ever), or it has
\* refused it since the last render, and the page still names the bridge.  And
\* there are never buttons without a project to call the tool with.
ControlsAreReal ==
    ~panelHidden =>
        /\ project
        /\ \/ CallsGetThrough
           \/ bridgeReady = "waiting"
           \/ bridgeReady = "null" /\ info = "mcp-apps-host"

\* With a host that answers, no button stays disabled.
EveryClickEnds ==
    \A b \in Buttons :
        (buttons[b] # "idle" /\ host.bridge # "silent") ~> (buttons[b] = "idle")

-----------------------------------------------------------------------------
(* The inductive invariant *)

\* The buttons whose click awaits the handshake.
Awaiting == {b \in Buttons : buttons[b] = "handshake"}

\* Every request was drawn by a click that has passed the handshake.
ClicksPay == rpcId + Cardinality(Awaiting) <= clicks + 1

\* Until the handshake settles its request is the only one, and then it is
\* answered.
HandshakePending ==
    IF bridgeReady = "waiting"
    THEN rpcId = 1 /\ \A id \in DOMAIN pending : pending[id] = "init"
    ELSE \A id \in DOMAIN pending : pending[id] # "init"

\* The panel was last shown when hasUsableBridge() said so, with a project.
ShownWithBridge == ~panelHidden => project /\ (host.legacy \/ info = "mcp-apps-host")

IInv ==
    /\ TypeOK
    /\ ClicksPay
    /\ HandshakePending
    /\ AnswersFindTheirClick
    /\ ShownWithBridge

-----------------------------------------------------------------------------
(* What the repository says and the code does not do *)

\* docs/CHATGPT_APP_SETUP.md:161: "If the host does not support the new
\* bridge, it falls back to the legacy `window.openai.callTool` API".
FallsBack ==
    \A b \in Buttons :
        (buttons[b] # "idle" /\ host.bridge # "speaks" /\ host.legacy) ~> (b \in viaLegacy)
=============================================================================
