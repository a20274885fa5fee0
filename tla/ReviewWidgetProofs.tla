------------------------- MODULE ReviewWidgetProofs -------------------------
(***************************************************************************)
(* However the clicks, the handshake and the host's answers interleave, an   *)
(* answer finds its own click, no call leaves before the handshake, and dead *)
(* buttons last no longer than said.  For any buttons and any host.          *)
(***************************************************************************)
EXTENDS ReviewWidget, FiniteSetTheorems, MapLemmas

-----------------------------------------------------------------------------
(* The counter of requests *)

\* The clicks that await the handshake can be counted.
LEMMA AwaitingIsFinite == IsFiniteSet(Awaiting) /\ Cardinality(Awaiting) \in Nat
  <1>1. IsFiniteSet(Awaiting)
    BY WidgetAssumption, FS_Subset DEF Awaiting
  <1>2. QED
    BY <1>1, FS_CardinalityType

\* A step that sends no request, and puts no click in wait unless it counts it.
LEMMA NoRequestPays ==
    ASSUME IInv, rpcId' = rpcId, clicks' = clicks, Awaiting' = Awaiting
    PROVE  ClicksPay'
  BY DEF IInv, ClicksPay

\* A click adds at most itself to those that wait.
LEMMA ClickPays ==
    ASSUME IInv, NEW b \in Buttons, Click(b)
    PROVE  ClicksPay'
  <1>1. Awaiting' = Awaiting \/ Awaiting' = Awaiting \cup {b}
    BY DEF IInv, TypeOK, Click, TryLegacy, Awaiting
  <1>2. IsFiniteSet(Awaiting) /\ Cardinality(Awaiting) \in Nat
    BY AwaitingIsFinite
  <1>3. Cardinality(Awaiting \cup {b}) \in {Cardinality(Awaiting), Cardinality(Awaiting) + 1}
    BY <1>2, FS_AddElement
  <1>4. rpcId' = rpcId /\ clicks' = clicks + 1 /\ rpcId \in Nat /\ clicks \in Nat
    BY DEF Click, IInv, TypeOK
  <1>5. QED
    BY <1>1, <1>2, <1>3, <1>4 DEF IInv, ClicksPay

\* A click that sends its request no longer waits.
LEMMA ResumePays ==
    ASSUME IInv, NEW b \in Buttons, Resume(b)
    PROVE  ClicksPay' /\ rpcId + 1 <= clicks + 1
  <1>1. Awaiting' = Awaiting \ {b} /\ b \in Awaiting
    BY DEF IInv, TypeOK, Resume, Awaiting
  <1>2. IsFiniteSet(Awaiting) /\ Cardinality(Awaiting) \in Nat
    BY AwaitingIsFinite
  <1>3. Cardinality(Awaiting \ {b}) = Cardinality(Awaiting) - 1
    BY <1>1, <1>2, FS_RemoveElement
  <1>4. Cardinality(Awaiting \ {b}) \in Nat
    BY <1>2, FS_RemoveElement, FS_CardinalityType
  <1>5. rpcId' = rpcId + 1 /\ clicks' = clicks /\ rpcId \in Nat /\ clicks \in Nat
    BY DEF Resume, RpcRequest, IInv, TypeOK
  <1>6. QED
    BY <1>1, <1>2, <1>3, <1>4, <1>5 DEF IInv, ClicksPay

-----------------------------------------------------------------------------
(* The steps *)

\* The invariant holds once the page is loaded.
LEMMA InitPays == Init => IInv
  <1> SUFFICES ASSUME Init PROVE IInv
    OBVIOUS
  <1>1. IsMap(pending, 1..rpcId, Owners) /\ DOMAIN pending = {1} /\ pending[1] = "init"
    BY DEF Init, Put, EmptyMap, IsMap, Owners
  <1>2. TypeOK
    <2>1. rpcId \in 1..MaxClicks + 1 /\ clicks \in 0..MaxClicks /\ inbox \subseteq 1..rpcId
      BY WidgetAssumption DEF Init
    <2>2. host \in Hosts /\ buttons \in [Buttons -> Stages] /\ viaLegacy \subseteq Buttons
      BY DEF Init, Stages
    <2>3. QED
      BY <1>1, <2>1, <2>2 DEF Init, TypeOK
  <1>3. ClicksPay
    <2>1. Awaiting = {}
      BY DEF Init, Awaiting
    <2>2. QED
      BY <2>1, FS_EmptySet DEF Init, ClicksPay
  <1>4. AnswersFindTheirClick
    BY <1>1, WidgetAssumption DEF Init, AnswersFindTheirClick
  <1>5. QED
    BY <1>1, <1>2, <1>3, <1>4 DEF Init, IInv, HandshakePending, ShownWithBridge

\* A render shows the panel only with a bridge, and names it.
LEMMA RenderStep ==
    ASSUME IInv, Render
    PROVE  IInv'
  <1>1. TypeOK'
    BY DEF IInv, TypeOK, Render, Hidden, HasUsableBridge, DescribeBridge, Hosts
  <1>2. ClicksPay'
    BY NoRequestPays DEF Render, Awaiting
  <1>3. ShownWithBridge'
    BY DEF Render, ShownWithBridge, Hidden, HasUsableBridge, DescribeBridge, IInv, TypeOK
  <1>4. QED
    BY <1>1, <1>2, <1>3 DEF IInv, Render, HandshakePending, AnswersFindTheirClick

\* A click waits, or is with window.openai, or is over.
LEMMA ClickStep ==
    ASSUME IInv, NEW b \in Buttons, Click(b)
    PROVE  IInv'
  <1>1. TypeOK'
    <2>1. clicks' \in 0..MaxClicks
      BY WidgetAssumption DEF IInv, TypeOK, Click
    <2>2. buttons' \in [Buttons -> Stages] /\ viaLegacy' \subseteq Buttons
      BY DEF IInv, TypeOK, Click, TryLegacy, Stages
    <2>3. QED
      BY <2>1, <2>2 DEF IInv, TypeOK, Click, shown
  <1>2. AnswersFindTheirClick'
    BY DEF IInv, TypeOK, Click, TryLegacy, AnswersFindTheirClick
  <1>3. QED
    BY <1>1, <1>2, ClickPays
       DEF IInv, Click, shown, HandshakePending, ShownWithBridge

\* A request is drawn under an id that nobody waits under.
LEMMA ResumeStep ==
    ASSUME IInv, NEW b \in Buttons, Resume(b)
    PROVE  IInv'
  <1>1. rpcId \in Nat /\ rpcId + 1 \notin DOMAIN pending /\ rpcId + 1 \notin inbox
    BY DEF IInv, TypeOK, IsMap
  <1>2. pending' = Put(pending, rpcId + 1, b)
    BY DEF Resume, RpcRequest, FreshId
  <1>3. TypeOK'
    <2>1. IsMap(pending, 1..rpcId + 1, Owners)
      BY DEF IInv, TypeOK, IsMap
    <2>2. IsMap(pending', 1..rpcId + 1, Owners)
      <3>1. rpcId + 1 \in 1..rpcId + 1 /\ b \in Owners
        BY <1>1 DEF Owners
      <3>2. IsMap(Put(pending, rpcId + 1, b), 1..rpcId + 1, Owners)
        BY <2>1, <3>1, PutIsMap
      <3>3. QED
        BY <1>2, <3>2
    <2>3. rpcId + 1 <= MaxClicks + 1
      BY <1>1, ResumePays, WidgetAssumption DEF IInv, TypeOK
    <2>4. QED
      BY <1>1, <2>2, <2>3, WidgetAssumption
         DEF IInv, TypeOK, Resume, RpcRequest, FreshId, Stages, shown
  <1>4. AnswersFindTheirClick'
    <2>1. {id \in DOMAIN pending : pending[id] = b} = {}
      BY DEF IInv, AnswersFindTheirClick, Resume
    <2>2. ASSUME NEW c \in Buttons
          PROVE  {id \in DOMAIN pending' : pending'[id] = c}
                   = IF c = b THEN {rpcId + 1} ELSE {id \in DOMAIN pending : pending[id] = c}
      BY <1>1, <1>2, <2>1 DEF Put
    <2>3. /\ buttons'[b] = "apps"
          /\ \A c \in Buttons : c # b => buttons'[c] = buttons[c]
      BY DEF Resume, IInv, TypeOK
    <2>4. QED
      BY <2>2, <2>3 DEF IInv, AnswersFindTheirClick
  <1>5. HandshakePending'
    BY <1>1, <1>2, WidgetAssumption
       DEF Resume, HandshakeSettled, IInv, HandshakePending, Put
  <1>6. ShownWithBridge'
    BY DEF Resume, IInv, ShownWithBridge, shown
  <1>7. QED
    BY <1>3, <1>4, <1>5, <1>6, ResumePays DEF IInv

\* The answer to request id leaves the other requests as they were.
LEMMA AnswerKeepsOthers ==
    ASSUME IInv, NEW id, Answered(id)
    PROVE  /\ IsMap(pending', 1..rpcId, Owners)
           /\ inbox' \subseteq 1..rpcId
           /\ DOMAIN pending' = DOMAIN pending \ {id}
           /\ \A other \in DOMAIN pending' : pending'[other] = pending[other]
  BY WithoutIsMap DEF IInv, TypeOK, Answered, Without, Restrict

\* The handshake settles and leaves the answers of the clicks alone.
LEMMA AnswerInitStep ==
    ASSUME IInv, AnswerInit
    PROVE  IInv'
  <1>1. PICK id \in inbox : id \in DOMAIN pending /\ pending[id] = "init" /\ Answered(id)
    BY DEF AnswerInit
  <1>2. bridgeReady = "waiting" /\ DOMAIN pending = {id}
    <2>1. bridgeReady = "waiting" /\ rpcId = 1
      BY <1>1 DEF IInv, HandshakePending
    <2>2. DOMAIN pending \subseteq 1..rpcId
      BY DEF IInv, TypeOK, IsMap
    <2>3. DOMAIN pending \subseteq {1}
      BY <2>1, <2>2
    <2>4. QED
      BY <1>1, <2>1, <2>3
  <1>3. DOMAIN pending' = {}
    BY <1>1, <1>2, AnswerKeepsOthers
  <1>4. TypeOK'
    BY <1>1, AnswerKeepsOthers DEF IInv, TypeOK, AnswerInit, shown
  <1>5. ClicksPay'
    BY NoRequestPays DEF AnswerInit, Awaiting
  <1>6. AnswersFindTheirClick'
    <2>1. ASSUME NEW b \in Buttons
          PROVE  buttons[b] # "apps"
      BY <1>1, <1>2, <2>1, WidgetAssumption DEF IInv, AnswersFindTheirClick
    <2>2. QED
      BY <1>3, <2>1 DEF AnswerInit, AnswersFindTheirClick
  <1>7. HandshakePending'
    BY <1>3 DEF HandshakePending, AnswerInit
  <1>8. QED
    BY <1>4, <1>5, <1>6, <1>7 DEF IInv, AnswerInit, shown, ShownWithBridge

\* The answer of a call ends the wait of its own click, and of no other.
LEMMA AnswerCallStep ==
    ASSUME IInv, NEW b \in Buttons, AnswerCall(b)
    PROVE  IInv'
  <1>1. PICK id \in inbox : id \in DOMAIN pending /\ pending[id] = b /\ Answered(id)
    BY DEF AnswerCall
  <1>2. {i \in DOMAIN pending : pending[i] = b} = {id}
    BY <1>1 DEF AnswerCall, IInv, AnswersFindTheirClick
  <1>3. PICK stage \in {"idle", "legacy"} : buttons' = [buttons EXCEPT ![b] = stage]
    BY DEF AnswerCall, TryLegacy, EnableAfterError
  <1>4. buttons'[b] = stage /\ \A c \in Buttons : c # b => buttons'[c] = buttons[c]
    BY <1>3 DEF IInv, TypeOK
  <1>5. TypeOK'
    <2>1. viaLegacy' \subseteq Buttons /\ buttons' \in [Buttons -> Stages]
      BY <1>3 DEF IInv, TypeOK, AnswerCall, TryLegacy, EnableAfterError, Stages
    <2>2. QED
      BY <1>1, <2>1, AnswerKeepsOthers DEF IInv, TypeOK, AnswerCall, shown
  <1>6. ClicksPay'
    <2>1. Awaiting' = Awaiting
      BY <1>4 DEF AnswerCall, Awaiting
    <2>2. QED
      BY <2>1, NoRequestPays DEF AnswerCall
  <1>7. AnswersFindTheirClick'
    <2>1. ASSUME NEW c \in Buttons
          PROVE  {i \in DOMAIN pending' : pending'[i] = c}
                   = IF c = b THEN {} ELSE {i \in DOMAIN pending : pending[i] = c}
      BY <1>1, <1>2, AnswerKeepsOthers
    <2>2. QED
      BY <1>4, <2>1 DEF IInv, AnswersFindTheirClick
  <1>8. HandshakePending'
    <2>1. bridgeReady # "waiting"
      BY <1>1, WidgetAssumption DEF IInv, HandshakePending
    <2>2. QED
      BY <1>1, <2>1, AnswerKeepsOthers DEF IInv, HandshakePending, AnswerCall
  <1>9. QED
    BY <1>5, <1>6, <1>7, <1>8 DEF IInv, AnswerCall, shown, ShownWithBridge

\* window.openai has answered: the click is over.
LEMMA LegacyStep ==
    ASSUME IInv, NEW b \in Buttons, LegacySettles(b)
    PROVE  IInv'
  <1>1. buttons[b] = "legacy" /\ buttons' = [buttons EXCEPT ![b] = "idle"]
    BY DEF LegacySettles, EnableAfterError
  <1>2. TypeOK'
    BY <1>1 DEF IInv, TypeOK, LegacySettles, Stages, shown
  <1>3. ClicksPay'
    <2>1. Awaiting' = Awaiting
      BY <1>1 DEF Awaiting, IInv, TypeOK
    <2>2. QED
      BY <2>1, NoRequestPays DEF LegacySettles
  <1>4. AnswersFindTheirClick'
    BY <1>1 DEF IInv, TypeOK, LegacySettles, AnswersFindTheirClick
  <1>5. QED
    BY <1>2, <1>3, <1>4 DEF IInv, LegacySettles, shown, HandshakePending, ShownWithBridge

-----------------------------------------------------------------------------
(* The theorems *)

\* The inductive invariant holds in every reachable state.
THEOREM Clicked == Spec => []IInv
  <1>1. IInv /\ [Next]_vars => IInv'
    <2> SUFFICES ASSUME IInv, [Next]_vars PROVE IInv'
      OBVIOUS
    <2>1. CASE UNCHANGED vars
      <3>1. ClicksPay'
        BY <2>1, NoRequestPays DEF vars, Awaiting
      <3>2. QED
        BY <2>1, <3>1
           DEF vars, shown, IInv, TypeOK, HandshakePending, AnswersFindTheirClick, ShownWithBridge
    <2>2. QED
      BY <2>1, RenderStep, AnswerInitStep, ClickStep, ResumeStep, AnswerCallStep, LegacyStep
         DEF Next
  <1>2. QED
    BY <1>1, InitPays, PTL DEF Spec

\* The state has its shape: no more requests are drawn than clicks made.
THEOREM WidgetTypeCorrect == Spec => []TypeOK
  <1>1. IInv => TypeOK
    BY DEF IInv
  <1>2. QED
    BY <1>1, Clicked, PTL

\* Every answer finds the click that waits for it.
THEOREM AnswersFound == Spec => []AnswersFindTheirClick
  <1>1. IInv => AnswersFindTheirClick
    BY DEF IInv
  <1>2. QED
    BY <1>1, Clicked, PTL

\* No call leaves before the host has answered the handshake.
THEOREM NoCallBeforeHandshake == Spec => []HandshakeFirst
  <1>1. IInv => HandshakeFirst
    BY DEF IInv, TypeOK, HandshakePending, HandshakeFirst
  <1>2. QED
    BY <1>1, Clicked, PTL

\* Buttons whose call would get nowhere are on the page only while the host
\* has not answered the handshake, or from its refusal to the next render; and
\* none are there without a project.
THEOREM RealControls == Spec => []ControlsAreReal
  <1>1. IInv => ControlsAreReal
    BY DEF IInv, TypeOK, ShownWithBridge, ControlsAreReal, CallsGetThrough
  <1>2. QED
    BY <1>1, Clicked, PTL
=============================================================================
