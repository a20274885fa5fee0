--------------------------- MODULE AnsweredTokens ---------------------------
(***************************************************************************)
(* What a service that checks the tokens of a provider promises to those    *)
(* who ask it: each question is answered once, about its own token, by a    *)
(* reason that is true when the answer is given.  A token is taken only     *)
(* while it lives and only if its signer is a key the provider publishes,   *)
(* or withdrew less than Bound ago.  Nothing is said of documents, caches   *)
(* or fetches.                                                              *)
(***************************************************************************)
EXTENDS Integers, Maps

CONSTANTS Keys,
          FirstKey,     \* the key the provider starts with
          Tokens,       \* kid, signer and expiry of each token presented
          Askers,
          Reasons,      \* the answers there are
          Bound,        \* how long a key may be honoured after its end
          NotAsking,
          Nothing       \* no answer

VARIABLES now,
          published,    \* the provider's keys
          withdrawn,    \* key -> when the provider withdrew it
          asked,        \* asker -> its token and the keys published when it asked
          answer        \* the last answer, or Nothing

promised == <<now, published, withdrawn, asked, answer>>

Init ==
    /\ now = 0
    /\ published = {FirstKey}
    /\ withdrawn = EmptyMap
    /\ asked = [a \in Askers |-> NotAsking]
    /\ answer = Nothing

Publish(k) ==
    /\ k \notin published \cup DOMAIN withdrawn
    /\ published' = published \cup {k}
    /\ answer' = Nothing
    /\ UNCHANGED <<now, withdrawn, asked>>

Withdraw(k) ==
    /\ k \in published
    /\ published' = published \ {k}
    /\ withdrawn' = Put(withdrawn, k, now)
    /\ answer' = Nothing
    /\ UNCHANGED <<now, asked>>

Advance ==
    /\ now' = now + 1
    /\ answer' = Nothing
    /\ UNCHANGED <<published, withdrawn, asked>>

-----------------------------------------------------------------------------
\* A question: the token, and what is published when it is asked.
Question(t) == [token |-> t, known |-> published]

Ask(a, t) ==
    /\ asked[a] = NotAsking
    /\ asked' = [asked EXCEPT ![a] = Question(t)]
    /\ answer' = Nothing
    /\ UNCHANGED <<now, published, withdrawn>>

\* Whether a key may still be honoured.
Honoured(k) ==
    \/ k \in published
    \/ k \in DOMAIN withdrawn /\ now < withdrawn[k] + Bound

\* Whether a reason is a true answer to a question.
IsTrue(q, reason) ==
    /\ reason = "ok"            => now < q.token.exp /\ Honoured(q.token.signer)
    /\ reason = "expired"       => q.token.exp <= now
    /\ reason = "bad_signature" => q.token.kid # q.token.signer
    /\ reason = "no_key"        => q.token.kid \notin q.known \cap published

Given(q, reason) ==
    /\ reason \in Reasons
    /\ IsTrue(q, reason)
    /\ answer' = [token |-> q.token, known |-> q.known, outcome |-> reason, at |-> now]
    /\ UNCHANGED <<now, published, withdrawn>>

\* A question that was asked before is answered.
Answer(a, reason) ==
    /\ asked[a] # NotAsking
    /\ asked' = [asked EXCEPT ![a] = NotAsking]
    /\ Given(asked[a], reason)

\* A question is answered as it is asked.
AnswerAtOnce(t, reason) ==
    /\ UNCHANGED asked
    /\ Given(Question(t), reason)

\* Nobody is answered.
Wait ==
    /\ answer' = Nothing
    /\ UNCHANGED <<now, published, withdrawn, asked>>

Next ==
    \/ \E k \in Keys : Publish(k) \/ Withdraw(k)
    \/ Advance \/ Wait
    \/ \E a \in Askers, t \in Tokens : Ask(a, t)
    \/ \E a \in Askers, r \in Reasons : Answer(a, r)
    \/ \E t \in Tokens, r \in Reasons : AnswerAtOnce(t, r)

Spec == Init /\ [][Next]_promised
=============================================================================
