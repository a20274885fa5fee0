-------------------------- MODULE RemoteValidator --------------------------
(***************************************************************************)
(* The validator of an external identity provider's tokens,                 *)
(* src/src/server/oauth/remote-issuer.ts: a cache of the provider's JWKS,   *)
(* refilled by fetches that overlap, shared or not, by many validate()      *)
(* calls.                                                                   *)
(*                                                                          *)
(* A validate() call runs from one await to the next in one turn of the     *)
(* event loop.  When a fetch settles, every call that awaits it is resumed  *)
(* by microtasks before anything else runs: the other actions of the        *)
(* process wait for Quiet.  A call that finds the cache warm goes on at     *)
(* once.  The provider is another machine: it rotates its keys and answers  *)
(* fetches at any time.                                                     *)
(*                                                                          *)
(* A key stands for a JWK and for its kid.  A token is signed by one key    *)
(* and names one in its header, or none.  A token whose three parts do not  *)
(* parse is refused before anything is read and is left out.                *)
(***************************************************************************)
EXTENDS TokenIssuer, Maps, FiniteSets

CONSTANTS Keys,
          FirstKey,      \* the key the provider starts with
          EncryptionKeys,\* those published with a use other than "sig"
          UnusableKeys,  \* those jwkToKeyObject throws on
          Tokens,        \* the tokens presented: kid, signer and exp claim of each
          Calls,         \* bounds the validate() calls in progress
          CacheTtl,      \* cacheTtlMs
          FetchTimeout,  \* DEFAULT_FETCH_TIMEOUT_MS
          MaxTime,       \* bounds the clock
          NoKid,         \* a header without a kid
          None

ASSUME KeysAssumption ==
    /\ FirstKey \in Keys
    /\ NoKid \notin Keys
    /\ None \notin Calls
    /\ \A doc \in SUBSET Keys : None # doc

ASSUME TimesAssumption ==
    /\ CacheTtl \in Nat \ {0}
    /\ FetchTimeout \in Nat
    /\ MaxTime \in Nat

ASSUME TokensAssumption ==
    Tokens \subseteq [kid : Keys \cup {NoKid}, signer : Keys, exp : Nat]

VARIABLES
    now,
    published,  \* the provider's JWKS document: a set of keys
    withdrawn,  \* key -> when the provider withdrew it
    cache,      \* cache: the document and fetchedAt, or None
    inflight,   \* inflight: the call whose fetch it is, or None
    fetches,    \* call -> the fetch it started and that has not settled
    calls,      \* call -> where validate() is, or Idle
    verdict     \* how the validate() that this step ended did, or None

provider == <<published, withdrawn>>
vars == <<now, published, withdrawn, cache, inflight, fetches, calls, verdict>>

-----------------------------------------------------------------------------
Idle == [idle |-> TRUE]

\* What the provider answered: a document, or something that is not one (an
\* HTTP error, not JSON, no `keys' array).
Unanswered == [answered |-> FALSE]
Answers    == [ok : {TRUE}, doc : SUBSET Keys] \cup [ok : {FALSE}, error : {"invalid_token"}]

Fetch == [started : Nat, answer : Answers \cup {Unanswered}]

\* What awaiting a fetch gives: the same, or a network error or an abort,
\* which is not a TokenValidationError.
Settled == Answers \cup [ok : {FALSE}, error : {"fetch_failed"}]

\* `known': the document of the provider when the call began, for properties.
Call == [token : Tokens, known : SUBSET Keys, retried : BOOLEAN, awaits : Calls \cup Settled]

Outcomes == {"ok", "no_key", "bad_signature", "unusable_key", "invalid_token", "fetch_failed",
             "invalid_issuer", "invalid_audience", "expired", "not_yet_valid", "insufficient_scope"}

ASSUME ShapesAssumption ==
    /\ \A s \in Settled : s \notin Calls
    /\ None \notin Fetch

Verdict == [token : Tokens, known : SUBSET Keys, outcome : Outcomes, at : Nat]

\* Nobody waits for a microtask.
Quiet == \A c \in Calls : calls[c] # Idle => calls[c].awaits \in Calls

Init ==
    /\ now = 0
    /\ published = {FirstKey}
    /\ withdrawn = EmptyMap
    /\ cache = None
    /\ inflight = None
    /\ fetches = [c \in Calls |-> None]
    /\ calls = [c \in Calls |-> Idle]
    /\ verdict = None

-----------------------------------------------------------------------------
(* The provider and the clock *)

\* A new key.  Keys are published for good or withdrawn for good.
Publish ==
    \E k \in Keys \ (published \cup DOMAIN withdrawn) :
        /\ published' = published \cup {k}
        /\ verdict' = None
        /\ UNCHANGED <<now, withdrawn, cache, inflight, fetches, calls>>

Withdraw ==
    \E k \in published :
        /\ published' = published \ {k}
        /\ withdrawn' = Put(withdrawn, k, now)
        /\ verdict' = None
        /\ UNCHANGED <<now, cache, inflight, fetches, calls>>

\* The provider serves a fetch: the document of this instant, or an error.
Serve(c) ==
    /\ fetches[c] # None
    /\ fetches[c].answer = Unanswered
    /\ \E a \in {[ok |-> TRUE, doc |-> published], [ok |-> FALSE, error |-> "invalid_token"]} :
        fetches' = [fetches EXCEPT ![c].answer = a]
    /\ verdict' = None
    /\ UNCHANGED <<now, provider, cache, inflight, calls>>

\* Time passes, but no fetch outlives its timer: the abort comes first.
Tick ==
    /\ Quiet
    /\ now < MaxTime
    /\ \A c \in Calls : fetches[c] # None => now < fetches[c].started + FetchTimeout
    /\ now' = now + 1
    /\ verdict' = None
    /\ UNCHANGED <<provider, cache, inflight, fetches, calls>>

-----------------------------------------------------------------------------
(* fetchJwks *)

\* Mutant: a cached document is good until a key is missed.
FreshForever == cache # None

Fresh == cache # None /\ now - cache.fetchedAt < CacheTtl

\* The call starts a fetch of its own, which becomes the one to share.
StartFetch(c, call) ==
    /\ fetches' = [fetches EXCEPT ![c] = [started |-> now, answer |-> Unanswered]]
    /\ inflight' = c
    /\ calls' = [calls EXCEPT ![c] = [call EXCEPT !.awaits = c]]
    /\ verdict' = None

\* The call awaits the fetch in flight.
JoinFetch(c, call) ==
    /\ calls' = [calls EXCEPT ![c] = [call EXCEPT !.awaits = inflight]]
    /\ verdict' = None
    /\ UNCHANGED <<inflight, fetches>>

\* Mutant: the forced refetch shares the fetch in flight as well.
RefetchShared(c, call) ==
    \/ inflight # None /\ JoinFetch(c, call)
    \/ inflight = None /\ StartFetch(c, call)

\* fetchJwks(true): neither the cache nor the fetch in flight is looked at.
Refetch(c, call) == StartFetch(c, call)

\* Mutant: only the call that started the fetch is answered.
DeliverToStarter(c, settled) == calls' = [calls EXCEPT ![c].awaits = settled]

\* Mutant: the validation is shared and not the fetch, so that whoever waits
\* goes on with the token of the call that started it.
DeliverOneCall(c, settled) ==
    calls' = [d \in Calls |->
        IF calls[d] # Idle /\ calls[d].awaits = c
        THEN [calls[c] EXCEPT !.awaits = settled] ELSE calls[d]]

\* Every call awaiting c's fetch gets this.
Deliver(c, settled) ==
    calls' = [d \in Calls |->
        IF calls[d] # Idle /\ calls[d].awaits = c
        THEN [calls[d] EXCEPT !.awaits = settled] ELSE calls[d]]

\* Mutant: inflight is cleared only after a success.
InflightAfterSuccess(ok) == IF ok THEN None ELSE inflight

\* The finally block clears inflight, whoever's fetch it holds by now.
InflightAfter(ok) == None

\* Mutant: the cache holds its expiry where the age is computed from.
CachedUntil(doc) == [doc |-> doc, fetchedAt |-> now + CacheTtl]

CachedNow(doc) == [doc |-> doc, fetchedAt |-> now]

\* The answer arrives: a document is cached, whatever the cache holds by now.
Arrive(c) ==
    /\ Quiet
    /\ fetches[c] # None
    /\ fetches[c].answer # Unanswered
    /\ LET a == fetches[c].answer IN
        /\ cache' = IF a.ok THEN CachedNow(a.doc) ELSE cache
        /\ inflight' = InflightAfter(a.ok)
        /\ Deliver(c, a)
    /\ fetches' = [fetches EXCEPT ![c] = None]
    /\ verdict' = None
    /\ UNCHANGED <<now, provider>>

\* The network fails or the timer aborts the fetch.
Fail(c) ==
    /\ Quiet
    /\ fetches[c] # None
    /\ inflight' = InflightAfter(FALSE)
    /\ Deliver(c, [ok |-> FALSE, error |-> "fetch_failed"])
    /\ fetches' = [fetches EXCEPT ![c] = None]
    /\ verdict' = None
    /\ UNCHANGED <<now, provider, cache>>

-----------------------------------------------------------------------------
(* validate *)

\* tryKeys: the key of a document the header selects, as a set of at most
\* one.  Without a kid it must be the only signature key there is.
Selected(token, doc) ==
    IF token.kid # NoKid THEN {token.kid} \cap doc
    ELSE LET signing == doc \ EncryptionKeys IN
         IF Cardinality(signing) = 1 THEN signing ELSE {}

\* Mutant: the signature is not verified once a key is found.
CheckUnsigned(token, key) ==
    IF key \in UnusableKeys THEN "unusable_key" ELSE
    ValidateClaims([iss |-> Issuer, aud |-> {Resource}, nbf |-> 0, exp |-> token.exp,
                    scope |-> {}], {}, now)

\* The checks once a key is selected.  The claims that are the same in every
\* token of the model are those of a valid one.
Check(token, key) ==
    IF key \in UnusableKeys THEN "unusable_key" ELSE
    IF key # token.signer   THEN "bad_signature" ELSE
    ValidateClaims([iss |-> Issuer, aud |-> {Resource}, nbf |-> 0, exp |-> token.exp,
                    scope |-> {}], {}, now)

Conclude(c, call, outcome) ==
    /\ verdict' = [token |-> call.token, known |-> call.known, outcome |-> outcome, at |-> now]
    /\ calls' = [calls EXCEPT ![c] = Idle]
    /\ UNCHANGED <<inflight, fetches>>

\* validate() goes on with a document in hand.
Proceed(c, call, doc) ==
    LET selected == Selected(call.token, doc) IN
    \/ \E key \in selected : Conclude(c, call, Check(call.token, key))
    \/ /\ selected = {}
       /\ call.token.kid # NoKid /\ ~call.retried
       /\ Refetch(c, [call EXCEPT !.retried = TRUE])
    \/ /\ selected = {}
       /\ call.token.kid = NoKid \/ call.retried
       /\ Conclude(c, call, "no_key")

\* A validate() begins: fetchJwks(false), and on if the cache is fresh.
Begin(c) ==
    /\ Quiet
    /\ calls[c] = Idle
    /\ \E token \in Tokens :
        LET call == [token |-> token, known |-> published, retried |-> FALSE, awaits |-> c] IN
        \/ Fresh /\ Proceed(c, call, cache.doc)
        \/ ~Fresh /\ inflight # None /\ JoinFetch(c, call)
        \/ ~Fresh /\ inflight = None /\ StartFetch(c, call)
    /\ UNCHANGED <<now, provider, cache>>

\* The fetch the call awaited has settled.
Resume(c) ==
    /\ calls[c] # Idle
    /\ calls[c].awaits \notin Calls
    /\ LET s == calls[c].awaits IN
        \/ s.ok /\ Proceed(c, calls[c], s.doc)
        \/ ~s.ok /\ Conclude(c, calls[c], s.error)
    /\ UNCHANGED <<now, provider, cache>>

\* invalidate(): for tests and signals of a rotation; a fetch in flight stays.
Invalidate ==
    /\ Quiet
    /\ cache' = None
    /\ verdict' = None
    /\ UNCHANGED <<now, provider, inflight, fetches, calls>>

Next ==
    \/ Publish \/ Withdraw \/ Tick \/ Invalidate
    \/ \E c \in Calls : Serve(c) \/ Arrive(c) \/ Fail(c) \/ Begin(c) \/ Resume(c)

Spec == Init /\ [][Next]_vars

\* The event loop runs every microtask.  The timer settles every fetch: its
\* turn comes between those of other calls, which may go on for ever.
Fairness ==
    \A c \in Calls : WF_vars(Resume(c)) /\ SF_vars(Arrive(c) \/ Fail(c))

FairSpec == Spec /\ Fairness

-----------------------------------------------------------------------------
(* Properties *)

\* The shape of the state.
TypeOK ==
    /\ now \in 0..MaxTime
    /\ published \subseteq Keys
    /\ IsMap(withdrawn, Keys, 0..MaxTime)
    /\ cache \in [doc : SUBSET Keys, fetchedAt : 0..MaxTime] \cup {None}
    /\ inflight \in Calls \cup {None}
    /\ fetches \in [Calls -> Fetch \cup {None}]
    /\ calls \in [Calls -> Call \cup {Idle}]
    /\ verdict \in Verdict \cup {None}

\* A key the provider publishes, or withdrew less than a fetch and a cache
\* lifetime ago.
Honoured(k) ==
    \/ k \in published
    \/ k \in DOMAIN withdrawn /\ now < withdrawn[k] + FetchTimeout + CacheTtl

\* A token is accepted only before its exp, read after the last await, and
\* only from a signer the provider has published; one it has withdrawn is
\* honoured no longer than one fetch and one cache lifetime, however fetches
\* overlap and overwrite one another.
AcceptedIsCurrent ==
    verdict # None /\ verdict.outcome = "ok" =>
        verdict.at = now /\ now < verdict.token.exp /\ Honoured(verdict.token.signer)

\* A rotation is picked up: a key that was in the provider's document all
\* through the call is found.  (The forced refetch must be a new one: the
\* fetch in flight may have been served before the key was published.)
PublishedKeyIsFound ==
    verdict # None /\ verdict.outcome = "no_key" =>
        verdict.token.kid \notin verdict.known \cap published

\* A call awaits a fetch that is still going to settle, and only one that is
\* going to settle is shared with later calls: a failed fetch is not served
\* to whoever comes next.  A fetch that clears inflight for a newer one lets
\* fetches fan out, but no further than the calls: each is awaited by the
\* call that started it.
AwaitsLiveFetch ==
    /\ \A c \in Calls : calls[c] # Idle /\ calls[c].awaits \in Calls => fetches[calls[c].awaits] # None
    /\ \A c \in Calls : fetches[c] # None => calls[c] # Idle /\ calls[c].awaits = c
    /\ inflight # None => fetches[inflight] # None

-----------------------------------------------------------------------------
(* The inductive invariant: how old what the process holds may be *)

\* Withdrawn is in the past and for good.
WithdrawnIsGone ==
    \A k \in DOMAIN withdrawn : withdrawn[k] <= now /\ k \notin published

\* A document d that was served at time t or later: its keys are published,
\* or were until then.
ServedSince(d, t) ==
    \A k \in d : k \in published \/ (k \in DOMAIN withdrawn /\ t <= withdrawn[k])

\* Whether what a fetch gave is a document.
HasDoc(settled) == settled # Unanswered /\ settled.ok

\* A document on its way was served while its fetch was in flight, one that
\* is cached or about to be used at most a fetch before it arrived.
DocumentsAge ==
    /\ cache # None =>
        cache.fetchedAt <= now /\ ServedSince(cache.doc, cache.fetchedAt - FetchTimeout)
    /\ \A c \in Calls : fetches[c] # None =>
        /\ fetches[c].started <= now /\ now <= fetches[c].started + FetchTimeout
        /\ HasDoc(fetches[c].answer) => ServedSince(fetches[c].answer.doc, fetches[c].started)
    /\ \A c \in Calls : calls[c] # Idle /\ calls[c].awaits \notin Calls /\ calls[c].awaits.ok =>
        ServedSince(calls[c].awaits.doc, now - FetchTimeout)

\* A call that has forced a fetch of its own gets a document with every key
\* that has been published since the call began.
RetryKnows ==
    \A c \in Calls : calls[c] # Idle =>
        /\ calls[c].known \subseteq published \cup DOMAIN withdrawn
        /\ calls[c].retried =>
            /\ calls[c].awaits \in Calls => calls[c].awaits = c
            /\ calls[c].awaits = c /\ HasDoc(fetches[c].answer) =>
                calls[c].known \cap published \subseteq fetches[c].answer.doc
            /\ calls[c].awaits \notin Calls /\ calls[c].awaits.ok =>
                calls[c].known \cap published \subseteq calls[c].awaits.doc

IInv ==
    /\ TypeOK
    /\ AwaitsLiveFetch
    /\ WithdrawnIsGone
    /\ DocumentsAge
    /\ RetryKnows
    /\ AcceptedIsCurrent
    /\ PublishedKeyIsFound

-----------------------------------------------------------------------------
(* What the validator promises *)

\* What a call in progress was asked.
Asked == [c \in Calls |->
    IF calls[c] = Idle THEN Idle ELSE [token |-> calls[c].token, known |-> calls[c].known]]

Promise == INSTANCE AnsweredTokens WITH
    Askers <- Calls, Reasons <- Outcomes, Bound <- FetchTimeout + CacheTtl,
    NotAsking <- Idle, Nothing <- None, asked <- Asked, answer <- verdict

\* validate() implements AnsweredTokens: whatever calls share, and however
\* fetches settle, each is answered once, about its own token, by a reason
\* that is true at that moment.
AnswersTruly == Promise!Spec

-----------------------------------------------------------------------------
(* Liveness *)

\* Every validate() is answered, whatever the provider does.
EveryCallEnds == \A c \in Calls : (calls[c] # Idle) ~> (calls[c] = Idle)
=============================================================================
