----------------------- MODULE RemoteValidatorProofs -----------------------
(***************************************************************************)
(* Proofs about the validator of an external provider's tokens.             *)
(*                                                                          *)
(* A turn of validate() does one of three things with its call: it gives a  *)
(* verdict (Conclude), starts a fetch (StartFetch) or joins one (JoinFetch).*)
(* Each is one lemma; the steps of the provider, the network and the clock  *)
(* are one lemma each.  Each turn is then shown to be a step of the promise *)
(* AnsweredTokens: a question, an answer or a wait.                         *)
(***************************************************************************)
EXTENDS RemoteValidator, MapLemmas

\* A call in progress is not an idle slot; a document is told from a fetch
\* that was not answered.
LEMMA CallShapes ==
    /\ \A call \in Call : call # Idle
    /\ \A a \in Answers : a # Unanswered
    /\ \A a \in Settled : a # Unanswered
  <1>1. \A call \in Call : call # Idle
    BY DEF Call, Idle
  <1>2. \A a \in Settled : a # Unanswered
    BY DEF Settled, Answers, Unanswered
  <1> QED  BY <1>1, <1>2 DEF Settled

\* The fields of a fetch, of a call and of what a fetch gives.
LEMMA Fields ==
    /\ \A f \in Fetch : f.started \in Nat /\ f.answer \in Answers \cup {Unanswered}
    /\ \A call \in Call : /\ call.token \in Tokens /\ call.known \in SUBSET Keys
                          /\ call.retried \in BOOLEAN /\ call.awaits \in Calls \cup Settled
    /\ \A s \in Settled : s.ok \in BOOLEAN /\ (s.ok => s.doc \in SUBSET Keys)
    /\ \A s \in Settled : ~s.ok => s.error \in Outcomes /\ s.error # "ok" /\ s.error # "no_key"
  BY DEF Fetch, Call, Settled, Answers, Outcomes

-----------------------------------------------------------------------------
\* The validator starts with nothing: no document, no call.
LEMMA InitIInv == Init => IInv
  <1> SUFFICES ASSUME Init  PROVE IInv
    OBVIOUS
  <1> USE KeysAssumption, TimesAssumption DEF Init
  <1>1. TypeOK
    BY EmptyIsMap DEF TypeOK
  <1>2. DOMAIN withdrawn = {}
    BY EmptyIsMap
  <1>3. AwaitsLiveFetch
    BY DEF AwaitsLiveFetch
  <1>4. WithdrawnIsGone /\ DocumentsAge
    BY <1>2 DEF WithdrawnIsGone, DocumentsAge
  <1>5. RetryKnows
    BY DEF RetryKnows
  <1>6. AcceptedIsCurrent /\ PublishedKeyIsFound
    BY DEF AcceptedIsCurrent, PublishedKeyIsFound
  <1> QED  BY <1>1, <1>3, <1>4, <1>5, <1>6 DEF IInv

-----------------------------------------------------------------------------
(* The provider, the network and the clock *)

\* A key is published: no document is made older, no call learns it.
LEMMA PublishStep == ASSUME IInv, Publish  PROVE IInv'
  <1> USE DEF IInv
  <1> PICK k \in Keys \ (published \cup DOMAIN withdrawn) :
        /\ published' = published \cup {k}
        /\ verdict' = None
        /\ UNCHANGED <<now, withdrawn, cache, inflight, fetches, calls>>
    BY DEF Publish
  <1>1. TypeOK'
    BY DEF TypeOK
  <1>2. AwaitsLiveFetch'
    BY DEF AwaitsLiveFetch
  <1>3. WithdrawnIsGone'
    BY DEF WithdrawnIsGone
  <1>4. DocumentsAge'
    BY DEF DocumentsAge, ServedSince
  <1>5. RetryKnows'
    BY DEF RetryKnows
  <1>6. AcceptedIsCurrent' /\ PublishedKeyIsFound'
    BY DEF AcceptedIsCurrent, PublishedKeyIsFound
  <1> QED  BY <1>1, <1>2, <1>3, <1>4, <1>5, <1>6

\* A key is withdrawn now: whatever was served before was served by now.
LEMMA WithdrawStep == ASSUME IInv, Withdraw  PROVE IInv'
  <1> USE DEF IInv
  <1> PICK k \in published :
        /\ published' = published \ {k}
        /\ withdrawn' = Put(withdrawn, k, now)
        /\ verdict' = None
        /\ UNCHANGED <<now, cache, inflight, fetches, calls>>
    BY DEF Withdraw
  <1>a. /\ DOMAIN withdrawn' = DOMAIN withdrawn \cup {k}
        /\ withdrawn'[k] = now
        /\ \A j \in DOMAIN withdrawn : j # k => withdrawn'[j] = withdrawn[j]
    BY DEF Put
  <1>b. k \notin DOMAIN withdrawn
    BY DEF WithdrawnIsGone
  <1>c. ASSUME NEW d, NEW t \in Int, t <= now, ServedSince(d, t)
        PROVE  \A j \in d : j \in published' \/ (j \in DOMAIN withdrawn' /\ t <= withdrawn'[j])
    BY <1>a, <1>c DEF ServedSince
  <1>t. now \in Int /\ FetchTimeout \in Nat
    BY TimesAssumption DEF TypeOK
  <1>1. TypeOK'
    <2>1. IsMap(withdrawn', Keys, 0..MaxTime)
      BY PutIsMap DEF TypeOK
    <2> QED  BY <2>1 DEF TypeOK
  <1>2. AwaitsLiveFetch'
    BY DEF AwaitsLiveFetch
  <1>3. WithdrawnIsGone'
    BY <1>a, <1>t DEF WithdrawnIsGone
  <1>4. DocumentsAge'
    <2>1. cache # None =>
            cache.fetchedAt <= now /\ \A j \in cache.doc : j \in published' \/
                (j \in DOMAIN withdrawn' /\ cache.fetchedAt - FetchTimeout <= withdrawn'[j])
      <3> SUFFICES ASSUME cache # None
                   PROVE  cache.fetchedAt <= now /\ \A j \in cache.doc : j \in published' \/
                (j \in DOMAIN withdrawn' /\ cache.fetchedAt - FetchTimeout <= withdrawn'[j])
        OBVIOUS
      <3>1. cache.fetchedAt \in 0..MaxTime
        BY DEF TypeOK
      <3>2. cache.fetchedAt <= now /\ ServedSince(cache.doc, cache.fetchedAt - FetchTimeout)
        BY DEF DocumentsAge
      <3>3. cache.fetchedAt - FetchTimeout \in Int /\ cache.fetchedAt - FetchTimeout <= now
        BY <3>1, <3>2, <1>t
      <3> QED  BY <3>2, <3>3, <1>c
    <2>2. ASSUME NEW c \in Calls, fetches[c] # None, HasDoc(fetches[c].answer)
          PROVE  \A j \in fetches[c].answer.doc : j \in published' \/
                    (j \in DOMAIN withdrawn' /\ fetches[c].started <= withdrawn'[j])
      <3>1. fetches[c].started \in Nat
        BY <2>2, Fields DEF TypeOK
      <3>2. fetches[c].started <= now /\ ServedSince(fetches[c].answer.doc, fetches[c].started)
        BY <2>2 DEF DocumentsAge
      <3> QED  BY <3>1, <3>2, <1>c
    <2>3. ASSUME NEW c \in Calls, calls[c] # Idle, calls[c].awaits \notin Calls, calls[c].awaits.ok
          PROVE  \A j \in calls[c].awaits.doc : j \in published' \/
                    (j \in DOMAIN withdrawn' /\ now - FetchTimeout <= withdrawn'[j])
      <3>1. ServedSince(calls[c].awaits.doc, now - FetchTimeout)
        BY <2>3 DEF DocumentsAge
      <3>2. now - FetchTimeout \in Int /\ now - FetchTimeout <= now
        BY <1>t
      <3> QED  BY <3>1, <3>2, <1>c
    <2> QED  BY <2>1, <2>2, <2>3 DEF DocumentsAge, ServedSince, HasDoc
  <1>5. RetryKnows'
    BY <1>a DEF RetryKnows, HasDoc
  <1>6. AcceptedIsCurrent' /\ PublishedKeyIsFound'
    BY DEF AcceptedIsCurrent, PublishedKeyIsFound
  <1> QED  BY <1>1, <1>2, <1>3, <1>4, <1>5, <1>6

\* The provider answers a fetch with the document of this instant.
LEMMA ServeStep == ASSUME IInv, NEW c \in Calls, Serve(c)  PROVE IInv'
  <1> USE DEF IInv
  <1> PICK a \in {[ok |-> TRUE, doc |-> published], [ok |-> FALSE, error |-> "invalid_token"]} :
        fetches' = [fetches EXCEPT ![c].answer = a]
    BY DEF Serve
  <1>a. /\ fetches[c] # None /\ fetches[c] \in Fetch
        /\ verdict' = None
        /\ UNCHANGED <<now, provider, cache, inflight, calls>>
    BY DEF Serve, TypeOK
  <1>b. a \in Answers /\ (a.ok => a.doc = published)
    <2>1. CASE a = [ok |-> TRUE, doc |-> published]
      BY <2>1 DEF Answers, TypeOK
    <2>2. CASE a = [ok |-> FALSE, error |-> "invalid_token"]
      BY <2>2 DEF Answers
    <2> QED  BY <2>1, <2>2
  <1>c. /\ fetches'[c] \in Fetch
        /\ fetches'[c].started = fetches[c].started
        /\ fetches'[c].answer = a
    BY <1>a, <1>b DEF Fetch, TypeOK
  <1>d. \A d \in Calls : d # c => fetches'[d] = fetches[d]
    BY DEF TypeOK
  <1>e. fetches'[c] # None
    BY <1>c, ShapesAssumption
  <1>1. TypeOK'
    BY <1>a, <1>c DEF TypeOK, provider
  <1>2. AwaitsLiveFetch'
    BY <1>a, <1>d, <1>e, KeysAssumption DEF AwaitsLiveFetch, TypeOK
  <1>3. WithdrawnIsGone'
    BY <1>a DEF WithdrawnIsGone, provider
  <1>4. DocumentsAge'
    <2>1. fetches[c].started \in Nat /\ fetches[c].started <= now /\ now <= fetches[c].started + FetchTimeout
      BY <1>a, Fields DEF DocumentsAge
    <2>2. a.ok => ServedSince(a.doc, fetches[c].started)
      BY <1>b DEF ServedSince
    <2> QED  BY <1>a, <1>c, <1>d, <2>1, <2>2 DEF DocumentsAge, ServedSince, HasDoc, provider
  <1>5. RetryKnows'
    BY <1>a, <1>b, <1>c, <1>d DEF RetryKnows, HasDoc, provider
  <1>6. AcceptedIsCurrent' /\ PublishedKeyIsFound'
    BY <1>a DEF AcceptedIsCurrent, PublishedKeyIsFound
  <1> QED  BY <1>1, <1>2, <1>3, <1>4, <1>5, <1>6

\* Time passes: no fetch outlives its timer, and no settled one waits.
LEMMA TickStep == ASSUME IInv, Tick  PROVE IInv'
  <1> USE DEF IInv
  <1>a. /\ now' = now + 1 /\ now < MaxTime /\ Quiet /\ verdict' = None
        /\ \A c \in Calls : fetches[c] # None => now < fetches[c].started + FetchTimeout
        /\ UNCHANGED <<published, withdrawn, cache, inflight, fetches, calls>>
    BY DEF Tick, provider
  <1>b. now \in 0..MaxTime /\ MaxTime \in Nat /\ FetchTimeout \in Nat
    BY TimesAssumption DEF TypeOK
  <1>1. TypeOK'
    BY <1>a, <1>b DEF TypeOK
  <1>2. AwaitsLiveFetch'
    BY <1>a DEF AwaitsLiveFetch
  <1>3. WithdrawnIsGone'
    <2>1. \A k \in DOMAIN withdrawn : withdrawn[k] \in 0..MaxTime
      BY DEF TypeOK, IsMap
    <2> QED  BY <1>a, <1>b, <2>1 DEF WithdrawnIsGone
  <1>4. DocumentsAge'
    <2>1. cache # None => cache.fetchedAt \in 0..MaxTime
      BY DEF TypeOK
    <2>2. \A c \in Calls : fetches[c] # None => fetches[c].started \in Nat
      BY Fields DEF TypeOK
    <2>3. \A c \in Calls : calls[c] # Idle => calls[c].awaits \in Calls
      BY <1>a DEF Quiet
    <2>4. cache # None => cache.fetchedAt <= now + 1
      BY <1>b, <2>1 DEF DocumentsAge
    <2>5. \A c \in Calls : fetches[c] # None =>
            fetches[c].started <= now + 1 /\ now + 1 <= fetches[c].started + FetchTimeout
      BY <1>a, <1>b, <2>2 DEF DocumentsAge
    <2> QED  BY <1>a, <2>3, <2>4, <2>5 DEF DocumentsAge, ServedSince
  <1>5. RetryKnows'
    BY <1>a DEF RetryKnows
  <1>6. AcceptedIsCurrent' /\ PublishedKeyIsFound'
    BY <1>a DEF AcceptedIsCurrent, PublishedKeyIsFound
  <1> QED  BY <1>1, <1>2, <1>3, <1>4, <1>5, <1>6

\* invalidate() forgets the cache and nothing else.
LEMMA InvalidateStep == ASSUME IInv, Invalidate  PROVE IInv'
  <1> USE DEF IInv
  <1>a. cache' = None /\ verdict' = None /\ UNCHANGED <<now, published, withdrawn, inflight, fetches, calls>>
    BY DEF Invalidate, provider
  <1>1. TypeOK'
    BY <1>a DEF TypeOK
  <1>2. AwaitsLiveFetch'
    BY <1>a DEF AwaitsLiveFetch
  <1>3. WithdrawnIsGone' /\ DocumentsAge'
    BY <1>a DEF WithdrawnIsGone, DocumentsAge, ServedSince
  <1>4. RetryKnows'
    BY <1>a DEF RetryKnows
  <1>5. AcceptedIsCurrent' /\ PublishedKeyIsFound'
    BY <1>a DEF AcceptedIsCurrent, PublishedKeyIsFound
  <1> QED  BY <1>1, <1>2, <1>3, <1>4, <1>5

-----------------------------------------------------------------------------
(* The end of a fetch *)

\* A fetch settles: what it gives reaches every call that awaits it.
LEMMA SettleStep ==
    ASSUME IInv, NEW c \in Calls, fetches[c] # None,
           NEW s \in Settled, Deliver(c, s),
           \/ cache' = cache
           \/ s.ok /\ cache' = CachedNow(s.doc),
           s.ok => s = fetches[c].answer,
           inflight' = None, fetches' = [fetches EXCEPT ![c] = None], verdict' = None,
           UNCHANGED <<now, provider>>
    PROVE  IInv'
  <1> USE DEF IInv
  <1>t. now \in 0..MaxTime /\ MaxTime \in Nat /\ FetchTimeout \in Nat
    BY TimesAssumption DEF TypeOK
  <1>a. /\ fetches'[c] = None
        /\ \A d \in Calls : d # c => fetches'[d] = fetches[d]
        /\ fetches' \in [Calls -> Fetch \cup {None}]
    BY DEF TypeOK
  <1>b. ASSUME NEW d \in Calls
        PROVE  calls'[d] = IF calls[d] # Idle /\ calls[d].awaits = c
                           THEN [calls[d] EXCEPT !.awaits = s] ELSE calls[d]
    BY DEF Deliver
  <1>c. ASSUME NEW d \in Calls, calls[d] # Idle
        PROVE  /\ calls'[d] \in Call /\ calls'[d] # Idle
               /\ calls'[d].known = calls[d].known
               /\ calls'[d].retried = calls[d].retried
               /\ calls'[d].awaits = IF calls[d].awaits = c THEN s ELSE calls[d].awaits
    <2>1. calls[d] \in Call
      BY <1>c DEF TypeOK
    <2>2. CASE calls[d].awaits = c
      <3>1. calls'[d] = [calls[d] EXCEPT !.awaits = s]
        BY <1>b, <1>c, <2>2
      <3>2. calls'[d] \in Call
        BY <2>1, <3>1 DEF Call
      <3>3. calls'[d] # Idle
        BY <3>2, CallShapes
      <3> QED  BY <2>1, <2>2, <3>1, <3>2, <3>3 DEF Call
    <2>3. CASE calls[d].awaits # c
      BY <1>b, <1>c, <2>1, <2>3
    <2> QED  BY <2>2, <2>3
  <1>d. ASSUME NEW d \in Calls, calls[d] = Idle  PROVE calls'[d] = Idle
    BY <1>b, <1>d
  <1>e. s \notin Calls
    BY ShapesAssumption
  <1>f. s.ok => /\ fetches[c].started \in Nat /\ fetches[c].started <= now
                /\ now <= fetches[c].started + FetchTimeout
                /\ s.doc \in SUBSET Keys
                /\ ServedSince(s.doc, fetches[c].started)
                /\ HasDoc(fetches[c].answer)
    <2> SUFFICES ASSUME s.ok
                 PROVE  /\ fetches[c].started \in Nat /\ fetches[c].started <= now
                        /\ now <= fetches[c].started + FetchTimeout
                        /\ s.doc \in SUBSET Keys
                        /\ ServedSince(s.doc, fetches[c].started)
                        /\ HasDoc(fetches[c].answer)
      OBVIOUS
    <2>1. fetches[c] \in Fetch
      BY DEF TypeOK
    <2>2. HasDoc(fetches[c].answer)
      BY CallShapes DEF HasDoc
    <2> QED  BY <2>1, <2>2, Fields DEF DocumentsAge
  <1>g. s.ok => ServedSince(s.doc, now - FetchTimeout)
    <2> SUFFICES ASSUME s.ok, NEW k \in s.doc, k \notin published
                 PROVE  k \in DOMAIN withdrawn /\ now - FetchTimeout <= withdrawn[k]
      BY DEF ServedSince
    <2>2. k \in DOMAIN withdrawn /\ fetches[c].started <= withdrawn[k]
      BY <1>f DEF ServedSince
    <2>1. withdrawn[k] \in 0..MaxTime
      BY <2>2 DEF TypeOK, IsMap
    <2> QED  BY <1>f, <1>t, <2>1, <2>2
  <1>1. TypeOK'
    <2>1. cache' \in [doc : SUBSET Keys, fetchedAt : 0..MaxTime] \cup {None}
      BY <1>f, <1>t DEF TypeOK, CachedNow
    <2>2. calls' \in [Calls -> Call \cup {Idle}]
      <3>1. calls' = [d \in Calls |-> calls'[d]]
        BY DEF Deliver
      <3> QED  BY <1>c, <1>d, <3>1
    <2> QED  BY <1>a, <2>1, <2>2 DEF TypeOK, provider
  <1>2. AwaitsLiveFetch'
    <2>1. ASSUME NEW d \in Calls, calls'[d] # Idle, calls'[d].awaits \in Calls
          PROVE  fetches'[calls'[d].awaits] # None
      <3>1. calls[d] # Idle /\ calls'[d].awaits = calls[d].awaits /\ calls[d].awaits # c
        BY <2>1, <1>c, <1>d, <1>e
      <3>2. fetches[calls[d].awaits] # None
        BY <2>1, <3>1 DEF AwaitsLiveFetch
      <3> QED  BY <1>a, <2>1, <3>1, <3>2
    <2>2. ASSUME NEW d \in Calls, fetches'[d] # None
          PROVE  calls'[d] # Idle /\ calls'[d].awaits = d
      <3>1. d # c /\ fetches[d] # None
        BY <1>a, <2>2
      <3>2. calls[d] # Idle /\ calls[d].awaits = d
        BY <3>1 DEF AwaitsLiveFetch
      <3> QED  BY <1>c, <3>1, <3>2
    <2> QED  BY <2>1, <2>2 DEF AwaitsLiveFetch
  <1>3. WithdrawnIsGone'
    BY DEF WithdrawnIsGone, provider
  <1>4. DocumentsAge'
    <2>1. cache' # None => /\ cache'.fetchedAt <= now
                           /\ ServedSince(cache'.doc, cache'.fetchedAt - FetchTimeout)
      <3>1. CASE cache' = cache
        BY <3>1 DEF DocumentsAge
      <3>2. CASE s.ok /\ cache' = CachedNow(s.doc)
        BY <3>2, <1>g, <1>t DEF CachedNow
      <3> QED  BY <3>1, <3>2
    <2>2. ASSUME NEW d \in Calls, calls'[d] # Idle, calls'[d].awaits \notin Calls, calls'[d].awaits.ok
          PROVE  ServedSince(calls'[d].awaits.doc, now - FetchTimeout)
      <3>1. calls[d] # Idle
        BY <2>2, <1>d
      <3>2. CASE calls[d].awaits = c
        BY <2>2, <3>1, <3>2, <1>c, <1>g
      <3>3. CASE calls[d].awaits # c
        BY <2>2, <3>1, <3>3, <1>c DEF DocumentsAge
      <3> QED  BY <3>2, <3>3
    <2>3. \A d \in Calls : fetches'[d] # None => fetches'[d] = fetches[d] /\ fetches[d] # None
      BY <1>a
    <2>4. UNCHANGED <<now, published, withdrawn>>
      BY DEF provider
    <2> QED  BY <2>1, <2>2, <2>3, <2>4 DEF DocumentsAge, ServedSince
  <1>5. RetryKnows'
    <2> SUFFICES ASSUME NEW d \in Calls, calls'[d] # Idle
                 PROVE  /\ calls'[d].known \subseteq published \cup DOMAIN withdrawn
                        /\ calls'[d].retried =>
                            /\ calls'[d].awaits \in Calls => calls'[d].awaits = d
                            /\ calls'[d].awaits = d /\ HasDoc(fetches'[d].answer) =>
                                calls'[d].known \cap published \subseteq fetches'[d].answer.doc
                            /\ calls'[d].awaits \notin Calls /\ calls'[d].awaits.ok =>
                                calls'[d].known \cap published \subseteq calls'[d].awaits.doc
      BY DEF RetryKnows, provider, HasDoc
    <2>1. calls[d] # Idle
      BY <1>d
    <2>2. CASE calls[d].awaits = c
      <3>1. calls'[d].awaits = s /\ s \notin Calls
        BY <1>c, <1>e, <2>1, <2>2
      <3>2. calls[d].retried /\ s.ok => calls[d].known \cap published \subseteq s.doc
        BY <1>f, <2>1, <2>2 DEF RetryKnows
      <3> QED  BY <1>c, <2>1, <3>1, <3>2 DEF RetryKnows
    <2>3. CASE calls[d].awaits # c
      <3>1. calls[d].awaits = d => fetches'[d] = fetches[d]
        BY <1>a, <2>3
      <3> QED  BY <1>c, <2>1, <2>3, <3>1 DEF RetryKnows
    <2> QED  BY <2>2, <2>3
  <1>6. AcceptedIsCurrent' /\ PublishedKeyIsFound'
    BY DEF AcceptedIsCurrent, PublishedKeyIsFound
  <1> QED  BY <1>1, <1>2, <1>3, <1>4, <1>5, <1>6

\* The answer arrives.
LEMMA ArriveStep == ASSUME IInv, NEW c \in Calls, Arrive(c)  PROVE IInv'
  <1> DEFINE a == fetches[c].answer
  <1>1. /\ fetches[c] # None /\ a # Unanswered /\ Deliver(c, a)
        /\ cache' = IF a.ok THEN CachedNow(a.doc) ELSE cache
        /\ inflight' = None /\ fetches' = [fetches EXCEPT ![c] = None] /\ verdict' = None
        /\ UNCHANGED <<now, provider>>
    BY DEF Arrive, InflightAfter
  <1>2. fetches[c] \in Fetch
    BY <1>1 DEF IInv, TypeOK
  <1>3. a \in Settled
    BY <1>1, <1>2, Fields DEF Settled
  <1>4. a.ok \in BOOLEAN
    BY <1>3, Fields
  <1> HIDE DEF a
  <1>5. \/ cache' = cache
        \/ a.ok /\ cache' = CachedNow(a.doc)
    BY <1>1, <1>4
  <1>6. a.ok => a = fetches[c].answer
    BY DEF a
  <1> QED  BY <1>1, <1>3, <1>5, <1>6, SettleStep

\* The network fails, or the timer aborts the fetch.
LEMMA FailStep == ASSUME IInv, NEW c \in Calls, Fail(c)  PROVE IInv'
  <1> DEFINE s == [ok |-> FALSE, error |-> "fetch_failed"]
  <1>1. s \in Settled /\ ~s.ok
    BY DEF Settled
  <1>2. /\ fetches[c] # None /\ Deliver(c, s) /\ cache' = cache
        /\ inflight' = None /\ fetches' = [fetches EXCEPT ![c] = None] /\ verdict' = None
        /\ UNCHANGED <<now, provider>>
    BY DEF Fail, InflightAfter
  <1> HIDE DEF s
  <1> QED  BY <1>1, <1>2, SettleStep

-----------------------------------------------------------------------------
(* A turn of validate() *)

\* The call ends with a verdict that the bounds justify.
LEMMA ConcludeStep ==
    ASSUME IInv, NEW c \in Calls, NEW call \in Call, NEW outcome \in Outcomes,
           Conclude(c, call, outcome), fetches[c] = None,
           UNCHANGED <<now, provider, cache>>,
           outcome = "ok" =>
               now < call.token.exp /\ Honoured(call.token.signer),
           outcome = "no_key" => call.token.kid \notin call.known \cap published
    PROVE  IInv'
  <1> USE DEF IInv
  <1>a. /\ verdict' = [token |-> call.token, known |-> call.known, outcome |-> outcome, at |-> now]
        /\ calls' = [calls EXCEPT ![c] = Idle]
        /\ UNCHANGED <<inflight, fetches>>
        /\ UNCHANGED <<published, withdrawn>>
    BY DEF Conclude, provider
  <1>b. calls'[c] = Idle /\ \A d \in Calls : d # c => calls'[d] = calls[d]
    BY <1>a DEF TypeOK
  <1>1. TypeOK'
    <2>1. verdict' \in Verdict
      BY <1>a, Fields DEF Verdict, TypeOK
    <2>2. calls' \in [Calls -> Call \cup {Idle}]
      BY <1>a DEF TypeOK
    <2> QED  BY <1>a, <2>1, <2>2 DEF TypeOK
  <1>2. AwaitsLiveFetch'
    BY <1>a, <1>b DEF AwaitsLiveFetch
  <1>3. WithdrawnIsGone'
    BY <1>a DEF WithdrawnIsGone
  <1>4. DocumentsAge'
    BY <1>a, <1>b DEF DocumentsAge, ServedSince
  <1>5. RetryKnows'
    BY <1>a, <1>b DEF RetryKnows
  <1>6. AcceptedIsCurrent'
    BY <1>a DEF AcceptedIsCurrent, Honoured
  <1>7. PublishedKeyIsFound'
    BY <1>a DEF PublishedKeyIsFound
  <1> QED  BY <1>1, <1>2, <1>3, <1>4, <1>5, <1>6, <1>7

\* The call awaits a fetch: its own, or the one in flight.
LEMMA AwaitStep ==
    ASSUME IInv, NEW c \in Calls, NEW call \in Call, NEW d \in Calls,
           call.known \subseteq published \cup DOMAIN withdrawn,
           calls' = [calls EXCEPT ![c] = [call EXCEPT !.awaits = d]], verdict' = None,
           fetches[c] = None,
           \/ /\ d = c /\ inflight' = c
              /\ fetches' = [fetches EXCEPT ![c] = [started |-> now, answer |-> Unanswered]]
           \/ /\ inflight = d /\ ~call.retried
              /\ UNCHANGED <<inflight, fetches>>,
           UNCHANGED <<now, provider, cache>>
    PROVE  IInv'
  <1> USE DEF IInv
  <1>t. now \in 0..MaxTime /\ MaxTime \in Nat /\ FetchTimeout \in Nat
    BY TimesAssumption DEF TypeOK
  <1>a. UNCHANGED <<published, withdrawn>>
    BY DEF provider
  <1>b. /\ calls'[c] \in Call /\ calls'[c] # Idle
        /\ calls'[c].known = call.known /\ calls'[c].retried = call.retried
        /\ calls'[c].awaits = d
        /\ \A e \in Calls : e # c => calls'[e] = calls[e]
    <2>1. [call EXCEPT !.awaits = d] \in Call
      BY DEF Call
    <2>2. calls'[c] = [call EXCEPT !.awaits = d]
      BY DEF TypeOK
    <2>3. \A e \in Calls : e # c => calls'[e] = calls[e]
      BY DEF TypeOK
    <2> QED  BY <2>1, <2>2, <2>3, CallShapes DEF Call
  <1>c. /\ fetches' \in [Calls -> Fetch \cup {None}]
        /\ \A e \in Calls : e # c => fetches'[e] = fetches[e]
        /\ fetches'[d] # None
        /\ fetches'[c] # None => d = c /\ fetches'[c] = [started |-> now, answer |-> Unanswered]
        /\ inflight' \in Calls /\ fetches'[inflight'] # None
    <2>1. CASE d = c /\ inflight' = c
               /\ fetches' = [fetches EXCEPT ![c] = [started |-> now, answer |-> Unanswered]]
      <3>1. [started |-> now, answer |-> Unanswered] \in Fetch
        BY <1>t DEF Fetch
      <3>2. [started |-> now, answer |-> Unanswered] # None
        BY <3>1, ShapesAssumption
      <3> QED  BY <2>1, <3>1, <3>2 DEF TypeOK
    <2>2. CASE inflight = d /\ UNCHANGED <<inflight, fetches>>
      <3>1. inflight # None /\ fetches[inflight] # None
        BY <2>2, KeysAssumption DEF AwaitsLiveFetch
      <3> QED  BY <2>2, <3>1 DEF TypeOK
    <2> QED  BY <2>1, <2>2
  <1>1. TypeOK'
    <2>1. calls' \in [Calls -> Call \cup {Idle}]
      BY <1>b DEF TypeOK
    <2> QED  BY <1>a, <1>c, <2>1 DEF TypeOK
  <1>2. AwaitsLiveFetch'
    <2>1. ASSUME NEW e \in Calls, calls'[e] # Idle, calls'[e].awaits \in Calls
          PROVE  fetches'[calls'[e].awaits] # None
      <3>1. CASE e = c
        BY <3>1, <1>b, <1>c
      <3>2. CASE e # c
        <4>1. calls'[e] = calls[e] /\ fetches[calls[e].awaits] # None
          BY <2>1, <3>2, <1>b DEF AwaitsLiveFetch
        <4> QED  BY <2>1, <4>1, <1>c
      <3> QED  BY <3>1, <3>2
    <2>2. ASSUME NEW e \in Calls, fetches'[e] # None
          PROVE  calls'[e] # Idle /\ calls'[e].awaits = e
      BY <2>2, <1>b, <1>c DEF AwaitsLiveFetch
    <2> QED  BY <2>1, <2>2, <1>c DEF AwaitsLiveFetch
  <1>3. WithdrawnIsGone'
    BY <1>a DEF WithdrawnIsGone
  <1>4. DocumentsAge'
    <2>1. ASSUME NEW e \in Calls, fetches'[e] # None
          PROVE  /\ fetches'[e].started <= now /\ now <= fetches'[e].started + FetchTimeout
                 /\ HasDoc(fetches'[e].answer) => ServedSince(fetches'[e].answer.doc, fetches'[e].started)
      BY <2>1, <1>c, <1>t DEF DocumentsAge, HasDoc
    <2>2. ASSUME NEW e \in Calls, calls'[e] # Idle, calls'[e].awaits \notin Calls, calls'[e].awaits.ok
          PROVE  ServedSince(calls'[e].awaits.doc, now - FetchTimeout)
      BY <2>2, <1>b DEF DocumentsAge
    <2> QED  BY <1>a, <2>1, <2>2 DEF DocumentsAge, ServedSince, HasDoc
  <1>5. RetryKnows'
    <2> SUFFICES ASSUME NEW e \in Calls, calls'[e] # Idle
                 PROVE  /\ calls'[e].known \subseteq published \cup DOMAIN withdrawn
                        /\ calls'[e].retried =>
                            /\ calls'[e].awaits \in Calls => calls'[e].awaits = e
                            /\ calls'[e].awaits = e /\ HasDoc(fetches'[e].answer) =>
                                calls'[e].known \cap published \subseteq fetches'[e].answer.doc
                            /\ calls'[e].awaits \notin Calls /\ calls'[e].awaits.ok =>
                                calls'[e].known \cap published \subseteq calls'[e].awaits.doc
      BY <1>a DEF RetryKnows, HasDoc
    <2>1. CASE e = c
      <3>1. call.retried => d = c
        OBVIOUS
      <3>2. call.retried => ~HasDoc(fetches'[c].answer)
        BY <1>c, <3>1 DEF HasDoc
      <3> QED  BY <2>1, <3>1, <3>2, <1>b
    <2>2. CASE e # c
      BY <2>2, <1>b, <1>c DEF RetryKnows
    <2> QED  BY <2>1, <2>2
  <1>6. AcceptedIsCurrent' /\ PublishedKeyIsFound'
    BY DEF AcceptedIsCurrent, PublishedKeyIsFound
  <1> QED  BY <1>1, <1>2, <1>3, <1>4, <1>5, <1>6

\* A token that passes the checks was signed with the key and has not expired.
LEMMA CheckIsSound ==
    ASSUME NEW token \in Tokens, NEW key, now \in Nat
    PROVE  /\ Check(token, key) \in Outcomes
           /\ Check(token, key) # "no_key"
           /\ Check(token, key) = "ok" => key = token.signer /\ now < token.exp
  <1>1. token.exp \in Nat
    BY TokensAssumption
  <1> QED  BY <1>1 DEF Check, ValidateClaims, Outcomes

\* validate() goes on with a document that is young enough.
LEMMA ProceedStep ==
    ASSUME IInv, NEW c \in Calls, NEW call \in Call, NEW doc \in SUBSET Keys,
           Proceed(c, call, doc), fetches[c] = None,
           UNCHANGED <<now, provider, cache>>,
           call.known \subseteq published \cup DOMAIN withdrawn,
           \A k \in doc : Honoured(k),
           call.retried => call.known \cap published \subseteq doc
    PROVE  IInv'
  <1>1. ASSUME NEW key \in Selected(call.token, doc), Conclude(c, call, Check(call.token, key))
        PROVE  IInv'
    <2>1. call.token \in Tokens /\ now \in Nat
      BY Fields, TimesAssumption DEF IInv, TypeOK
    <2>2. key \in doc
      BY DEF Selected
    <2> QED  BY <1>1, <2>1, <2>2, CheckIsSound, ConcludeStep
  <1>2. CASE /\ Selected(call.token, doc) = {}
             /\ ~call.retried
             /\ Refetch(c, [call EXCEPT !.retried = TRUE])
    <2> DEFINE again == [call EXCEPT !.retried = TRUE]
    <2>1. again \in Call /\ again.known = call.known
      BY DEF Call
    <2>2. StartFetch(c, again)
      BY <1>2 DEF Refetch
    <2> HIDE DEF again
    <2> QED  BY <2>1, <2>2, AwaitStep DEF StartFetch
  <1>3. CASE /\ Selected(call.token, doc) = {}
             /\ call.token.kid = NoKid \/ call.retried
             /\ Conclude(c, call, "no_key")
    <2>1. call.token.kid \notin call.known \cap published
      <3>1. CASE call.token.kid = NoKid
        BY <3>1, Fields, KeysAssumption
      <3>2. CASE call.token.kid # NoKid
        BY <1>3, <3>2 DEF Selected
      <3> QED  BY <3>1, <3>2
    <2> QED  BY <1>3, <2>1, ConcludeStep DEF Outcomes
  <1> QED  BY <1>1, <1>2, <1>3 DEF Proceed

\* The keys of a fresh cache may be honoured.
LEMMA CachedIsHonoured ==
    ASSUME IInv, Fresh, NEW k \in cache.doc  PROVE Honoured(k)
  <1> SUFFICES ASSUME k \notin published
               PROVE  k \in DOMAIN withdrawn /\ now < withdrawn[k] + FetchTimeout + CacheTtl
    BY DEF Honoured
  <1>1. cache # None /\ now - cache.fetchedAt < CacheTtl
    BY DEF Fresh
  <1>2. k \in DOMAIN withdrawn /\ cache.fetchedAt - FetchTimeout <= withdrawn[k]
    BY <1>1 DEF IInv, DocumentsAge, ServedSince
  <1>3. /\ withdrawn[k] \in 0..MaxTime /\ now \in 0..MaxTime
        /\ cache.fetchedAt \in 0..MaxTime
    BY <1>1, <1>2 DEF IInv, TypeOK, IsMap
  <1> QED  BY <1>1, <1>2, <1>3, TimesAssumption

\* So may those of a document that has just arrived.
LEMMA ArrivedIsHonoured ==
    ASSUME IInv, NEW c \in Calls, calls[c] # Idle, calls[c].awaits \notin Calls,
           calls[c].awaits.ok, NEW k \in calls[c].awaits.doc
    PROVE  Honoured(k)
  <1> SUFFICES ASSUME k \notin published
               PROVE  k \in DOMAIN withdrawn /\ now < withdrawn[k] + FetchTimeout + CacheTtl
    BY DEF Honoured
  <1>1. k \in DOMAIN withdrawn /\ now - FetchTimeout <= withdrawn[k]
    BY DEF IInv, DocumentsAge, ServedSince
  <1>2. withdrawn[k] \in 0..MaxTime /\ now \in 0..MaxTime
    BY <1>1 DEF IInv, TypeOK, IsMap
  <1> QED  BY <1>1, <1>2, TimesAssumption

\* A validate() begins, with the cache, a fetch in flight or one of its own.
LEMMA BeginStep == ASSUME IInv, NEW c \in Calls, Begin(c)  PROVE IInv'
  <1>a. calls[c] = Idle /\ UNCHANGED <<now, provider, cache>>
    BY DEF Begin
  <1>b. fetches[c] = None
    BY <1>a DEF IInv, AwaitsLiveFetch
  <1> PICK token \in Tokens :
        LET call == [token |-> token, known |-> published, retried |-> FALSE, awaits |-> c] IN
        \/ Fresh /\ Proceed(c, call, cache.doc)
        \/ ~Fresh /\ inflight # None /\ JoinFetch(c, call)
        \/ ~Fresh /\ inflight = None /\ StartFetch(c, call)
    BY DEF Begin
  <1> DEFINE call == [token |-> token, known |-> published, retried |-> FALSE, awaits |-> c]
  <1>c. /\ call \in Call /\ ~call.retried
        /\ call.known \subseteq published \cup DOMAIN withdrawn
    BY DEF Call, IInv, TypeOK
  <1>d. \/ Fresh /\ Proceed(c, call, cache.doc)
        \/ inflight # None /\ JoinFetch(c, call)
        \/ StartFetch(c, call)
    OBVIOUS
  <1> HIDE DEF call
  <1>1. CASE Fresh /\ Proceed(c, call, cache.doc)
    <2>1. cache # None /\ now - cache.fetchedAt < CacheTtl
      BY <1>1 DEF Fresh
    <2>2. cache.doc \in SUBSET Keys /\ cache.fetchedAt \in 0..MaxTime
      BY <2>1 DEF IInv, TypeOK
    <2>3. \A k \in cache.doc : Honoured(k)
      BY <2>1, CachedIsHonoured DEF Fresh
    <2> QED  BY <1>1, <1>a, <1>b, <1>c, <2>2, <2>3, ProceedStep
  <1>2. CASE inflight # None /\ JoinFetch(c, call)
    <2>1. inflight \in Calls
      BY <1>2 DEF IInv, TypeOK
    <2> QED  BY <1>2, <1>a, <1>b, <1>c, <2>1, AwaitStep DEF JoinFetch
  <1>3. CASE StartFetch(c, call)
    BY <1>3, <1>a, <1>b, <1>c, AwaitStep DEF StartFetch
  <1> QED  BY <1>d, <1>1, <1>2, <1>3

\* The fetch that the call awaited has settled.
LEMMA ResumeStep == ASSUME IInv, NEW c \in Calls, Resume(c)  PROVE IInv'
  <1> DEFINE s == calls[c].awaits
  <1>a. /\ calls[c] # Idle /\ s \notin Calls /\ UNCHANGED <<now, provider, cache>>
        /\ \/ s.ok /\ Proceed(c, calls[c], s.doc)
           \/ ~s.ok /\ Conclude(c, calls[c], s.error)
    BY DEF Resume
  <1>b. calls[c] \in Call /\ s \in Settled
    BY <1>a, Fields DEF IInv, TypeOK
  <1>c. fetches[c] = None
    BY <1>a DEF IInv, AwaitsLiveFetch
  <1>1. CASE s.ok /\ Proceed(c, calls[c], s.doc)
    <2>1. s.doc \in SUBSET Keys
      BY <1>1, <1>b, Fields
    <2>2. \A k \in s.doc : Honoured(k)
      BY <1>a, <1>1, ArrivedIsHonoured
    <2>3. /\ calls[c].known \subseteq published \cup DOMAIN withdrawn
          /\ calls[c].retried => calls[c].known \cap published \subseteq s.doc
      BY <1>a, <1>1 DEF IInv, RetryKnows
    <2> QED  BY <1>1, <1>a, <1>b, <1>c, <2>1, <2>2, <2>3, ProceedStep
  <1>2. CASE ~s.ok /\ Conclude(c, calls[c], s.error)
    BY <1>2, <1>a, <1>b, <1>c, Fields, ConcludeStep
  <1> QED  BY <1>a, <1>1, <1>2

-----------------------------------------------------------------------------
\* Every step keeps the bounds.
LEMMA NextIInv == IInv /\ [Next]_vars => IInv'
  <1> SUFFICES ASSUME IInv, [Next]_vars  PROVE IInv'
    OBVIOUS
  <1>1. CASE UNCHANGED vars
    BY <1>1 DEF vars, provider, IInv, TypeOK, AwaitsLiveFetch, WithdrawnIsGone, DocumentsAge,
                ServedSince, HasDoc, RetryKnows, AcceptedIsCurrent, Honoured, PublishedKeyIsFound
  <1>2. CASE Publish \/ Withdraw \/ Tick \/ Invalidate
    BY <1>2, PublishStep, WithdrawStep, TickStep, InvalidateStep
  <1>3. ASSUME NEW c \in Calls, Serve(c) \/ Arrive(c) \/ Fail(c) \/ Begin(c) \/ Resume(c)
        PROVE  IInv'
    BY <1>3, ServeStep, ArriveStep, FailStep, BeginStep, ResumeStep
  <1> QED  BY <1>1, <1>2, <1>3 DEF Next

\* The inductive invariant: documents are no older than their fetch and the
\* cache allow, calls await live fetches, a retry sees what is published.
THEOREM Bounded == Spec => []IInv
  BY InitIInv, NextIInv, PTL DEF Spec

\* The state of the validator keeps its shape.
THEOREM ValidatorTypeCorrect == Spec => []TypeOK
  <1>1. IInv => TypeOK
    BY DEF IInv
  <1> QED  BY <1>1, Bounded, PTL

\* No call waits for a fetch that has ended, none is handed one, and there
\* are never more fetches than calls that wait for them.
THEOREM FetchesAreAwaited == Spec => []AwaitsLiveFetch
  <1>1. IInv => AwaitsLiveFetch
    BY DEF IInv
  <1> QED  BY <1>1, Bounded, PTL

\* Only keys of the provider are honoured, one it has withdrawn for less than
\* a fetch and a cache lifetime, and no token from its expiry on, for every
\* number of calls, keys and tokens.
THEOREM WithdrawnKeysDie == Spec => []AcceptedIsCurrent
  <1>1. IInv => AcceptedIsCurrent
    BY DEF IInv
  <1> QED  BY <1>1, Bounded, PTL

\* A key that is published all through a call is found by it.
THEOREM RotationIsFollowed == Spec => []PublishedKeyIsFound
  <1>1. IInv => PublishedKeyIsFound
    BY DEF IInv
  <1> QED  BY <1>1, Bounded, PTL

-----------------------------------------------------------------------------
(* The validator keeps its promise *)

\* The question a call is about.
QuestionOf(call) == [token |-> call.token, known |-> call.known]

\* What is asked, call by call.
LEMMA AskedIs ==
    /\ Asked \in [Calls -> {Idle} \cup {QuestionOf(calls[c]) : c \in Calls}]
    /\ \A c \in Calls : calls[c] = Idle => Asked[c] = Idle
    /\ \A c \in Calls : calls[c] # Idle => Asked[c] = QuestionOf(calls[c])
    /\ \A call : QuestionOf(call) # Idle
  BY DEF Asked, QuestionOf, Idle

\* A step that gives no verdict and leaves every question as it was.
LEMMA WaitStep ==
    ASSUME verdict' = None, Asked' = Asked, UNCHANGED <<now, published, withdrawn>>
    PROVE  Promise!Next
  BY DEF Promise!Next, Promise!Wait

\* A call comes to wait: it is asked now, or goes on with its question.
LEMMA WaitingStep ==
    ASSUME TypeOK, NEW c \in Calls, NEW call \in Call, verdict' = None,
           calls' = [calls EXCEPT ![c] = call],
           \/ calls[c] = Idle /\ call.known = published
           \/ calls[c] # Idle /\ QuestionOf(call) = QuestionOf(calls[c]),
           UNCHANGED <<now, published, withdrawn>>
    PROVE  Promise!Next
  <1>1. call # Idle /\ call.token \in Tokens
    BY CallShapes, Fields
  <1>2. Asked' = [Asked EXCEPT ![c] = QuestionOf(call)]
    BY <1>1 DEF Asked, QuestionOf, TypeOK
  <1>3. CASE calls[c] = Idle /\ call.known = published
    <2>1. Promise!Ask(c, call.token)
      BY <1>2, <1>3, AskedIs DEF Promise!Ask, Promise!Question, QuestionOf
    <2> QED  BY <1>1, <2>1 DEF Promise!Next
  <1>4. CASE calls[c] # Idle /\ QuestionOf(call) = QuestionOf(calls[c])
    <2>1. Asked' = Asked
      BY <1>2, <1>4, AskedIs
    <2> QED  BY <2>1, WaitStep
  <1> QED  BY <1>3, <1>4

\* A verdict that is true answers the question of its call.
LEMMA AnswerStep ==
    ASSUME TypeOK, NEW c \in Calls, NEW call \in Call, NEW outcome \in Outcomes,
           Conclude(c, call, outcome),
           Promise!IsTrue(QuestionOf(call), outcome),
           \/ calls[c] = Idle /\ call.known = published
           \/ calls[c] # Idle /\ QuestionOf(call) = QuestionOf(calls[c]),
           UNCHANGED <<now, published, withdrawn>>
    PROVE  Promise!Next
  <1>1. Asked' = [Asked EXCEPT ![c] = Idle]
    BY DEF Conclude, Asked, TypeOK
  <1>2. Promise!Given(QuestionOf(call), outcome)
    BY DEF Promise!Given, Conclude, QuestionOf
  <1>3. CASE calls[c] = Idle /\ call.known = published
    <2>1. UNCHANGED Asked
      BY <1>1, <1>3, AskedIs
    <2>2. Promise!Question(call.token) = QuestionOf(call)
      BY <1>3 DEF Promise!Question, QuestionOf
    <2>3. Promise!AnswerAtOnce(call.token, outcome)
      BY <1>2, <2>1, <2>2 DEF Promise!AnswerAtOnce
    <2> QED  BY <2>3, Fields DEF Promise!Next
  <1>4. CASE calls[c] # Idle /\ QuestionOf(call) = QuestionOf(calls[c])
    <2>1. Promise!Answer(c, outcome)
      BY <1>1, <1>2, <1>4, AskedIs DEF Promise!Answer
    <2> QED  BY <2>1 DEF Promise!Next
  <1> QED  BY <1>3, <1>4

\* What the checks say of a selected key is true of the token.
LEMMA CheckIsTrue ==
    ASSUME TypeOK, NEW call \in Call, NEW doc, NEW key \in Selected(call.token, doc),
           Honoured(key)
    PROVE  Promise!IsTrue(QuestionOf(call), Check(call.token, key))
  <1> DEFINE t == call.token
  <1>1. t \in Tokens /\ t.exp \in Nat /\ t.signer \in Keys /\ now \in Nat
    BY Fields, TokensAssumption DEF TypeOK
  <1>2. Check(t, key) = "ok" => key = t.signer /\ now < t.exp
    BY <1>1, CheckIsSound
  <1>3. Check(t, key) = "expired" => t.exp <= now
    BY <1>1 DEF Check, ValidateClaims
  <1>4. Check(t, key) = "bad_signature" => t.kid # t.signer
    <2>1. Check(t, key) = "bad_signature" => key # t.signer
      BY <1>1 DEF Check, ValidateClaims
    <2>2. t.kid # NoKid => key = t.kid
      BY DEF Selected
    <2> QED  BY <1>1, <2>1, <2>2, KeysAssumption
  <1>5. Check(t, key) # "no_key"
    BY <1>1, CheckIsSound
  <1>6. Promise!Honoured(key)
    <2>1. CASE key \in published
      BY <2>1 DEF Promise!Honoured
    <2>2. CASE key \in DOMAIN withdrawn /\ now < withdrawn[key] + FetchTimeout + CacheTtl
      <3>1. withdrawn[key] \in Nat
        BY <2>2 DEF TypeOK, IsMap
      <3>2. now < withdrawn[key] + (FetchTimeout + CacheTtl)
        BY <1>1, <2>2, <3>1, TimesAssumption
      <3> QED  BY <2>2, <3>2 DEF Promise!Honoured
    <2> QED  BY <2>1, <2>2 DEF Honoured
  <1> HIDE DEF t
  <1>7. QuestionOf(call).token = t
    BY DEF QuestionOf, t
  <1> QED  BY <1>2, <1>3, <1>4, <1>5, <1>6, <1>7 DEF Promise!IsTrue, t

\* A turn that goes on with a document answers the call or lets it wait.
LEMMA ProceedKeeps ==
    ASSUME TypeOK, NEW c \in Calls, NEW call \in Call, NEW doc \in SUBSET Keys,
           Proceed(c, call, doc), \A k \in doc : Honoured(k),
           call.retried => call.known \cap published \subseteq doc,
           \/ calls[c] = Idle /\ call.known = published
           \/ calls[c] # Idle /\ QuestionOf(call) = QuestionOf(calls[c]),
           UNCHANGED <<now, published, withdrawn>>
    PROVE  Promise!Next
  <1>t. now \in Nat /\ call.token \in Tokens
    BY Fields, TimesAssumption DEF TypeOK
  <1>1. ASSUME NEW key \in Selected(call.token, doc), Conclude(c, call, Check(call.token, key))
        PROVE  Promise!Next
    <2>1. Honoured(key)
      BY DEF Selected
    <2>2. Check(call.token, key) \in Outcomes
      BY <1>t, CheckIsSound
    <2>3. Promise!IsTrue(QuestionOf(call), Check(call.token, key))
      BY <1>t, <2>1, CheckIsTrue
    <2> QED  BY <1>1, <2>2, <2>3, AnswerStep
  <1>2. CASE Refetch(c, [call EXCEPT !.retried = TRUE])
    <2> DEFINE again == [[call EXCEPT !.retried = TRUE] EXCEPT !.awaits = c]
    <2>1. again \in Call /\ QuestionOf(again) = QuestionOf(call) /\ again.known = call.known
      BY DEF Call, QuestionOf
    <2>2. verdict' = None /\ calls' = [calls EXCEPT ![c] = again]
      BY <1>2 DEF Refetch, StartFetch
    <2> HIDE DEF again
    <2> QED  BY <2>1, <2>2, WaitingStep
  <1>3. CASE /\ Selected(call.token, doc) = {}
             /\ call.token.kid = NoKid \/ call.retried
             /\ Conclude(c, call, "no_key")
    <2>1. call.token.kid \notin call.known \cap published
      <3>1. CASE call.token.kid = NoKid
        BY <3>1, Fields, KeysAssumption
      <3>2. CASE call.token.kid # NoKid
        BY <1>3, <3>2 DEF Selected
      <3> QED  BY <3>1, <3>2
    <2>2. Promise!IsTrue(QuestionOf(call), "no_key")
      BY <2>1 DEF Promise!IsTrue, QuestionOf
    <2> QED  BY <1>3, <2>2, AnswerStep DEF Outcomes
  <1> QED  BY <1>1, <1>2, <1>3 DEF Proceed

\* A validate() that begins asks, and may be answered in the same turn.
LEMMA BeginKeeps == ASSUME IInv, NEW c \in Calls, Begin(c)  PROVE Promise!Next
  <1>a. /\ TypeOK /\ calls[c] = Idle /\ UNCHANGED <<now, published, withdrawn, cache>>
    BY DEF Begin, IInv, provider
  <1> PICK token \in Tokens :
        LET call == [token |-> token, known |-> published, retried |-> FALSE, awaits |-> c] IN
        \/ Fresh /\ Proceed(c, call, cache.doc)
        \/ ~Fresh /\ inflight # None /\ JoinFetch(c, call)
        \/ ~Fresh /\ inflight = None /\ StartFetch(c, call)
    BY DEF Begin
  <1> DEFINE call == [token |-> token, known |-> published, retried |-> FALSE, awaits |-> c]
  <1>c. call \in Call /\ ~call.retried /\ call.known = published
    BY <1>a DEF Call, TypeOK
  <1>d. \/ Fresh /\ Proceed(c, call, cache.doc)
        \/ inflight # None /\ JoinFetch(c, call)
        \/ StartFetch(c, call)
    OBVIOUS
  <1> HIDE DEF call
  <1>1. CASE Fresh /\ Proceed(c, call, cache.doc)
    <2>1. cache.doc \in SUBSET Keys
      BY <1>1, <1>a DEF Fresh, TypeOK
    <2>2. \A k \in cache.doc : Honoured(k)
      BY <1>1, CachedIsHonoured
    <2> QED  BY <1>1, <1>a, <1>c, <2>1, <2>2, ProceedKeeps
  <1>2. ASSUME NEW d \in Calls, verdict' = None,
               calls' = [calls EXCEPT ![c] = [call EXCEPT !.awaits = d]]
        PROVE  Promise!Next
    <2>1. [call EXCEPT !.awaits = d] \in Call /\ [call EXCEPT !.awaits = d].known = published
      BY <1>c DEF Call
    <2> QED  BY <1>2, <1>a, <2>1, WaitingStep
  <1>3. inflight # None => inflight \in Calls
    BY <1>a DEF TypeOK
  <1> QED  BY <1>d, <1>1, <1>2, <1>3 DEF JoinFetch, StartFetch

\* A call that is resumed is answered, or waits for a fetch of its own.
LEMMA ResumeKeeps == ASSUME IInv, NEW c \in Calls, Resume(c)  PROVE Promise!Next
  <1> DEFINE s == calls[c].awaits
  <1>a. /\ TypeOK /\ calls[c] # Idle /\ s \notin Calls
        /\ UNCHANGED <<now, published, withdrawn>>
        /\ \/ s.ok /\ Proceed(c, calls[c], s.doc)
           \/ ~s.ok /\ Conclude(c, calls[c], s.error)
    BY DEF Resume, IInv, provider
  <1>b. calls[c] \in Call /\ s \in Settled
    BY <1>a, Fields DEF TypeOK
  <1>1. CASE s.ok /\ Proceed(c, calls[c], s.doc)
    <2>1. s.doc \in SUBSET Keys
      BY <1>1, <1>b, Fields
    <2>2. \A k \in s.doc : Honoured(k)
      BY <1>a, <1>1, ArrivedIsHonoured
    <2>3. calls[c].retried => calls[c].known \cap published \subseteq s.doc
      BY <1>a, <1>1 DEF IInv, RetryKnows
    <2> QED  BY <1>1, <1>a, <1>b, <2>1, <2>2, <2>3, ProceedKeeps
  <1>2. CASE ~s.ok /\ Conclude(c, calls[c], s.error)
    <2>1. s.error \in {"invalid_token", "fetch_failed"}
      BY <1>b, <1>2 DEF Settled, Answers
    <2>2. Promise!IsTrue(QuestionOf(calls[c]), s.error)
      BY <2>1 DEF Promise!IsTrue
    <2>3. s.error \in Outcomes
      BY <2>1 DEF Outcomes
    <2> QED  BY <1>2, <1>a, <1>b, <2>2, <2>3, AnswerStep
  <1> QED  BY <1>a, <1>1, <1>2

\* A fetch that settles is handed to its calls and changes no question.
LEMMA DeliverKeeps ==
    ASSUME TypeOK, NEW c \in Calls, NEW s \in Settled, Deliver(c, s)
    PROVE  Asked' = Asked
  <1> SUFFICES ASSUME NEW d \in Calls
               PROVE  /\ calls'[d] = Idle <=> calls[d] = Idle
                      /\ calls[d] # Idle => QuestionOf(calls'[d]) = QuestionOf(calls[d])
    BY DEF Asked, QuestionOf
  <1>1. calls'[d] = IF calls[d] # Idle /\ calls[d].awaits = c
                    THEN [calls[d] EXCEPT !.awaits = s] ELSE calls[d]
    BY DEF Deliver
  <1>2. CASE calls[d] # Idle /\ calls[d].awaits = c
    <2>1. calls[d] \in Call
      BY <1>2 DEF TypeOK
    <2>2. calls'[d] \in Call /\ QuestionOf(calls'[d]) = QuestionOf(calls[d])
      BY <1>1, <1>2, <2>1 DEF Call, QuestionOf
    <2> QED  BY <1>2, <2>2, CallShapes
  <1>3. CASE ~(calls[d] # Idle /\ calls[d].awaits = c)
    BY <1>1, <1>3
  <1> QED  BY <1>2, <1>3

\* A fetch ends: nobody is answered yet.
LEMMA SettleKeeps ==
    ASSUME IInv, NEW c \in Calls, Arrive(c) \/ Fail(c)  PROVE Promise!Next
  <1>1. TypeOK /\ fetches[c] # None /\ verdict' = None /\ UNCHANGED <<now, published, withdrawn>>
    BY DEF Arrive, Fail, IInv, provider
  <1>2. CASE Arrive(c)
    <2>1. Deliver(c, fetches[c].answer) /\ fetches[c].answer # Unanswered
      BY <1>2 DEF Arrive
    <2>2. fetches[c].answer \in Settled
      BY <1>1, <2>1, Fields DEF TypeOK, Settled
    <2> QED  BY <1>1, <2>1, <2>2, DeliverKeeps, WaitStep
  <1>3. CASE Fail(c)
    <2> DEFINE s == [ok |-> FALSE, error |-> "fetch_failed"]
    <2>1. s \in Settled /\ Deliver(c, s)
      BY <1>3 DEF Fail, Settled
    <2> HIDE DEF s
    <2> QED  BY <1>1, <2>1, DeliverKeeps, WaitStep
  <1> QED  BY <1>2, <1>3

\* The provider's steps and the clock's are those of the promise.
LEMMA WorldKeeps ==
    ASSUME IInv, Publish \/ Withdraw \/ Tick \/ Invalidate  PROVE Promise!Next
  <1>1. CASE Publish
    <2> PICK k \in Keys \ (published \cup DOMAIN withdrawn) :
            /\ published' = published \cup {k}
            /\ verdict' = None
            /\ UNCHANGED <<now, withdrawn, calls>>
      BY <1>1 DEF Publish
    <2>1. Promise!Publish(k)
      BY DEF Promise!Publish, Asked
    <2> QED  BY <2>1 DEF Promise!Next
  <1>2. CASE Withdraw
    <2> PICK k \in published :
            /\ published' = published \ {k}
            /\ withdrawn' = Put(withdrawn, k, now)
            /\ verdict' = None
            /\ UNCHANGED <<now, calls>>
      BY <1>2 DEF Withdraw
    <2>1. Promise!Withdraw(k)
      BY DEF Promise!Withdraw, Promise!Put, Put, Asked
    <2>2. k \in Keys
      BY DEF IInv, TypeOK
    <2> QED  BY <2>1, <2>2 DEF Promise!Next
  <1>3. CASE Tick
    BY <1>3 DEF Tick, provider, Promise!Next, Promise!Advance, Asked
  <1>4. CASE Invalidate
    <2>1. verdict' = None /\ Asked' = Asked /\ UNCHANGED <<now, published, withdrawn>>
      BY <1>4 DEF Invalidate, provider, Asked
    <2> QED  BY <2>1, WaitStep
  <1> QED  BY <1>1, <1>2, <1>3, <1>4

\* validate() keeps its promise, for every number of calls, keys and tokens:
\* each call is answered once, about its own token, by a reason that is true.
THEOREM ValidatorAnswersTruly == Spec => AnswersTruly
  <1>1. Init => Promise!Init
    BY DEF Init, Promise!Init, Asked, EmptyMap, Promise!EmptyMap
  <1>2. IInv /\ [Next]_vars => [Promise!Next]_Promise!promised
    <2> SUFFICES ASSUME IInv, [Next]_vars  PROVE [Promise!Next]_Promise!promised
      OBVIOUS
    <2>1. CASE UNCHANGED vars
      BY <2>1 DEF vars, provider, Promise!promised, Asked
    <2>2. CASE Publish \/ Withdraw \/ Tick \/ Invalidate
      BY <2>2, WorldKeeps
    <2>3. ASSUME NEW c \in Calls, Serve(c)  PROVE Promise!Next
      <3>1. verdict' = None /\ Asked' = Asked /\ UNCHANGED <<now, published, withdrawn>>
        BY <2>3 DEF Serve, provider, Asked
      <3> QED  BY <3>1, WaitStep
    <2>4. ASSUME NEW c \in Calls, Arrive(c) \/ Fail(c) \/ Begin(c) \/ Resume(c)
          PROVE  Promise!Next
      BY <2>4, SettleKeeps, BeginKeeps, ResumeKeeps
    <2> QED  BY <2>1, <2>2, <2>3, <2>4 DEF Next
  <1> QED  BY <1>1, <1>2, Bounded, PTL DEF Spec, AnswersTruly, Promise!Spec
=============================================================================
