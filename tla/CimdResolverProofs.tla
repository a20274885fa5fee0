------------------------- MODULE CimdResolverProofs -------------------------
(***************************************************************************)
(* However the resolver's fetches overlap, it implements LatelyServed.       *)
(*                                                                          *)
(* That an entry dies in time is not inductive: a document may still be on   *)
(* its way when its host has replaced it.  EntriesAge also bounds the age    *)
(* of every document in flight, and SeenNow ties the history to the          *)
(* documents served now.                                                    *)
(***************************************************************************)
EXTENDS CimdResolver, MapLemmas

\* The times of the model are integers.
LEMMA Times ==
    /\ 0 \in 0..MaxTime
    /\ 0..MaxTime \subseteq Int
    /\ CacheTtl \in Int /\ CacheTtl > 0
    /\ FetchLimit \in Int /\ FetchLimit >= 0
  BY CimdAssumption

\* The inductive invariant holds initially.
LEMMA InitIInv == Init => IInv
  <1> SUFFICES ASSUME Init PROVE IInv
    OBVIOUS
  <1>1. \A u \in Clients : IsMap(seen[u], Documents, 0..MaxTime)
    BY Times, EmptyIsMap, PutIsMap DEF Init
  <1>2. IsMap(cache, Clients, Entry) /\ DOMAIN cache = {}
    BY EmptyIsMap DEF Init
  <1>3. TypeOK
    BY <1>1, <1>2, Times DEF Init, TypeOK
  <1>4. EntriesAge
    BY <1>2 DEF Init, EntriesAge
  <1>5. SeenNow
    BY EmptyIsMap DEF Init, SeenNow, Put
  <1>6. QED
    BY <1>3, <1>4, <1>5 DEF IInv

\* What was once served stays known, and times in the history only grow.
LEMMA SeenGrows ==
    ASSUME TypeOK, SeenNow, [Next]_vars, NEW u \in Clients, NEW d \in DOMAIN seen[u]
    PROVE  d \in DOMAIN seen'[u] /\ seen[u][d] <= seen'[u][d]
  <1>1. /\ now \in Int
        /\ \A e \in DOMAIN seen[u] : seen[u][e] \in Int /\ seen[u][e] <= now
    BY Times DEF TypeOK, IsMap, SeenNow
  <1>2. CASE \E v \in Clients : Replace(v)
    <2>1. PICK v \in Clients : Replace(v)
      BY <1>2
    <2>2. PICK e : seen' = [seen EXCEPT ![v] = Put(seen[v], e, now)]
      BY <2>1 DEF Replace
    <2>3. QED
      BY <1>1, <2>2 DEF Put, TypeOK
  <1>3. CASE Tick
    BY <1>1, <1>3 DEF Tick, Put, TypeOK
  <1>4. CASE UNCHANGED seen
    BY <1>1, <1>4
  <1>5. QED
    BY <1>2, <1>3, <1>4 DEF Next, vars, ClearCache, Refuse, Begin, Serve, Arrive, Break

\* The history stays the history of what is served.
LEMMA SeenStep == TypeOK /\ SeenNow /\ [Next]_vars => SeenNow'
  <1> SUFFICES ASSUME TypeOK, SeenNow, [Next]_vars, NEW u \in Clients
               PROVE  /\ current'[u] \in DOMAIN seen'[u] /\ seen'[u][current'[u]] = now'
                      /\ \A d \in DOMAIN seen'[u] : seen'[u][d] <= now'
    BY DEF SeenNow
  <1>1. /\ now \in Int
        /\ \A e \in DOMAIN seen[u] : seen[u][e] \in Int /\ seen[u][e] <= now
        /\ current[u] \in DOMAIN seen[u] /\ seen[u][current[u]] = now
    BY Times DEF TypeOK, IsMap, SeenNow
  <1>2. CASE \E v \in Clients : Replace(v)
    <2>1. PICK v \in Clients : Replace(v)
      BY <1>2
    <2>2. PICK e \in Documents : /\ current' = [current EXCEPT ![v] = e]
                                 /\ seen' = [seen EXCEPT ![v] = Put(seen[v], e, now)]
                                 /\ now' = now
      BY <2>1 DEF Replace
    <2>3. QED
      BY <1>1, <2>2 DEF Put, TypeOK
  <1>3. CASE Tick
    BY <1>1, <1>3 DEF Tick, Put, TypeOK
  <1>4. CASE UNCHANGED <<now, current, seen>>
    BY <1>1, <1>4
  <1>5. QED
    BY <1>2, <1>3, <1>4 DEF Next, vars, ClearCache, Refuse, Begin, Serve, Arrive, Break

\* Every step keeps the shape of the state.
LEMMA TypeStep == TypeOK /\ [Next]_vars => TypeOK'
  <1> SUFFICES ASSUME TypeOK, [Next]_vars PROVE TypeOK'
    OBVIOUS
  <1>1. /\ now \in 0..MaxTime /\ current \in [Clients -> Documents]
        /\ fetches \in [Calls -> Fetch \cup {None}]
        /\ seen = [u \in Clients |-> seen[u]]
        /\ \A u \in Clients : IsMap(seen[u], Documents, 0..MaxTime)
        /\ IsMap(cache, Clients, Entry)
        /\ returned \in Returned \cup {None}
    BY DEF TypeOK
  <1>2. CASE \E u \in Clients : Replace(u)
    <2>1. PICK u \in Clients, d \in Documents :
              /\ current' = [current EXCEPT ![u] = d]
              /\ seen' = [seen EXCEPT ![u] = Put(seen[u], d, now)]
              /\ returned' = None
              /\ UNCHANGED <<now, cache, fetches>>
      BY <1>2 DEF Replace
    <2>2. IsMap(Put(seen[u], d, now), Documents, 0..MaxTime)
      BY <1>1, PutIsMap
    <2>3. /\ seen' = [v \in Clients |-> seen'[v]]
          /\ \A v \in Clients : IsMap(seen'[v], Documents, 0..MaxTime)
      BY <1>1, <2>1, <2>2
    <2>4. QED
      BY <1>1, <2>1, <2>3 DEF TypeOK
  <1>3. CASE Tick
    <2>1. now + 1 \in 0..MaxTime
      BY <1>1, <1>3, CimdAssumption DEF Tick
    <2>2. \A u \in Clients : IsMap(Put(seen[u], current[u], now + 1), Documents, 0..MaxTime)
      BY <1>1, <2>1, PutIsMap
    <2>3. QED
      BY <1>1, <1>3, <2>1, <2>2 DEF Tick, TypeOK
  <1>4. CASE ClearCache \/ Refuse
    <2>1. \A u \in RefusedUrls : [client |-> u, document |-> Unusable] \in Returned
      BY DEF Returned, Documents, Unusable
    <2>2. QED
      BY <1>1, <1>4, <2>1, EmptyIsMap DEF ClearCache, Refuse, TypeOK
  <1>5. ASSUME NEW c \in Calls, Begin(c)
        PROVE  TypeOK'
    <2>1. \A u \in Clients : [client |-> u, started |-> now, answer |-> None] \in Fetch
      BY <1>1 DEF Fetch
    <2>2. \A u \in Clients : Fresh(u) => cache[u].document \in Documents
      BY <1>1 DEF Fresh, IsMap, Entry
    <2>3. \A u \in Clients : Fresh(u) => [client |-> u, document |-> cache[u].document] \in Returned
      BY <2>2 DEF Returned
    <2>4. fetches' \in [Calls -> Fetch \cup {None}] /\ returned' \in Returned \cup {None}
      BY <1>1, <1>5, <2>1, <2>3 DEF Begin
    <2>5. QED
      BY <1>1, <1>5, <2>4 DEF Begin, TypeOK
  <1>6. ASSUME NEW c \in Calls, Serve(c)
        PROVE  TypeOK'
    <2>1. fetches[c] \in Fetch
      BY <1>1, <1>6 DEF Serve
    <2>2. current[fetches[c].client] \in Documents
      BY <1>1, <2>1 DEF Fetch
    <2>3. [fetches[c] EXCEPT !.answer = current[fetches[c].client]] \in Fetch
      BY <2>1, <2>2 DEF Fetch
    <2>4. QED
      BY <1>1, <1>6, <2>3 DEF Serve, TypeOK
  <1>7. ASSUME NEW c \in Calls, Arrive(c)
        PROVE  TypeOK'
    <2>1. fetches[c] \in Fetch /\ fetches[c].answer \in Documents
      BY <1>1, <1>7 DEF Arrive, Fetch
    <2>2. IsMap(Store(fetches[c].client, fetches[c].answer), Clients, Entry)
      <3>1. CASE fetches[c].answer = Unusable
        BY <1>1, <3>1 DEF Store
      <3>2. CASE fetches[c].answer # Unusable
        <4>1. [document |-> fetches[c].answer, expiresAt |-> now + CacheTtl] \in Entry
          BY <1>1, <2>1, <3>2, CimdAssumption DEF Entry
        <4>2. QED
          BY <1>1, <2>1, <3>2, <4>1, PutIsMap DEF Store, Fetch
      <3>3. QED
        BY <3>1, <3>2
    <2>3. [client |-> fetches[c].client, document |-> fetches[c].answer] \in Returned
      BY <2>1 DEF Returned, Fetch
    <2>4. QED
      BY <1>1, <1>7, <2>2, <2>3 DEF Arrive, TypeOK
  <1>8. ASSUME NEW c \in Calls, Break(c)
        PROVE  TypeOK'
    <2>1. [client |-> fetches[c].client, document |-> Unusable] \in Returned
      BY <1>1, <1>8 DEF Break, Fetch, Returned, Documents, Unusable
    <2>2. QED
      BY <1>1, <1>8, <2>1 DEF Break, AfterFailure, TypeOK
  <1>9. CASE UNCHANGED vars
    BY <1>1, <1>9 DEF vars, TypeOK
  <1>10. QED
    BY <1>2, <1>3, <1>4, <1>5, <1>6, <1>7, <1>8, <1>9 DEF Next

\* What was served since a time still was after a step.
LEMMA StillServed ==
    ASSUME TypeOK, SeenNow, [Next]_vars, NEW u \in Clients, NEW d, NEW t \in Int,
           ServedSince(u, d, t)
    PROVE  d \in DOMAIN seen'[u] /\ t <= seen'[u][d]
  <1>1. d \in DOMAIN seen[u] /\ t <= seen[u][d]
    BY DEF ServedSince
  <1>2. d \in DOMAIN seen'[u] /\ seen[u][d] <= seen'[u][d]
    BY <1>1, SeenGrows
  <1>3. TypeOK'
    BY TypeStep
  <1>4. seen[u][d] \in Int /\ seen'[u][d] \in Int
    BY <1>1, <1>2, <1>3, Times DEF TypeOK, IsMap
  <1>5. QED
    BY <1>1, <1>2, <1>4

\* An entry dies a fetch and a lifetime after its document did: an entry is
\* either one that was there, or the one a document that arrives makes.
LEMMA CacheStep ==
    ASSUME IInv, [Next]_vars, NEW u \in DOMAIN cache'
    PROVE  ServedSince(u, cache[u].document, cache[u].expiresAt - CacheTtl - FetchLimit)'
  <1>1. TypeOK /\ SeenNow /\ EntriesAge /\ TypeOK'
    BY TypeStep DEF IInv
  <1>2. u \in Clients
    BY <1>1 DEF TypeOK, IsMap
  <1>3. CASE u \in DOMAIN cache /\ cache'[u] = cache[u]
    <2>1. cache[u].expiresAt - CacheTtl - FetchLimit \in Int
      BY <1>1, <1>3, Times DEF TypeOK, IsMap, Entry
    <2>2. ServedSince(u, cache[u].document, cache[u].expiresAt - CacheTtl - FetchLimit)
      BY <1>1, <1>3 DEF EntriesAge
    <2>3. QED
      BY <1>1, <1>2, <1>3, <2>1, <2>2, StillServed DEF ServedSince
  <1>4. CASE ~(u \in DOMAIN cache /\ cache'[u] = cache[u])
    <2>1. PICK c \in Calls : Arrive(c)
      BY <1>4 DEF Next, vars, Replace, Tick, ClearCache, Refuse, Begin, Serve, Break, EmptyMap
    <2>2. /\ fetches[c] \in Fetch /\ fetches[c].answer \in Documents
          /\ now \in Int
      BY <1>1, <2>1, Times DEF Arrive, TypeOK, Fetch
    <2>3. /\ u = fetches[c].client
          /\ cache'[u] = [document |-> fetches[c].answer, expiresAt |-> now + CacheTtl]
      BY <1>4, <2>1 DEF Arrive, Store, Put
    <2>4. ServedSince(u, fetches[c].answer, fetches[c].started)
      BY <1>1, <2>1, <2>3 DEF EntriesAge, Arrive
    <2>5. /\ fetches[c].answer \in DOMAIN seen[u]
          /\ fetches[c].started <= seen[u][fetches[c].answer]
          /\ seen[u][fetches[c].answer] \in Int
      BY <1>1, <1>2, <2>4, Times DEF ServedSince, TypeOK, IsMap
    <2>6. now - FetchLimit <= seen[u][fetches[c].answer]
      BY <1>1, <2>1, <2>2, <2>5, Times DEF EntriesAge, Arrive, Fetch
    <2>7. /\ cache'[u].document = fetches[c].answer
          /\ cache'[u].expiresAt - CacheTtl - FetchLimit = now - FetchLimit
      BY <2>2, <2>3, Times
    <2>8. seen' = seen
      BY <2>1 DEF Arrive
    <2>9. QED
      BY <2>5, <2>6, <2>7, <2>8 DEF ServedSince
  <1>5. QED
    BY <1>3, <1>4

\* A document on its way was served during its fetch, and no fetch outlasts
\* the network's limit.
LEMMA FetchStep ==
    ASSUME IInv, [Next]_vars, NEW c \in Calls, fetches'[c] # None
    PROVE  /\ fetches'[c].started <= now' /\ now' <= fetches'[c].started + FetchLimit
           /\ fetches'[c].answer # None =>
                ServedSince(fetches[c].client, fetches[c].answer, fetches[c].started)'
  <1>1. TypeOK /\ SeenNow /\ EntriesAge /\ TypeOK'
    BY TypeStep DEF IInv
  <1>2. now \in Int /\ fetches \in [Calls -> Fetch \cup {None}]
    BY <1>1, Times DEF TypeOK
  <1>3. ASSUME fetches[c] # None, fetches'[c] = fetches[c]
        PROVE  fetches'[c].answer # None =>
                 ServedSince(fetches[c].client, fetches[c].answer, fetches[c].started)'
    <2>1. fetches[c].client \in Clients /\ fetches[c].started \in Int
      BY <1>2, <1>3, Times DEF Fetch
    <2>2. fetches[c].answer # None =>
            ServedSince(fetches[c].client, fetches[c].answer, fetches[c].started)
      BY <1>1, <1>3 DEF EntriesAge
    <2>3. QED
      BY <1>1, <1>3, <2>1, <2>2, StillServed DEF ServedSince
  <1>4. CASE Tick
    <2>1. fetches'[c] = fetches[c] /\ now' = now + 1 /\ now < fetches[c].started + FetchLimit
      BY <1>4 DEF Tick
    <2>2. fetches[c].started \in Int /\ fetches[c].started <= now
      BY <1>1, <1>2, <2>1, Times DEF EntriesAge, Fetch
    <2>3. QED
      BY <1>2, <1>3, <2>1, <2>2, Times
  <1>5. CASE now' = now /\ fetches'[c] = fetches[c]
    BY <1>1, <1>3, <1>5 DEF EntriesAge
  <1>6. CASE Begin(c) /\ fetches'[c] # fetches[c]
    <2>1. PICK u \in Clients : fetches'[c] = [client |-> u, started |-> now, answer |-> None]
      BY <1>2, <1>6 DEF Begin
    <2>2. QED
      BY <1>2, <1>6, <2>1, Times DEF Begin
  <1>7. CASE Serve(c)
    <2>1. fetches[c] \in Fetch /\ fetches[c].client \in Clients /\ fetches[c].started \in Int
      BY <1>2, <1>7, Times DEF Serve, Fetch
    <2>2. /\ fetches'[c].started = fetches[c].started
          /\ fetches'[c].client = fetches[c].client
          /\ fetches'[c].answer = current[fetches[c].client]
          /\ now' = now /\ seen' = seen
      BY <1>2, <1>7, <2>1 DEF Serve, Fetch
    <2>3. fetches[c].started <= now /\ now <= fetches[c].started + FetchLimit
      BY <1>1, <1>7 DEF Serve, EntriesAge
    <2>4. QED
      BY <1>1, <2>1, <2>2, <2>3 DEF ServedSince, SeenNow
  <1>8. QED
    <2>1. CASE \E e \in Calls : Begin(e) \/ Serve(e)
      BY <1>2, <1>5, <1>6, <1>7, <2>1 DEF Begin, Serve
    <2>2. CASE \E e \in Calls : Arrive(e) \/ Break(e)
      BY <1>2, <1>5, <2>2 DEF Arrive, Break
    <2>3. QED
      BY <1>4, <1>5, <2>1, <2>2 DEF Next, vars, Replace, ClearCache, Refuse

\* The inductive invariant.
THEOREM Aging == Spec => []IInv
  <1>1. IInv /\ [Next]_vars => IInv'
    <2> SUFFICES ASSUME IInv, [Next]_vars PROVE IInv'
      OBVIOUS
    <2>1. TypeOK' /\ SeenNow'
      BY TypeStep, SeenStep DEF IInv
    <2>2. EntriesAge'
      BY CacheStep, FetchStep DEF EntriesAge
    <2>3. QED
      BY <2>1, <2>2 DEF IInv
  <1>2. QED
    BY <1>1, InitIInv, PTL DEF Spec

\* The shape of the resolver's state, for any clients and any bounds.
THEOREM ResolverTypeCorrect == Spec => []TypeOK
  BY Aging, PTL DEF IInv

\* No entry outlives its document by more than a fetch and a lifetime.
THEOREM EntriesDieInTime == Spec => []EntriesAge
  BY Aging, PTL DEF IInv

\* A step that gives out nothing is a Withhold of the promise.
LEMMA WithholdStep ==
    ASSUME UNCHANGED <<now, current, seen>>, Answered' = None
    PROVE  Promise!Next
  BY DEF Promise!Next, Promise!Withhold

\* A document served less than a fetch and a lifetime ago may be given out.
LEMMA GiveStep ==
    ASSUME TypeOK, UNCHANGED <<now, current, seen>>,
           NEW u \in Clients, NEW d \in Documents,
           returned' = [client |-> u, document |-> d], d # Unusable, None # returned',
           d \in DOMAIN seen[u], now < seen[u][d] + FetchLimit + CacheTtl
    PROVE  Promise!Next
  <1>1. Answered' = [owner |-> u, document |-> d]
    BY DEF Answered
  <1>2. now \in Int /\ seen[u][d] \in Int
    BY Times DEF TypeOK, IsMap
  <1>3. now < seen[u][d] + (FetchLimit + CacheTtl)
    BY <1>2, Times
  <1>4. Promise!Give(u, d)
    BY <1>1, <1>3 DEF Promise!Give
  <1>5. QED
    BY <1>4 DEF Promise!Next

\* A cache hit gives out a recent document.
LEMMA HitStep ==
    ASSUME IInv, NEW c \in Calls, Begin(c)
    PROVE  Promise!Next
  <1>1. TypeOK /\ EntriesAge /\ UNCHANGED <<now, current, seen>>
    BY DEF IInv, Begin
  <1>2. CASE Answered' = None
    BY <1>1, <1>2, WithholdStep
  <1>3. CASE Answered' # None
    <2>1. returned' # None /\ returned'.document # Unusable
      BY <1>3 DEF Answered
    <2>2. PICK u \in Clients : Fresh(u) /\ returned' = [client |-> u, document |-> cache[u].document]
      BY <2>1 DEF Begin
    <2>3. /\ u \in DOMAIN cache /\ cache[u].document \in Documents
          /\ now < cache[u].expiresAt /\ cache[u].expiresAt \in Int
      BY <1>1, <2>2, Times DEF Fresh, TypeOK, IsMap, Entry
    <2>4. ServedSince(u, cache[u].document, cache[u].expiresAt - CacheTtl - FetchLimit)
      BY <1>1, <2>3 DEF EntriesAge
    <2>5. /\ cache[u].document \in DOMAIN seen[u]
          /\ cache[u].expiresAt - CacheTtl - FetchLimit <= seen[u][cache[u].document]
      BY <2>4 DEF ServedSince
    <2>6. now \in Int /\ seen[u][cache[u].document] \in Int
      BY <1>1, <2>5, Times DEF TypeOK, IsMap
    <2>7. now < seen[u][cache[u].document] + FetchLimit + CacheTtl
      BY <2>3, <2>5, <2>6, Times
    <2>8. cache[u].document # Unusable
      BY <2>1, <2>2
    <2>9. QED
      BY <1>1, <2>1, <2>2, <2>3, <2>5, <2>7, <2>8, GiveStep
  <1>4. QED
    BY <1>2, <1>3

\* A document that arrives is recent.
LEMMA ArriveStep ==
    ASSUME IInv, NEW c \in Calls, Arrive(c)
    PROVE  Promise!Next
  <1>1. TypeOK /\ EntriesAge /\ UNCHANGED <<now, current, seen>>
    BY DEF IInv, Arrive
  <1>2. CASE Answered' = None
    BY <1>1, <1>2, WithholdStep
  <1>3. CASE Answered' # None
    <2>1. returned' # None /\ returned'.document # Unusable
      BY <1>3 DEF Answered
    <2>2. /\ fetches[c] # None /\ fetches[c] \in Fetch /\ fetches[c].answer # None
          /\ returned' = [client |-> fetches[c].client, document |-> fetches[c].answer]
      BY <1>1 DEF Arrive, TypeOK
    <2>3. /\ fetches[c].client \in Clients /\ fetches[c].answer \in Documents
          /\ fetches[c].started \in Int
      BY <2>2, Times DEF Fetch
    <2>4. /\ now <= fetches[c].started + FetchLimit
          /\ ServedSince(fetches[c].client, fetches[c].answer, fetches[c].started)
      BY <1>1, <2>2 DEF EntriesAge
    <2>5. /\ fetches[c].answer \in DOMAIN seen[fetches[c].client]
          /\ fetches[c].started <= seen[fetches[c].client][fetches[c].answer]
      BY <2>4 DEF ServedSince
    <2>6. now \in Int /\ seen[fetches[c].client][fetches[c].answer] \in Int
      BY <1>1, <2>3, <2>5, Times DEF TypeOK, IsMap
    <2>7. now < seen[fetches[c].client][fetches[c].answer] + FetchLimit + CacheTtl
      BY <2>3, <2>4, <2>5, <2>6, Times
    <2>8. QED
      BY <1>1, <2>1, <2>2, <2>3, <2>5, <2>7, GiveStep
  <1>4. QED
    BY <1>2, <1>3

\* The resolver keeps its promise: no registration is given out that its
\* client's host replaced a fetch and a cache lifetime ago.
THEOREM ResolverKeepsPromise == Spec => ImplementsPromise
  <1>1. Init => Promise!Init
    BY DEF Init, Promise!Init, Answered, Put, EmptyMap, Promise!Put, Promise!EmptyMap
  <1>2. IInv /\ [Next]_vars => [Promise!Next]_Promise!served
    <2> SUFFICES ASSUME IInv, [Next]_vars PROVE [Promise!Next]_Promise!served
      OBVIOUS
    <2>1. ASSUME NEW u \in Clients, Replace(u) PROVE Promise!Next
      <3>1. PICK d \in Documents : /\ current' = [current EXCEPT ![u] = d]
                                   /\ seen' = [seen EXCEPT ![u] = Put(seen[u], d, now)]
                                   /\ returned' = None /\ now' = now
        BY <2>1 DEF Replace
      <3>2. Promise!Replace(u, d)
        BY <3>1 DEF Promise!Replace, Answered, Put, Promise!Put
      <3>3. QED
        BY <3>2 DEF Promise!Next
    <2>2. CASE Tick
      BY <2>2 DEF Tick, Promise!Next, Promise!Advance, Answered, Put, Promise!Put
    <2>3. CASE ClearCache \/ Refuse
      BY <2>3, WithholdStep DEF ClearCache, Refuse, Answered
    <2>4. ASSUME NEW c \in Calls, Serve(c) PROVE Promise!Next
      BY <2>4, WithholdStep DEF Serve, Answered
    <2>5. ASSUME NEW c \in Calls, Break(c) PROVE Promise!Next
      BY <2>5, WithholdStep DEF Break, AfterFailure, Answered
    <2>6. CASE UNCHANGED vars
      BY <2>6 DEF vars, Promise!served, Answered
    <2>7. ASSUME NEW c \in Calls, Begin(c) \/ Arrive(c) PROVE Promise!Next
      BY <2>7, HitStep, ArriveStep
    <2>8. QED
      BY <2>1, <2>2, <2>3, <2>4, <2>5, <2>6, <2>7 DEF Next
  <1>3. QED
    BY <1>1, <1>2, Aging, PTL DEF Spec, ImplementsPromise, Promise!Spec
=============================================================================
