---------------------------- MODULE CimdResolver ----------------------------
(***************************************************************************)
(* Client ID Metadata Documents, src/src/server/oauth/cimd.ts: a client id   *)
(* that is a URL is resolved to the document its host serves, through a      *)
(* cache that every authorize and token request of the process shares.      *)
(*                                                                          *)
(* resolve() looks at the cache, awaits the document and stores it.  Two     *)
(* calls that find no fresh entry both fetch and both store, in the order    *)
(* in which their answers arrive, which need not be the order in which the   *)
(* host wrote them.  The host replaces its document when it likes.           *)
(*                                                                          *)
(* Of a document only its redirect URIs are kept.  The empty set stands for  *)
(* everything fetchAndValidate refuses: an HTTP error, a redirect, another   *)
(* content type, a body that is not a JSON object with redirect URIs.        *)
(***************************************************************************)
EXTENDS Integers, Maps

CONSTANTS Clients,      \* client ids whose URL is acceptable
          RefusedUrls,  \* client ids assertValidClientIdUrl throws on
          RedirectUris,
          Calls,        \* bounds the resolve() calls in progress
          CacheTtl,     \* cacheTtlMs
          FetchLimit,   \* how long the network takes at most: see Tick
          MaxTime,      \* bounds the clock
          None

Documents == SUBSET RedirectUris
Unusable  == {}

ASSUME CimdAssumption ==
    /\ Clients \cap RefusedUrls = {}
    /\ CacheTtl \in Nat \ {0}
    /\ FetchLimit \in Nat
    /\ MaxTime \in Nat
    /\ \A d \in Documents : None # d

VARIABLES
    now,
    current,    \* client -> the document its host serves
    cache,      \* CimdResolver.cache: client -> registration and expiresAt
    fetches,    \* call -> the fetch its resolve() awaits, or None
    returned,   \* what the resolve() that this step ended gave, or None
    seen        \* history: client -> document -> when it was last served

vars == <<now, current, cache, fetches, returned, seen>>

Entry == [document : Documents \ {Unusable}, expiresAt : Nat]

\* A fetch and, once the host has answered it, the document on its way.
Fetch == [client : Clients, started : Nat, answer : Documents \cup {None}]

\* resolve() returns a registration or throws (the document is unusable).
Returned == [client : Clients \cup RefusedUrls, document : Documents]

Init ==
    /\ now = 0
    /\ current \in [Clients -> Documents]
    /\ cache = EmptyMap
    /\ fetches = [c \in Calls |-> None]
    /\ returned = None
    /\ seen = [u \in Clients |-> Put(EmptyMap, current[u], 0)]

-----------------------------------------------------------------------------
(* The hosts, the network and the clock *)

Replace(u) ==
    \E d \in Documents \ {current[u]} :
        /\ current' = [current EXCEPT ![u] = d]
        /\ seen' = [seen EXCEPT ![u] = Put(seen[u], d, now)]
        /\ returned' = None
        /\ UNCHANGED <<now, cache, fetches>>

\* The host writes its answer, which travels from now on.
Serve(c) ==
    /\ fetches[c] # None
    /\ fetches[c].answer = None
    /\ fetches' = [fetches EXCEPT ![c].answer = current[fetches[c].client]]
    /\ returned' = None
    /\ UNCHANGED <<now, current, cache, seen>>

\* cimd.ts gives its fetch no timer.  FetchLimit is a fact of the network
\* and of the fetch implementation, not of this code.
Tick ==
    /\ now < MaxTime
    /\ \A c \in Calls : fetches[c] # None => now < fetches[c].started + FetchLimit
    /\ now' = now + 1
    /\ seen' = [u \in Clients |-> Put(seen[u], current[u], now + 1)]
    /\ returned' = None
    /\ UNCHANGED <<current, cache, fetches>>

-----------------------------------------------------------------------------
(* resolve *)

\* cached.expiresAt > Date.now()
Fresh(u) == u \in DOMAIN cache /\ cache[u].expiresAt > now

\* assertValidClientIdUrl: not a URL, not https, or not an allowed host.
Refuse ==
    \E u \in RefusedUrls :
        /\ returned' = [client |-> u, document |-> Unusable]
        /\ UNCHANGED <<now, current, cache, fetches, seen>>

\* A call begins: the cache answers, or a fetch starts.
Begin(c) ==
    /\ fetches[c] = None
    /\ \E u \in Clients :
        \/ /\ Fresh(u)
           /\ returned' = [client |-> u, document |-> cache[u].document]
           /\ UNCHANGED fetches
        \/ /\ ~Fresh(u)
           /\ fetches' = [fetches EXCEPT ![c] = [client |-> u, started |-> now, answer |-> None]]
           /\ returned' = None
    /\ UNCHANGED <<now, current, cache, seen>>

\* Mutant: what the host answered is stored before it is checked.
StoreUnchecked(u, d) == Put(cache, u, [document |-> d, expiresAt |-> now + CacheTtl])

\* Mutant: an answer that arrives late renews the entry that is there.
RenewPresent(u, d) ==
    IF d = Unusable THEN cache
    ELSE Put(cache, u, [document |-> IF u \in DOMAIN cache THEN cache[u].document ELSE d,
                        expiresAt |-> now + CacheTtl])

\* cache.set after a valid document, whatever the cache holds by now; the
\* errors of fetchAndValidate leave the cache alone.
Store(u, d) ==
    IF d = Unusable THEN cache ELSE Put(cache, u, [document |-> d, expiresAt |-> now + CacheTtl])

\* The answer arrives: it is stored and returned, or refused.
Arrive(c) ==
    /\ fetches[c] # None
    /\ fetches[c].answer # None
    /\ LET f == fetches[c] IN
        /\ cache' = Store(f.client, f.answer)
        /\ returned' = [client |-> f.client, document |-> f.answer]
    /\ fetches' = [fetches EXCEPT ![c] = None]
    /\ UNCHANGED <<now, current, seen>>

\* Mutant: when the host cannot be reached, the old entry will do.
FallBack(u) == IF u \in DOMAIN cache THEN cache[u].document ELSE Unusable

\* What a call is given whose fetch broke.
AfterFailure(u) == Unusable

\* The network fails.
Break(c) ==
    /\ fetches[c] # None
    /\ returned' = [client |-> fetches[c].client, document |-> AfterFailure(fetches[c].client)]
    /\ fetches' = [fetches EXCEPT ![c] = None]
    /\ UNCHANGED <<now, current, cache, seen>>

\* clearCache(): a fetch in flight still stores its answer afterwards.
ClearCache ==
    /\ cache' = EmptyMap
    /\ returned' = None
    /\ UNCHANGED <<now, current, fetches, seen>>

Next ==
    \/ \E u \in Clients : Replace(u)
    \/ Tick
    \/ ClearCache
    \/ Refuse
    \/ \E c \in Calls : Begin(c) \/ Serve(c) \/ Arrive(c) \/ Break(c)

Spec == Init /\ [][Next]_vars

-----------------------------------------------------------------------------
(* Properties *)

\* The shape of the state; no call holds a document that was never checked.
TypeOK ==
    /\ now \in 0..MaxTime
    /\ current \in [Clients -> Documents]
    /\ IsMap(cache, Clients, Entry)
    /\ fetches \in [Calls -> Fetch \cup {None}]
    /\ returned \in Returned \cup {None}
    /\ seen = [u \in Clients |-> seen[u]]
    /\ \A u \in Clients : IsMap(seen[u], Documents, 0..MaxTime)

\* Document d of client u was still served at time t or later.
ServedSince(u, d, t) == d \in DOMAIN seen[u] /\ t <= seen[u][d]

\* However overlapping fetches overwrite one another's entries, an entry
\* never outlives its document by more than one fetch and one cache lifetime,
\* and a document on its way was served while its fetch was in flight.
EntriesAge ==
    /\ \A u \in DOMAIN cache :
        ServedSince(u, cache[u].document, cache[u].expiresAt - CacheTtl - FetchLimit)
    /\ \A c \in Calls : fetches[c] # None =>
        /\ fetches[c].started <= now /\ now <= fetches[c].started + FetchLimit
        /\ fetches[c].answer # None => ServedSince(fetches[c].client, fetches[c].answer, fetches[c].started)

\* The history is that of the documents served up to now.
SeenNow ==
    \A u \in Clients :
        /\ current[u] \in DOMAIN seen[u] /\ seen[u][current[u]] = now
        /\ \A d \in DOMAIN seen[u] : seen[u][d] <= now

IInv == TypeOK /\ EntriesAge /\ SeenNow

\* What resolve() gave out, if it did.
Answered ==
    IF returned = None \/ returned.document = Unusable THEN None
    ELSE [owner |-> returned.client, document |-> returned.document]

\* A registration is given out only if the client's host still served it less
\* than a fetch and a cache lifetime ago: a redirect URI that the client has
\* withdrawn is dead after that, for all requests of the process.
Promise == INSTANCE LatelyServed WITH
    Owners    <- Clients,
    Documents <- Documents,
    Bound     <- FetchLimit + CacheTtl,
    Nothing   <- None,
    answer    <- Answered

ImplementsPromise == Promise!Spec
=============================================================================
