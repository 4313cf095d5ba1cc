---------------------------- MODULE DBusPeerCache ----------------------------
(***************************************************************************)
(* The cache of the security credentials of D-Bus peers that all handlers  *)
(* of a provider share (DBusPeerCache.cpp): two generations of entries and *)
(* the questions to the bus daemon that are under way.                     *)
(***************************************************************************)
EXTENDS Naturals, FiniteSets

CONSTANTS
    Peers,        \* bus names
    Callers,      \* handlers that call get(); each makes one call at a time
    NoPeer,
    MaxCacheSize  \* MAX_CACHE_SIZE

ASSUME CacheAssumption ==
    /\ IsFiniteSet(Peers)
    /\ NoPeer \notin Peers
    /\ MaxCacheSize \in Nat \ {0}

VARIABLES
    cache,     \* cache_: "none", or the credentials' valid flag
    oldCache,  \* old_cache_
    pending,   \* peers with a Request in pending_
    asked,     \* the peer each caller has asked for; NoPeer before and after
    result,    \* what the caller's future holds
    told       \* history: what the bus daemon last said about each peer

cacheVars == <<cache, oldCache, pending, asked, result, told>>

Credentials == {"valid", "invalid"}
Entries == Credentials \cup {"none"}
\* What a read of a Credentials object that was moved from and freed can give.
Garbage == "garbage"

Size(c) == Cardinality({p \in Peers : c[p] # "none"})
Empty == [p \in Peers |-> "none"]

\* The promises of the Request for p.
Waiting(p) == {g \in Callers : asked[g] = p /\ result[g] = "none"}

CacheInit ==
    /\ cache = Empty
    /\ oldCache = Empty
    /\ pending = {}
    /\ asked = [g \in Callers |-> NoPeer]
    /\ result = [g \in Callers |-> "none"]
    /\ told = Empty

-----------------------------------------------------------------------------
(***************************************************************************)
(* get(p), called by g.                                                    *)
(***************************************************************************)
GetCached(g, p) ==
    /\ asked[g] = NoPeer
    /\ cache[p] # "none"
    /\ asked' = [asked EXCEPT ![g] = p]
    /\ result' = [result EXCEPT ![g] = cache[p]]
    /\ UNCHANGED <<cache, oldCache, pending, told>>

\* Mutant: the promise gets the credentials first, the cache what is left.
GetOld_MovesTwice(g, p) ==
    /\ asked[g] = NoPeer
    /\ cache[p] = "none" /\ oldCache[p] # "none"
    /\ result' = [result EXCEPT ![g] = oldCache[p]]
    /\ asked' = [asked EXCEPT ![g] = p]
    /\ \E left \in {oldCache[p], "invalid", Garbage} : cache' = [cache EXCEPT ![p] = left]
    /\ oldCache' = [oldCache EXCEPT ![p] = "none"]
    /\ UNCHANGED <<pending, told>>

\* The entry is moved to the current generation and erased from the old one;
\* the promise is then set from the reference to the erased entry.
GetOld(g, p) ==
    /\ asked[g] = NoPeer
    /\ cache[p] = "none" /\ oldCache[p] # "none"
    /\ cache' = [cache EXCEPT ![p] = oldCache[p]]
    /\ oldCache' = [oldCache EXCEPT ![p] = "none"]
    /\ asked' = [asked EXCEPT ![g] = p]
    /\ \E read \in {oldCache[p], Garbage} : result' = [result EXCEPT ![g] = read]
    /\ UNCHANGED <<pending, told>>

Unknown(p) == cache[p] = "none" /\ oldCache[p] = "none"

\* The question is already under way: join its promises.
GetPending(g, p) ==
    /\ asked[g] = NoPeer
    /\ Unknown(p) /\ p \in pending
    /\ asked' = [asked EXCEPT ![g] = p]
    /\ UNCHANGED <<cache, oldCache, pending, result, told>>

\* GetConnectionCredentials is sent to the bus daemon.
GetAsk(g, p) ==
    /\ asked[g] = NoPeer
    /\ Unknown(p) /\ p \notin pending
    /\ asked' = [asked EXCEPT ![g] = p]
    /\ pending' = pending \cup {p}
    /\ UNCHANGED <<cache, oldCache, result, told>>

\* The caller takes the result out of its future.
Take(g) ==
    /\ result[g] # "none"
    /\ asked' = [asked EXCEPT ![g] = NoPeer]
    /\ result' = [result EXCEPT ![g] = "none"]
    /\ UNCHANGED <<cache, oldCache, pending, told>>

-----------------------------------------------------------------------------
\* "If we've hit our maximum cache size, start a new generation."
Full == Size(cache) >= MaxCacheSize

\* Mutant: the current generation is cleared before it becomes the old one.
NextGeneration_Clears == [current |-> Empty, old |-> IF Full THEN Empty ELSE oldCache]

NextGeneration ==
    IF Full THEN [current |-> Empty, old |-> cache]
            ELSE [current |-> cache, old |-> oldCache]

\* Mutant: only the first promise of the request is set.
SetPromises_FirstOnly(p, c) ==
    result' = [result EXCEPT ![CHOOSE g \in Waiting(p) : TRUE] = c]

\* Every promise of the request for p is set to c.
SetPromises(p, c) ==
    result' = [g \in Callers |-> IF g \in Waiting(p) THEN c ELSE result[g]]

\* received_credentials: an error reply is entered as invalid credentials.
ReceivedCredentials(p, c) ==
    /\ p \in pending
    /\ cache' = [NextGeneration.current EXCEPT ![p] = IF @ = "none" THEN c ELSE @]
    /\ oldCache' = NextGeneration.old
    /\ SetPromises(p, c)
    /\ pending' = pending \ {p}
    /\ told' = [told EXCEPT ![p] = c]
    /\ UNCHANGED asked

-----------------------------------------------------------------------------
Get(g, p) == GetCached(g, p) \/ GetOld(g, p) \/ GetPending(g, p) \/ GetAsk(g, p)

CacheNext ==
    \/ \E g \in Callers, p \in Peers : Get(g, p)
    \/ \E g \in Callers : Take(g)
    \/ \E p \in Peers, c \in Credentials : ReceivedCredentials(p, c)

CacheSpec == CacheInit /\ [][CacheNext]_cacheVars

\* The bus daemon answers every question, or the call times out.
CacheFairSpec ==
    /\ CacheSpec
    /\ \A p \in Peers : WF_cacheVars(\E c \in Credentials : ReceivedCredentials(p, c))

-----------------------------------------------------------------------------
(***************************************************************************)
(* Properties.                                                             *)
(***************************************************************************)
\* Types of the cache's maps and of what its callers hold.
CacheTypeOK ==
    /\ cache \in [Peers -> Entries]
    /\ oldCache \in [Peers -> Entries]
    /\ pending \subseteq Peers
    /\ asked \in [Callers -> Peers \cup {NoPeer}]
    /\ result \in [Callers -> Entries \cup {Garbage}]
    /\ told \in [Peers -> Entries]

\* A peer is in at most one of the two generations and pending_: an entry is
\* never asked for again, and a move between generations leaves no copy.
OnePlace ==
    \A p \in Peers : /\ cache[p] = "none" \/ oldCache[p] = "none"
                     /\ p \in pending => Unknown(p)

\* Every caller that waits has its promise in a request that is under way.
NoLostPromise ==
    \A g \in Callers : asked[g] # NoPeer /\ result[g] = "none" => asked[g] \in pending

\* A cached entry, in whichever generation, is what the bus daemon said about
\* that peer, through all moves and rotations.
CacheIsTrue ==
    \A p \in Peers : /\ cache[p] \in {"none", told[p]}
                     /\ oldCache[p] \in {"none", told[p]}

\* The inductive invariant behind the three.
CacheIInv == CacheTypeOK /\ OnePlace /\ NoLostPromise /\ CacheIsTrue

\* An entry of the current generation survives the next rotation.
SurvivesOneGeneration ==
    [][\A p \in Peers : cache[p] # "none" => cache'[p] # "none" \/ oldCache'[p] # "none"]_cacheVars

\* Every get() is answered: no promise is left behind when its request goes.
EveryGetAnswered ==
    \A g \in Callers : (asked[g] # NoPeer) ~> (asked[g] = NoPeer \/ result[g] # "none")

\* DBusPeerCache.h:66: get() retrieves "the security credentials for the given
\* D-Bus peer", whether they are cached or not.
GetIsTrue ==
    \A g \in Callers : result[g] # "none" => result[g] = told[asked[g]]
=============================================================================
