----------------------------- MODULE EdgeCache -----------------------------
(***************************************************************************)
(* The HTML cache of the edge proxy for one host: reading and writing it   *)
(* around a request (request-pipeline.js, cache-store.js), background      *)
(* revalidation of stale pages (swr-revalidator.js), and the flush when a  *)
(* configuration changes (redis-subscriber.js).                            *)
(*                                                                         *)
(* A page depends on the configuration it was rendered under.  A           *)
(* configuration is a pair: its label (config.revision, part of the cache  *)
(* key) and its contents, numbered.  A save changes both, publishing a     *)
(* manifest revision changes the contents only.                            *)
(***************************************************************************)
EXTENDS Naturals, FiniteSets

CONSTANTS
    Requests,
    Routes, Ids,   \* a path has a route and, in it, an id the fingerprint drops
    MaxPending,    \* CACHE_MAX_PENDING_WRITES
    MaxEdits,      \* bound: saves and publishes
    MaxOutages,    \* bound: losses of Redis
    None

ASSUME CacheAssumption ==
    /\ IsFiniteSet(Requests)
    /\ MaxPending \in Nat \ {0} /\ {MaxEdits, MaxOutages} \subseteq Nat

VARIABLES
    site,      \* the configuration Laravel would answer with
    ram,       \* the proxy's copy, None when it must be fetched
    message,   \* an invalidation is under way on the channel
    redisUp,   \* the proxy's connections to Redis are up
    redis,     \* redis[k]: the page stored under a key, or None
    memory,    \* the same for the fallback Map
    flush,     \* the keys a running flush has still to delete from Redis
    request,   \* request[r]: a request on its way to the origin and back
    pending,   \* pendingCacheWrites
    outages    \* history: losses of Redis so far

vars == <<site, ram, message, redisUp, redis, memory, flush, request, pending,
          outages>>

Labels == 0..MaxEdits
Configs == [label : Labels, contents : Labels]
Paths == [route : Routes, id : Ids]
Keys == [route : Routes, label : Labels]
Pages == [path : Paths, config : Configs, stale : BOOLEAN]

\* Mutant: the key leaves out the configuration's revision.
Key_NoRevision(path, config) == [route |-> path.route, label |-> 0]

\* The cache key: the fingerprint of the path and the configuration's revision.
Key(path, config) == [route |-> path.route, label |-> config.label]

Idle == [at |-> "idle", path |-> None, config |-> None]
Request == {Idle} \cup [at : {"origin", "writing"}, path : Paths, config : Configs]

TypeOK ==
    /\ site \in Configs /\ ram \in Configs \cup {None}
    /\ message \in BOOLEAN /\ redisUp \in BOOLEAN
    /\ redis \in [Keys -> Pages \cup {None}] /\ memory \in [Keys -> Pages \cup {None}]
    /\ flush \subseteq Keys
    /\ request \in [Requests -> Request]
    /\ pending = Cardinality({r \in Requests : request[r].at = "writing"})
    /\ pending <= MaxPending     \* the backpressure neither wears off nor sticks
    /\ outages \in 0..MaxOutages

Init ==
    /\ site = [label |-> 0, contents |-> 0] /\ ram = None
    /\ message = FALSE /\ redisUp = TRUE
    /\ redis = [k \in Keys |-> None] /\ memory = redis /\ flush = {}
    /\ request = [r \in Requests |-> Idle]
    /\ pending = 0 /\ outages = 0

Store == IF redisUp THEN redis ELSE memory     \* what getCache reads
Present(store) == {k \in Keys : store[k] # None}

-----------------------------------------------------------------------------
\* An edit: a save gives the configuration a new label, the publication of a
\* manifest revision does not; both publish an invalidation.
Edit(label) ==
    /\ site.contents < MaxEdits
    /\ site' = [label |-> label, contents |-> site.contents + 1]
    /\ message' = redisUp
    /\ UNCHANGED <<ram, redisUp, redis, memory, flush, request, pending, outages>>
Save == Edit(site.label + 1)
PublishManifest == Edit(site.label)

\* getDomainConfig finds nothing in RAM and fetches; RAM copies also expire.
Refetch ==
    /\ ram = None /\ ram' = site
    /\ UNCHANGED <<site, message, redisUp, redis, memory, flush, request, pending, outages>>
Expire ==
    /\ ram # None /\ ram' = None
    /\ UNCHANGED <<site, message, redisUp, redis, memory, flush, request, pending, outages>>

\* The subscriber's handler: drop the configuration and start flushing the host,
\* page by page in Redis, at once in memory (only the store in use).
Invalidate ==
    /\ message /\ message' = FALSE
    /\ ram' = None
    /\ flush' = IF redisUp THEN flush \cup Present(redis) ELSE {}
    /\ memory' = IF redisUp THEN memory ELSE [k \in Keys |-> None]
    /\ UNCHANGED <<site, redisUp, redis, request, pending, outages>>

\* SCAN and DEL: a key deleted may have been written again in between.
FlushKey(k) ==
    /\ redisUp /\ k \in flush
    /\ flush' = flush \ {k}
    /\ redis' = [redis EXCEPT ![k] = None]
    /\ UNCHANGED <<site, ram, message, redisUp, memory, request, pending, outages>>

-----------------------------------------------------------------------------
\* The request goes to the origin with the configuration it has read.
ToOrigin(r, path) ==
    request' = [request EXCEPT ![r] = [at |-> "origin", path |-> path, config |-> ram]]

\* No page under the key, or reading it failed.
Miss(r, path) ==
    /\ request[r] = Idle /\ ram # None
    /\ Store[Key(path, ram)] = None \/ redisUp
    /\ ToOrigin(r, path)
    /\ UNCHANGED <<site, ram, message, redisUp, redis, memory, flush, pending, outages>>

\* What a visitor asking for the path now is served from the cache.
Served(path) == IF ram = None THEN None ELSE Store[Key(path, ram)]

\* Mutant: the revalidation reads the cache as well, and finds the stale page.
Hit_NoRevalidation(r, path) ==
    /\ request[r] = Idle /\ Served(path) # None
    /\ UNCHANGED vars

\* A page under the key is served; a stale one also sends a revalidation
\* request to the origin, which does not read the cache.
Hit(r, path) ==
    /\ request[r] = Idle /\ Served(path) # None
    /\ IF Served(path).stale THEN ToOrigin(r, path) ELSE UNCHANGED request
    /\ UNCHANGED <<site, ram, message, redisUp, redis, memory, flush, pending, outages>>

Rendered(r) == [path |-> request[r].path, config |-> request[r].config, stale |-> FALSE]
KeyOf(r) == Key(request[r].path, request[r].config)

\* Not eligible, too large, or the stream failed: nothing is stored.
NotStored(r) ==
    /\ request[r].at = "origin"
    /\ request' = [request EXCEPT ![r] = Idle]
    /\ UNCHANGED <<site, ram, message, redisUp, redis, memory, flush, pending, outages>>

\* The end of the stream calls setCache, which is not awaited: in memory the
\* page is stored at once.
StoreInMemory(r) ==
    /\ request[r].at = "origin" /\ ~redisUp
    /\ memory' = [memory EXCEPT ![KeyOf(r)] = Rendered(r)]
    /\ request' = [request EXCEPT ![r] = Idle]
    /\ UNCHANGED <<site, ram, message, redisUp, redis, flush, pending, outages>>

\* In Redis the write is under way, unless too many are: then it is dropped.
StartWrite(r) ==
    /\ request[r].at = "origin" /\ redisUp
    /\ IF pending >= MaxPending
       THEN request' = [request EXCEPT ![r] = Idle] /\ UNCHANGED pending
       ELSE request' = [request EXCEPT ![r].at = "writing"] /\ pending' = pending + 1
    /\ UNCHANGED <<site, ram, message, redisUp, redis, memory, flush, outages>>

WriteLands(r) ==
    /\ request[r].at = "writing" /\ redisUp
    /\ redis' = [redis EXCEPT ![KeyOf(r)] = Rendered(r)]
    /\ request' = [request EXCEPT ![r] = Idle] /\ pending' = pending - 1
    /\ UNCHANGED <<site, ram, message, redisUp, memory, flush, outages>>

\* Mutant: the counter comes down on success only.
WriteFails_Leaks(r) ==
    /\ request[r].at = "writing" /\ ~redisUp
    /\ request' = [request EXCEPT ![r] = Idle]
    /\ UNCHANGED <<site, ram, message, redisUp, redis, memory, flush, pending, outages>>

WriteFails(r) ==
    /\ request[r].at = "writing" /\ ~redisUp
    /\ request' = [request EXCEPT ![r] = Idle] /\ pending' = pending - 1
    /\ UNCHANGED <<site, ram, message, redisUp, redis, memory, flush, outages>>

-----------------------------------------------------------------------------
\* x-yc-stale-at passes after five minutes.
Ages(k) ==
    /\ \/ /\ redis[k] # None /\ redis' = [redis EXCEPT ![k].stale = TRUE]
          /\ UNCHANGED memory
       \/ /\ memory[k] # None /\ memory' = [memory EXCEPT ![k].stale = TRUE]
          /\ UNCHANGED redis
    /\ UNCHANGED <<site, ram, message, redisUp, flush, request, pending, outages>>

\* The 24 hours of a page are over, or the full Map makes room for another.
Drop(k) ==
    /\ \/ redis[k] # None /\ redis' = [redis EXCEPT ![k] = None] /\ UNCHANGED memory
       \/ memory[k] # None /\ memory' = [memory EXCEPT ![k] = None] /\ UNCHANGED redis
    /\ UNCHANGED <<site, ram, message, redisUp, flush, request, pending, outages>>

\* Redis goes away: the invalidation on the channel is lost, a running flush
\* ends in its catch block, and pages are kept in memory from now on.
RedisDown ==
    /\ redisUp /\ outages < MaxOutages
    /\ redisUp' = FALSE /\ outages' = outages + 1
    /\ message' = FALSE /\ flush' = {}
    /\ UNCHANGED <<site, ram, redis, memory, request, pending>>

RedisBack ==
    /\ ~redisUp /\ redisUp' = TRUE
    /\ UNCHANGED <<site, ram, message, redis, memory, flush, request, pending, outages>>

Next ==
    \/ Save \/ PublishManifest \/ Refetch \/ Expire \/ Invalidate
    \/ \E k \in Keys : FlushKey(k) \/ Ages(k) \/ Drop(k)
    \/ \E r \in Requests, p \in Paths : Miss(r, p) \/ Hit(r, p)
    \/ \E r \in Requests : \/ NotStored(r) \/ StoreInMemory(r) \/ StartWrite(r)
                           \/ WriteLands(r) \/ WriteFails(r)
    \/ RedisDown \/ RedisBack

\* RAM copies expire, pages age, writes settle, Redis comes back.  SF on Hit and
\* on storing is the premise of the liveness property: it speaks of pages that
\* keep being asked for and whose origin keeps answering.
Fairness ==
    /\ WF_vars(Refetch) /\ WF_vars(ram # site /\ Expire) /\ WF_vars(Invalidate)
    /\ WF_vars(\E k \in Keys : FlushKey(k)) /\ WF_vars(\E k \in Keys : Ages(k))
    /\ SF_vars(\E r \in Requests, p \in Paths : Hit(r, p))
    /\ SF_vars(\E r \in Requests : StoreInMemory(r) \/ StartWrite(r))
    /\ WF_vars(\E r \in Requests : WriteLands(r) \/ WriteFails(r))
    /\ WF_vars(RedisBack)

Spec == Init /\ [][Next]_vars
FairSpec == Spec /\ Fairness

-----------------------------------------------------------------------------
\* Once the proxy has a configuration with a new label, no page rendered under
\* an older label is served: not one written after the flush, not one a flush
\* missed, not one left in the store that was not in use.
NoPageOfAnOlderLabel ==
    \A p \in Paths : Served(p) # None => Served(p).config.label = ram.label

\* A page rendered under the old contents may be stored after the flush, under a
\* label that did not change, and a slow revalidation may put it back; once
\* edits and outages are over, revalidation replaces it for good.
PagesBecomeCurrent ==
    <>[](\A k \in Keys : k.label = site.label /\ Store[k] # None =>
                            Store[k].config = site)

\* A page is served for the path it was rendered for (cache-store.js:51 calls
\* the key "representing the request (Tenant:Method:Path)").
RightPage == \A p \in Paths : Served(p) # None => Served(p).path = p
=============================================================================
