--------------------------- MODULE ConfigResolver ---------------------------
(***************************************************************************)
(* How one host's proxy configuration travels from the Laravel control     *)
(* plane to the edge proxy: the domains row, the config_version bump of    *)
(* DomainObserver, Laravel's proxy_config cache, the pushed Redis entry    *)
(* proxy_cfg:{host}, the 'domain-config-updated' channel, and, in the      *)
(* proxy, the RAM entry, the disk snapshot and the single-flight fetch of  *)
(* services/proxy/config-resolver.js.                                      *)
(*                                                                         *)
(* Hosts share nothing but the RAM cache's capacity, so one host is        *)
(* modelled and an LRU eviction caused by other hosts may happen at any    *)
(* time.  A configuration is a pair of the version in its revision label   *)
(* and the number of saves its body reflects.  Each await of the proxy is  *)
(* a separate step; the proxy issues its own Redis writes in order on one  *)
(* connection, so a write takes effect in the step that issues it.         *)
(***************************************************************************)
EXTENDS Naturals, Sequences

CONSTANTS
    Editors,    \* concurrent admin requests that edit the domain
    MaxSaves,   \* bound: edits of the domain row in one behaviour
    MaxFaults,  \* bound: failed calls, lost messages and proxy restarts
    None        \* no configuration: an absent cache entry, PHP and JS null

ASSUME BoundsAssumption == MaxSaves \in Nat /\ MaxFaults \in Nat

Config == [ver : Nat, body : Nat]

ASSUME NoneAssumption == None \notin Config /\ None \notin [cfg : Config \cup {None},
                                  src : {"http", "redis", "disk"}, fresh : BOOLEAN]

VARIABLES
    row,        \* the domains row: "live" (proxied), "off" or "gone"
    saves,      \* how many edits the row has seen: its contents
    version,    \* domains.config_version
    floor,      \* history: floor[v] = saves when version v was allocated
    editor,     \* each admin request: its place in bumpConfigVersion
    laravel,    \* Laravel cache entry proxy_config:{host}, TTL 60 s
    redis,      \* Redis entry proxy_cfg:{host}, TTL 3600 s
    channel,    \* pub/sub messages on their way to the proxy
    ram,        \* the proxy's in-memory entry
    disk,       \* the proxy's disk snapshot
    fetch,      \* the proxy's single in-flight fetch
    faults      \* faults so far

tiers  == <<laravel, redis, channel, ram, disk>>
domain == <<row, saves, version, floor>>
vars   == <<domain, editor, tiers, fetch, faults>>

MaybeConfig == Config \cup {None}
Entry       == [cfg : MaybeConfig, src : {"http", "redis", "disk"}, fresh : BOOLEAN]
Message     == [action : {"pushed", "invalidated"}, ver : Nat]
EditorPC    == {"idle", "saved", "bumped", "labelled", "built", "warmed", "pushed"}
FetchPhase  == {"idle", "asked", "answered", "http", "building", "reply",
                "persist", "grace"}

\* The type invariant of every tier, of the editors and of the fetch.
TypeOK ==
    /\ row \in {"live", "off", "gone"}
    /\ saves \in Nat
    /\ version \in Nat \ {0}
    /\ floor \in Seq(Nat)
    /\ editor \in [Editors -> [pc : EditorPC, ver : Nat, cfg : MaybeConfig]]
    /\ laravel \in MaybeConfig
    /\ redis \in MaybeConfig
    /\ channel \in Seq(Message)
    /\ ram \in Entry \cup {None}
    /\ disk \in MaybeConfig
    /\ fetch \in [phase : FetchPhase, prev : MaybeConfig, got : MaybeConfig]
    /\ faults \in Nat

IdleEditor == [pc |-> "idle", ver |-> 0, cfg |-> None]
IdleFetch  == [phase |-> "idle", prev |-> None, got |-> None]

Init ==
    /\ row = "live"
    /\ saves = 0
    /\ version = 1
    /\ floor = <<0>>
    /\ editor = [e \in Editors |-> IdleEditor]
    /\ laravel = None
    /\ redis = None
    /\ channel = <<>>
    /\ ram = None
    /\ disk = None
    /\ fetch = IdleFetch
    /\ faults = 0

\* getDomainConfig serves the entry without a fetch.
RamFresh == ram # None /\ ram.fresh

Fault == faults < MaxFaults /\ faults' = faults + 1

\* buildConfig under the revision label it is given; null unless proxied.  Its
\* relations load after the row, so the row's contents are the oldest it uses.
BuildConfig(label) ==
    IF row = "live" THEN [ver |-> label, body |-> saves] ELSE None

-----------------------------------------------------------------------------
(* The control plane: DomainObserver and PublishTrigger, one row at a time. *)

Step(e, from, to) ==
    /\ editor[e].pc = from
    /\ editor' = [editor EXCEPT ![e].pc = to]

\* An admin changes a proxy-relevant field, maybe turning the proxy on or off;
\* the observer's bump then runs in the same request.
Save(e) ==
    /\ row # "gone" /\ saves < MaxSaves
    /\ Step(e, "idle", "saved")
    /\ saves' = saves + 1
    /\ row' \in {"live", "off"}
    /\ UNCHANGED <<version, floor, tiers, fetch, faults>>

\* The row is deleted: deleted() forgets, deletes and publishes without a bump.
Delete(e) ==
    /\ row # "gone" /\ saves < MaxSaves
    /\ editor[e].pc = "idle"
    /\ editor' = [editor EXCEPT ![e] = [IdleEditor EXCEPT !.pc = "built"]]
    /\ saves' = saves + 1
    /\ row' = "gone"
    /\ UNCHANGED <<version, floor, tiers, fetch, faults>>

\* UPDATE domains SET config_version = config_version + 1; no row, no effect.
Increment(e) ==
    /\ Step(e, "saved", "bumped")
    /\ IF row = "gone"
       THEN UNCHANGED <<version, floor>>
       ELSE version' = version + 1 /\ floor' = Append(floor, saves)
    /\ UNCHANGED <<row, saves, tiers, fetch, faults>>

\* The new version is read back in a second statement.
ReadBack(e) ==
    /\ editor[e].pc = "bumped"
    /\ editor' = [editor EXCEPT ![e].pc = "labelled", ![e].ver = version]
    /\ UNCHANGED <<domain, tiers, fetch, faults>>

Build(e) ==
    /\ editor[e].pc = "labelled"
    /\ editor' = [editor EXCEPT ![e].pc = "built",
                                ![e].cfg = BuildConfig(editor[e].ver)]
    /\ UNCHANGED <<domain, tiers, fetch, faults>>

\* buildConfig threw: the cache entry is forgotten; $config is then undefined,
\* and whether the publish block survives that is PHP's error handler's choice.
BuildFails(e) ==
    /\ Fault
    /\ editor[e].pc = "labelled"
    /\ \E pc \in {"idle", "pushed"} :
          editor' = [editor EXCEPT ![e] = [IdleEditor EXCEPT !.pc = pc]]
    /\ laravel' = None
    /\ UNCHANGED <<domain, redis, channel, ram, disk, fetch>>

\* Mutant: the label is taken when the config is stored, after the body.
WarmLaravel_LateLabel(e) ==
    /\ Step(e, "built", "warmed")
    /\ laravel' = IF editor[e].cfg = None THEN None
                  ELSE [editor[e].cfg EXCEPT !.ver = version]
    /\ UNCHANGED <<domain, redis, channel, ram, disk, fetch, faults>>

\* Cache::put(.., 60), or Cache::forget for a null config.
WarmLaravel(e) ==
    /\ Step(e, "built", "warmed")
    /\ laravel' = editor[e].cfg
    /\ UNCHANGED <<domain, redis, channel, ram, disk, fetch, faults>>

\* setex(.., 3600), or del for a null config.
PushRedis(e) ==
    /\ Step(e, "warmed", "pushed")
    /\ redis' = editor[e].cfg
    /\ UNCHANGED <<domain, laravel, channel, ram, disk, fetch, faults>>

\* The Redis write threw: only Laravel's entry is forgotten, and the message
\* that follows still says 'pushed'.  deleted() (ver 0) has forgotten it before.
PushFails(e) ==
    /\ Fault
    /\ Step(e, "warmed", "pushed")
    /\ laravel' = IF editor[e].ver = 0 THEN laravel ELSE None
    /\ UNCHANGED <<domain, redis, channel, ram, disk, fetch>>

Publish(e) ==
    /\ editor[e].pc = "pushed"
    /\ editor' = [editor EXCEPT ![e] = IdleEditor]
    /\ channel' = Append(channel,
          [action |-> IF editor[e].cfg = None THEN "invalidated" ELSE "pushed",
           ver |-> editor[e].ver])
    /\ UNCHANGED <<domain, laravel, redis, ram, disk, fetch, faults>>

-----------------------------------------------------------------------------
(* Time-outs of the tiers, each at any moment.                              *)

ExpireLaravel ==
    /\ laravel # None
    /\ laravel' = None
    /\ UNCHANGED <<domain, editor, redis, channel, ram, disk, fetch, faults>>

\* Mutant: proxy_cfg is written without a TTL.
ExpireRedis_NoTTL == FALSE /\ UNCHANGED vars

ExpireRedis ==
    /\ redis # None
    /\ redis' = None
    /\ UNCHANGED <<domain, editor, laravel, channel, ram, disk, fetch, faults>>

\* expiresAt passes: the entry stays in the Map, to be revalidated.
ExpireRam ==
    /\ RamFresh
    /\ ram' = [ram EXCEPT !.fresh = FALSE]
    /\ UNCHANGED <<domain, editor, laravel, redis, channel, disk, fetch, faults>>

\* cacheSet for another host evicts this one, the oldest inserted.
EvictRam ==
    /\ ram # None
    /\ ram' = None
    /\ UNCHANGED <<domain, editor, laravel, redis, channel, disk, fetch, faults>>

-----------------------------------------------------------------------------
(* The proxy: getDomainConfig and fetchAndCacheConfig.                      *)

\* Mutant: the entry does not record where it came from.
CacheSet_NoSource(c, source) == ram' = [cfg |-> c, fresh |-> TRUE]

CacheSet(c, source) == ram' = [cfg |-> c, src |-> source, fresh |-> TRUE]

EndFetch == fetch' = IdleFetch

\* A request misses RAM and no fetch is in flight: remember the expired entry
\* (its config) and ask Redis.
StartFetch ==
    /\ fetch.phase = "idle"
    /\ ~RamFresh
    /\ fetch' = [phase |-> "asked", got |-> None,
                 prev |-> IF ram = None THEN None ELSE ram.cfg]
    /\ UNCHANGED <<domain, editor, tiers, faults>>

ReadRedis ==
    /\ fetch.phase = "asked"
    /\ fetch' = [fetch EXCEPT !.phase = "answered", !.got = redis]
    /\ UNCHANGED <<domain, editor, tiers, faults>>

ReadRedisFails ==
    /\ Fault
    /\ fetch.phase = "asked"
    /\ fetch' = [fetch EXCEPT !.phase = "http"]
    /\ UNCHANGED <<domain, editor, tiers>>

\* Mutant: the revision comparison is left out.
RedisTrusted_AnyVersion == fetch.got # None

\* Redis has an entry and RAM had seen no newer revision.
RedisTrusted ==
    /\ fetch.got # None
    /\ fetch.prev # None => fetch.got.ver >= fetch.prev.ver

TrustRedis ==
    /\ fetch.phase = "answered"
    /\ RedisTrusted
    /\ CacheSet(fetch.got, "redis")
    /\ EndFetch
    /\ UNCHANGED <<domain, editor, laravel, redis, channel, disk, faults>>

SkipRedis ==
    /\ fetch.phase = "answered"
    /\ ~RedisTrusted
    /\ fetch' = [fetch EXCEPT !.phase = "http", !.got = None]
    /\ UNCHANGED <<domain, editor, tiers, faults>>

\* ProxyConfigController::show finds its Cache::remember entry.
ServeCached ==
    /\ fetch.phase = "http"
    /\ laravel # None
    /\ fetch' = [fetch EXCEPT !.phase = "reply", !.got = laravel]
    /\ UNCHANGED <<domain, editor, tiers, faults>>

\* Mutant: the label comes from a model loaded before the last increment.
ServeMiss_OldLabel ==
    /\ fetch.phase = "http"
    /\ laravel = None
    /\ fetch' = [fetch EXCEPT !.phase = "building",
                    !.got = BuildConfig(IF version = 1 THEN 1 ELSE version - 1)]
    /\ UNCHANGED <<domain, editor, tiers, faults>>

\* ... or misses it and reads the row; the put of the result is a later step.
ServeMiss ==
    /\ fetch.phase = "http"
    /\ laravel = None
    /\ fetch' = [fetch EXCEPT !.phase = "building", !.got = BuildConfig(version)]
    /\ UNCHANGED <<domain, editor, tiers, faults>>

ServeRemember ==
    /\ fetch.phase = "building"
    /\ fetch' = [fetch EXCEPT !.phase = "reply"]
    /\ laravel' = IF fetch.got = None THEN laravel ELSE fetch.got
    /\ UNCHANGED <<domain, editor, redis, channel, ram, disk, faults>>

\* The ETag of the reply equals the revision sent in If-None-Match.
NotModified ==
    /\ fetch.got # None /\ fetch.prev # None
    /\ fetch.got.ver = fetch.prev.ver

\* 200: RAM and, failing silently, Redis; the snapshot follows the await.
Accept200 ==
    /\ fetch.phase = "reply"
    /\ fetch.got # None /\ ~NotModified
    /\ CacheSet(fetch.got, "http")
    /\ fetch' = [fetch EXCEPT !.phase = "persist"]
    /\ \/ redis' = fetch.got /\ UNCHANGED faults
       \/ Fault /\ UNCHANGED redis
    /\ UNCHANGED <<domain, editor, laravel, channel, disk>>

Persist ==
    /\ fetch.phase = "persist"
    /\ disk' = fetch.got
    /\ EndFetch
    /\ UNCHANGED <<domain, editor, laravel, redis, channel, ram, faults>>

\* 304: the previous entry object is extended; it may have left the Map.
Accept304 ==
    /\ fetch.phase = "reply"
    /\ NotModified
    /\ ram' = IF ram = None THEN None
              ELSE [ram EXCEPT !.fresh = TRUE, !.src = "http"]
    /\ EndFetch
    /\ UNCHANGED <<domain, editor, laravel, redis, channel, disk, faults>>

\* 404: a negative entry; Redis and the snapshot are left alone.
Accept404 ==
    /\ fetch.phase = "reply"
    /\ fetch.got = None
    /\ CacheSet(None, "http")
    /\ EndFetch
    /\ UNCHANGED <<domain, editor, laravel, redis, channel, disk, faults>>

\* verifySignature throws: fail closed, nothing is cached.
RejectSignature ==
    /\ Fault
    /\ fetch.phase = "reply"
    /\ EndFetch
    /\ UNCHANGED <<domain, editor, tiers>>

\* The call failed or was not answered 200, 304 or 404: fallbackToRedis reads
\* Redis once more, which may be down as well.
HttpFails ==
    /\ Fault
    /\ fetch.phase \in {"http", "reply"}
    /\ \E answer \in {redis, None} :
          fetch' = [fetch EXCEPT !.phase = "grace", !.got = answer]
    /\ UNCHANGED <<domain, editor, tiers>>

\* Grace mode serves Redis, else the snapshot, else rethrows.
Grace ==
    /\ fetch.phase = "grace"
    /\ IF fetch.got # None THEN CacheSet(fetch.got, "redis")
       ELSE IF disk # None THEN CacheSet(disk, "disk")
       ELSE UNCHANGED ram
    /\ EndFetch
    /\ UNCHANGED <<domain, editor, laravel, redis, channel, disk, faults>>

\* invalidateConfig, called by the subscriber: RAM and disk always, Redis only
\* for a full invalidation (whose del may fail); a running fetch goes on.
Invalidate ==
    /\ channel # <<>>
    /\ channel' = Tail(channel)
    /\ ram' = None
    /\ disk' = None
    /\ IF Head(channel).action = "pushed"
       THEN UNCHANGED <<redis, faults>>
       ELSE \/ redis' = None /\ UNCHANGED faults
            \/ Fault /\ UNCHANGED redis
    /\ UNCHANGED <<domain, editor, laravel, fetch>>

\* A message published while the subscriber is disconnected.
LoseMessage ==
    /\ Fault
    /\ channel # <<>>
    /\ channel' = Tail(channel)
    /\ UNCHANGED <<domain, editor, laravel, redis, ram, disk, fetch>>

\* The proxy restarts and pre-warms RAM from the snapshot.
Restart ==
    /\ Fault
    /\ IF disk = None THEN ram' = None ELSE CacheSet(disk, "disk")
    /\ EndFetch
    /\ channel' = <<>>
    /\ UNCHANGED <<domain, editor, laravel, redis, disk>>

-----------------------------------------------------------------------------
Bump(e) ==
    \/ Increment(e) \/ ReadBack(e) \/ Build(e) \/ BuildFails(e)
    \/ WarmLaravel(e) \/ PushRedis(e) \/ PushFails(e) \/ Publish(e)

Expire == ExpireLaravel \/ ExpireRedis \/ ExpireRam

Continue ==
    \/ ReadRedis \/ ReadRedisFails \/ TrustRedis \/ SkipRedis
    \/ ServeCached \/ ServeMiss \/ ServeRemember
    \/ Accept200 \/ Persist \/ Accept304 \/ Accept404
    \/ RejectSignature \/ HttpFails \/ Grace

Next ==
    \/ \E e \in Editors : Save(e) \/ Delete(e) \/ Bump(e)
    \/ Expire \/ EvictRam
    \/ StartFetch \/ Continue
    \/ Invalidate \/ LoseMessage \/ Restart

Spec == Init /\ [][Next]_vars

\* A PHP request runs to its end, TTLs pass, requests keep arriving, awaited
\* calls settle and delivered messages are handled.  Nobody has to edit.
Fairness ==
    /\ \A e \in Editors : WF_vars(Bump(e))
    /\ WF_vars(ExpireLaravel) /\ WF_vars(ExpireRedis) /\ WF_vars(ExpireRam)
    /\ WF_vars(StartFetch) /\ WF_vars(Continue)
    /\ WF_vars(Invalidate)

FairSpec == Spec /\ Fairness

-----------------------------------------------------------------------------
(* Properties.                                                              *)

\* Every copy of the configuration, in a tier, in an editor's hands or in the
\* fetch.
Copies ==
    ({laravel, redis, disk, fetch.prev, fetch.got}
        \cup {editor[e].cfg : e \in Editors}
        \cup (IF ram = None THEN {} ELSE {ram.cfg})) \ {None}

\* A revision label never promises more than the body holds: whatever was
\* saved before version v was allocated is in every config labelled v or
\* later.  This is what lets the proxy compare labels only (304, Redis versus
\* RAM): DomainObserver reads the label back before it builds the body, and
\* show() reads both from one row.
LabelSound ==
    \A c \in Copies : c.ver \in 1..version /\ floor[c.ver] <= c.body

\* While a fetch is out nothing else fills RAM, so the entry a Redis answer
\* replaces is the one its version was compared with: a Redis hit never takes
\* a host back to an older revision than the one in RAM.
RedisNeverRegressesRam ==
    [][fetch.phase = "answered" /\ ram # None /\ ram.cfg # None
         /\ ram' # ram /\ ram' # None /\ ram'.src = "redis" /\ ram'.cfg # None
       => ram'.cfg.ver >= ram.cfg.ver]_vars

\* What the control plane would serve now.
Current == IF row = "live" THEN [ver |-> version, body |-> saves] ELSE None

EditorsIdle == \A e \in Editors : editor[e].pc = "idle"

\* No outdated configuration is left anywhere, not even a negative entry.
Settled ==
    /\ EditorsIdle
    /\ Copies \subseteq {Current}
    /\ ram # None => ram.cfg = Current
    /\ fetch.phase \in {"building", "reply"} => fetch.got = Current

\* Once the last outdated copy is gone, no failure, restart, grace mode, late
\* answer or expiry brings one back: only a new edit ends a settled state.
SettledUntilNextEdit == [][Settled => Settled' \/ saves' # saves]_vars

\* After the last edit and the last fault the proxy serves the current
\* configuration: stale copies age out although invalidations were lost,
\* pushes overtook each other or a fetch was in flight.
EventuallyServesCurrent ==
    /\ <>[](RamFresh => ram.cfg = Current)
    /\ []<>RamFresh

=============================================================================
