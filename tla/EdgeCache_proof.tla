-------------------------- MODULE EdgeCache_proof --------------------------
(***************************************************************************)
(* Proofs about EdgeCache for any finite set of requests, any routes and   *)
(* ids, any number of edits and outages and any limit of pending writes.   *)
(***************************************************************************)
EXTENDS EdgeCache, FiniteSetTheorems, TLAPS

Writing == {r \in Requests : request[r].at = "writing"}

\* TypeOK without the counter.
Typed ==
    /\ site \in Configs /\ ram \in Configs \cup {None}
    /\ message \in BOOLEAN /\ redisUp \in BOOLEAN
    /\ redis \in [Keys -> Pages \cup {None}] /\ memory \in [Keys -> Pages \cup {None}]
    /\ flush \subseteq Keys
    /\ request \in [Requests -> Request]
    /\ outages \in 0..MaxOutages

Counted == pending = Cardinality(Writing) /\ pending <= MaxPending

\* Every edit changes the contents, and some the label.
LabelBehind == site.label <= site.contents

\* A stored page was rendered under the label of its key.
Filed(store) == \A k \in Keys : store[k] # None => store[k].config.label = k.label

IInv == Typed /\ Counted /\ LabelBehind /\ Filed(redis) /\ Filed(memory)

LEMMA TypeSplit == TypeOK <=> Typed /\ Counted
BY DEF TypeOK, Typed, Counted, Writing

LEMMA WritingFinite == IsFiniteSet(Writing)
BY CacheAssumption, FS_Subset DEF Writing

-----------------------------------------------------------------------------
\* What the operators on pages and keys return.

LEMMA KeyType == \A p \in Paths, c \in Configs : Key(p, c) \in Keys /\ Key(p, c).label = c.label
BY DEF Key, Paths, Configs, Keys

LEMMA RequestType ==
    ASSUME Typed, NEW r \in Requests, request[r].at \in {"origin", "writing"}
    PROVE  /\ request[r].path \in Paths /\ request[r].config \in Configs
           /\ KeyOf(r) \in Keys /\ KeyOf(r).label = request[r].config.label
           /\ Rendered(r) \in Pages /\ Rendered(r).config = request[r].config
<1>1. request[r] \in Request /\ request[r] # Idle
  BY DEF Typed, Idle
<1>2. request[r].path \in Paths /\ request[r].config \in Configs
  BY <1>1 DEF Request
<1>3. KeyOf(r) \in Keys /\ KeyOf(r).label = request[r].config.label
  BY <1>2, KeyType DEF KeyOf
<1>4. Rendered(r) \in Pages /\ Rendered(r).config = request[r].config
  BY <1>2 DEF Rendered, Pages
<1> QED
  BY <1>2, <1>3, <1>4

\* Storing a page under its own key, taking one out and ageing one keep a store
\* well typed and well filed.
LEMMA StoreStep ==
    ASSUME NEW store \in [Keys -> Pages \cup {None}], Filed(store), NEW k \in Keys
    PROVE  /\ \A page \in Pages : page.config.label = k.label =>
                 /\ [store EXCEPT ![k] = page] \in [Keys -> Pages \cup {None}]
                 /\ Filed([store EXCEPT ![k] = page])
           /\ [store EXCEPT ![k] = None] \in [Keys -> Pages \cup {None}]
           /\ Filed([store EXCEPT ![k] = None])
           /\ store[k] # None =>
                 /\ [store EXCEPT ![k].stale = TRUE] \in [Keys -> Pages \cup {None}]
                 /\ Filed([store EXCEPT ![k].stale = TRUE])
<1>1. ASSUME NEW page \in Pages, page.config.label = k.label
      PROVE  /\ [store EXCEPT ![k] = page] \in [Keys -> Pages \cup {None}]
             /\ Filed([store EXCEPT ![k] = page])
  BY <1>1 DEF Filed
<1>2. /\ [store EXCEPT ![k] = None] \in [Keys -> Pages \cup {None}]
      /\ Filed([store EXCEPT ![k] = None])
  BY DEF Filed
<1>3. ASSUME store[k] # None
      PROVE  /\ [store EXCEPT ![k].stale = TRUE] \in [Keys -> Pages \cup {None}]
             /\ Filed([store EXCEPT ![k].stale = TRUE])
  <2> DEFINE page == [store[k] EXCEPT !.stale = TRUE]
  <2>1. store[k] \in Pages
    BY <1>3
  <2>2. page \in Pages /\ page.config = store[k].config
    BY <2>1 DEF Pages
  <2>3. page.config.label = k.label
    BY <1>3, <2>2 DEF Filed
  <2>4. [store EXCEPT ![k].stale = TRUE] = [store EXCEPT ![k] = page]
    OBVIOUS
  <2> QED
    BY <1>1, <2>2, <2>3, <2>4
<1> QED
  BY <1>1, <1>2, <1>3

-----------------------------------------------------------------------------
\* Typed, by groups of actions.

ConfigStep == Save \/ PublishManifest \/ Refetch \/ Expire
StoreOnly == Invalidate \/ RedisDown \/ RedisBack \/ \E k \in Keys : FlushKey(k) \/ Ages(k) \/ Drop(k)
Lookup == \E r \in Requests, p \in Paths : Miss(r, p) \/ Hit(r, p)
Write(r) == NotStored(r) \/ StoreInMemory(r) \/ StartWrite(r) \/ WriteLands(r) \/ WriteFails(r)

LEMMA Cases == Next => ConfigStep \/ StoreOnly \/ Lookup \/ \E r \in Requests : Write(r)
BY DEF Next, ConfigStep, StoreOnly, Lookup, Write

LEMMA ConfigSound == IInv /\ ConfigStep => IInv'
<1> SUFFICES ASSUME IInv, ConfigStep PROVE IInv'
  OBVIOUS
<1>1. UNCHANGED <<redisUp, redis, memory, flush, request, pending, outages>>
  BY DEF ConfigStep, Save, PublishManifest, Edit, Refetch, Expire
<1>2. /\ site' \in Configs /\ ram' \in Configs \cup {None} /\ message' \in BOOLEAN
      /\ LabelBehind'
  <2>1. site.label \in Nat /\ site.contents \in Nat /\ site.label <= site.contents
    BY CacheAssumption DEF IInv, Typed, LabelBehind, Configs, Labels
  <2>2. CASE Save
    <3>1. site' = [label |-> site.label + 1, contents |-> site.contents + 1]
          /\ site.contents < MaxEdits
      BY <2>2 DEF Save, Edit
    <3>2. site' \in Configs /\ LabelBehind'
      BY <2>1, <3>1, CacheAssumption DEF Configs, Labels, LabelBehind
    <3> QED
      BY <2>2, <3>2 DEF Save, Edit, IInv, Typed
  <2>3. CASE PublishManifest
    <3>1. site' = [label |-> site.label, contents |-> site.contents + 1]
          /\ site.contents < MaxEdits
      BY <2>3 DEF PublishManifest, Edit
    <3>2. site' \in Configs /\ LabelBehind'
      BY <2>1, <3>1, CacheAssumption DEF Configs, Labels, LabelBehind
    <3> QED
      BY <2>3, <3>2 DEF PublishManifest, Edit, IInv, Typed
  <2>4. CASE Refetch \/ Expire
    BY <2>4 DEF Refetch, Expire, IInv, Typed, LabelBehind
  <2> QED
    BY <2>2, <2>3, <2>4 DEF ConfigStep
<1> QED
  BY <1>1, <1>2 DEF IInv, Typed, Counted, Writing, Filed

LEMMA StoreSound == IInv /\ StoreOnly => IInv'
<1> SUFFICES ASSUME IInv, StoreOnly PROVE IInv'
  OBVIOUS
<1>1. UNCHANGED <<site, request, pending>>
  BY DEF StoreOnly, Invalidate, RedisDown, RedisBack, FlushKey, Ages, Drop
<1>2. /\ ram' \in Configs \cup {None} /\ message' \in BOOLEAN /\ redisUp' \in BOOLEAN
      /\ flush' \subseteq Keys /\ outages' \in 0..MaxOutages
  <2>1. CASE Invalidate
    BY <2>1 DEF Invalidate, IInv, Typed, Present
  <2>2. CASE RedisDown \/ RedisBack
    <3>1. outages' \in 0..MaxOutages
      BY <2>2, CacheAssumption DEF RedisDown, RedisBack, IInv, Typed
    <3>2. redisUp' \in BOOLEAN /\ message' \in BOOLEAN
      BY <2>2 DEF RedisDown, RedisBack, IInv, Typed
    <3>3. ram' \in Configs \cup {None} /\ flush' \subseteq Keys
      BY <2>2 DEF RedisDown, RedisBack, IInv, Typed
    <3> QED
      BY <3>1, <3>2, <3>3
  <2>3. ASSUME NEW k \in Keys, FlushKey(k) \/ Ages(k) \/ Drop(k)
        PROVE  /\ UNCHANGED <<message, redisUp, outages, ram>>
               /\ flush' \subseteq flush
    BY <2>3 DEF FlushKey, Ages, Drop
  <2> QED
    BY <2>1, <2>2, <2>3 DEF StoreOnly, IInv, Typed
<1>3. /\ redis' \in [Keys -> Pages \cup {None}] /\ Filed(redis)'
      /\ memory' \in [Keys -> Pages \cup {None}] /\ Filed(memory)'
  <2> USE DEF IInv, Typed
  <2>1. CASE Invalidate
    BY <2>1 DEF Invalidate, Filed
  <2>2. CASE RedisDown \/ RedisBack
    BY <2>2 DEF RedisDown, RedisBack, Filed
  <2>3. ASSUME NEW k \in Keys, FlushKey(k)
        PROVE  redis' = [redis EXCEPT ![k] = None] /\ memory' = memory
    BY <2>3 DEF FlushKey
  <2>4. ASSUME NEW k \in Keys, Ages(k)
        PROVE  \/ redis[k] # None /\ redis' = [redis EXCEPT ![k].stale = TRUE] /\ memory' = memory
               \/ memory[k] # None /\ memory' = [memory EXCEPT ![k].stale = TRUE] /\ redis' = redis
    BY <2>4 DEF Ages
  <2>5. ASSUME NEW k \in Keys, Drop(k)
        PROVE  \/ redis' = [redis EXCEPT ![k] = None] /\ memory' = memory
               \/ memory' = [memory EXCEPT ![k] = None] /\ redis' = redis
    BY <2>5 DEF Drop
  <2>6. ASSUME NEW k \in Keys, FlushKey(k) \/ Ages(k) \/ Drop(k)
        PROVE  /\ redis' \in [Keys -> Pages \cup {None}] /\ Filed(redis')
               /\ memory' \in [Keys -> Pages \cup {None}] /\ Filed(memory')
    <3>1. redis \in [Keys -> Pages \cup {None}] /\ memory \in [Keys -> Pages \cup {None}]
          /\ Filed(redis) /\ Filed(memory)
      OBVIOUS
    <3>2. CASE FlushKey(k)
      <4>1. redis' = [redis EXCEPT ![k] = None] /\ memory' = memory
        BY <2>3, <3>2
      <4> QED
        BY <3>1, <4>1, StoreStep
    <3>3. CASE Ages(k)
      <4>1. \/ redis[k] # None /\ redis' = [redis EXCEPT ![k].stale = TRUE] /\ memory' = memory
            \/ memory[k] # None /\ memory' = [memory EXCEPT ![k].stale = TRUE] /\ redis' = redis
        BY <2>4, <3>3
      <4>2. CASE redis[k] # None /\ redis' = [redis EXCEPT ![k].stale = TRUE] /\ memory' = memory
        BY <3>1, <4>2, StoreStep
      <4>3. CASE memory[k] # None /\ memory' = [memory EXCEPT ![k].stale = TRUE] /\ redis' = redis
        BY <3>1, <4>3, StoreStep
      <4> QED
        BY <4>1, <4>2, <4>3
    <3>4. CASE Drop(k)
      <4>1. \/ redis' = [redis EXCEPT ![k] = None] /\ memory' = memory
            \/ memory' = [memory EXCEPT ![k] = None] /\ redis' = redis
        BY <2>5, <3>4
      <4>2. CASE redis' = [redis EXCEPT ![k] = None] /\ memory' = memory
        BY <3>1, <4>2, StoreStep
      <4>3. CASE memory' = [memory EXCEPT ![k] = None] /\ redis' = redis
        BY <3>1, <4>3, StoreStep
      <4> QED
        BY <4>1, <4>2, <4>3
    <3> QED
      BY <2>6, <3>2, <3>3, <3>4
  <2> QED
    BY <2>1, <2>2, <2>6 DEF StoreOnly, Filed
<1> QED
  BY <1>1, <1>2, <1>3 DEF IInv, Typed, Counted, Writing, LabelBehind

LEMMA LookupSound == IInv /\ Lookup => IInv'
<1> SUFFICES ASSUME IInv, NEW r \in Requests, NEW p \in Paths, Miss(r, p) \/ Hit(r, p)
             PROVE  IInv'
  BY DEF Lookup
<1>1. UNCHANGED <<site, ram, message, redisUp, redis, memory, flush, pending, outages>>
  BY DEF Miss, Hit
<1>2. request[r] = Idle /\ ram # None
  BY DEF Miss, Hit, Served
<1>3. request' = request \/ ToOrigin(r, p)
  BY DEF Miss, Hit
<1>4. CASE request' = request
  BY <1>1, <1>4 DEF IInv, Typed, Counted, Writing, LabelBehind, Filed
<1>5. CASE ToOrigin(r, p)
  <2> DEFINE new == [at |-> "origin", path |-> p, config |-> ram]
  <2>1. new \in Request
    BY <1>2 DEF IInv, Typed, Request
  <2>2. request' = [request EXCEPT ![r] = new]
    BY <1>5 DEF ToOrigin
  <2>3. request' \in [Requests -> Request]
    BY <2>1, <2>2 DEF IInv, Typed
  <2>4. Writing' = Writing
    BY <1>2, <2>2 DEF IInv, Typed, Writing, Idle
  <2> QED
    BY <1>1, <2>3, <2>4 DEF IInv, Typed, Counted, LabelBehind, Filed
<1> QED
  BY <1>3, <1>4, <1>5

-----------------------------------------------------------------------------
\* The counter follows the set of writes under way.

LEMMA StartCounted ==
    ASSUME IInv, NEW r \in Requests, StartWrite(r)
    PROVE  request' \in [Requests -> Request] /\ Counted'
<1>0. /\ request \in [Requests -> Request] /\ request[r].at = "origin"
      /\ pending = Cardinality(Writing) /\ pending <= MaxPending /\ pending \in Nat
  BY WritingFinite, FS_CardinalityType DEF IInv, Typed, Counted, StartWrite
<1>1. CASE pending >= MaxPending
  <2>1. request' = [request EXCEPT ![r] = Idle] /\ pending' = pending
    BY <1>1 DEF StartWrite
  <2>2. Writing' = Writing
    BY <1>0, <2>1 DEF Writing, Idle
  <2>3. request' \in [Requests -> Request]
    BY <1>0, <2>1 DEF Request
  <2> QED
    BY <1>0, <2>1, <2>2, <2>3 DEF Counted
<1>2. CASE ~(pending >= MaxPending)
  <2>1. request' = [request EXCEPT ![r].at = "writing"] /\ pending' = pending + 1
    BY <1>2 DEF StartWrite
  <2>2. Writing' = Writing \cup {r} /\ r \notin Writing
    BY <1>0, <2>1 DEF Writing
  <2>3. Cardinality(Writing') = Cardinality(Writing) + 1
    BY <2>2, WritingFinite, FS_AddElement
  <2>4. request' \in [Requests -> Request]
    BY <1>0, <2>1 DEF Request, Idle
  <2>5. pending' <= MaxPending
    BY <1>0, <1>2, <2>1, CacheAssumption
  <2> QED
    BY <1>0, <2>1, <2>3, <2>4, <2>5 DEF Counted
<1> QED
  BY <1>1, <1>2

LEMMA EndCounted ==
    ASSUME IInv, NEW r \in Requests, request' = [request EXCEPT ![r] = Idle],
           \/ request[r].at = "writing" /\ pending' = pending - 1
           \/ request[r].at # "writing" /\ pending' = pending
    PROVE  request' \in [Requests -> Request] /\ Counted'
<1>0. /\ request \in [Requests -> Request]
      /\ pending = Cardinality(Writing) /\ pending <= MaxPending /\ pending \in Nat
  BY WritingFinite, FS_CardinalityType DEF IInv, Typed, Counted
<1>1. request' \in [Requests -> Request]
  BY <1>0 DEF Request
<1>2. Writing' = Writing \ {r}
  BY <1>0 DEF Writing, Idle
<1>3. CASE request[r].at = "writing" /\ pending' = pending - 1
  <2>1. r \in Writing
    BY <1>3 DEF Writing
  <2>2. Cardinality(Writing') = Cardinality(Writing) - 1
    BY <1>2, <2>1, WritingFinite, FS_RemoveElement
  <2> QED
    BY <1>0, <1>1, <1>3, <2>2, CacheAssumption DEF Counted
<1>4. CASE request[r].at # "writing" /\ pending' = pending
  <2>1. Writing' = Writing
    BY <1>2, <1>4 DEF Writing
  <2> QED
    BY <1>0, <1>1, <1>4, <2>1 DEF Counted
<1> QED
  BY <1>3, <1>4

LEMMA WriteSound == IInv /\ (\E r \in Requests : Write(r)) => IInv'
<1> SUFFICES ASSUME IInv, NEW r \in Requests, Write(r) PROVE IInv'
  OBVIOUS
<1>1. UNCHANGED <<site, ram, message, redisUp, flush, outages>>
  BY DEF Write, NotStored, StoreInMemory, StartWrite, WriteLands, WriteFails
<1>2. request' \in [Requests -> Request] /\ Counted'
  <2>1. CASE StartWrite(r)
    BY <2>1, StartCounted
  <2>2. CASE NotStored(r) \/ StoreInMemory(r)
    BY <2>2, EndCounted DEF NotStored, StoreInMemory
  <2>3. CASE WriteLands(r) \/ WriteFails(r)
    BY <2>3, EndCounted DEF WriteLands, WriteFails
  <2> QED
    BY <2>1, <2>2, <2>3 DEF Write
<1>3. /\ redis' \in [Keys -> Pages \cup {None}] /\ Filed(redis')
      /\ memory' \in [Keys -> Pages \cup {None}] /\ Filed(memory')
  <2>1. \/ redis' = redis /\ memory' = memory
        \/ /\ request[r].at \in {"origin", "writing"}
           /\ \/ redis' = [redis EXCEPT ![KeyOf(r)] = Rendered(r)] /\ memory' = memory
              \/ memory' = [memory EXCEPT ![KeyOf(r)] = Rendered(r)] /\ redis' = redis
    BY DEF Write, NotStored, StoreInMemory, StartWrite, WriteLands, WriteFails
  <2>2. CASE redis' = redis /\ memory' = memory
    BY <2>2 DEF IInv, Typed
  <2>3. CASE request[r].at \in {"origin", "writing"} /\ memory' = memory
             /\ redis' = [redis EXCEPT ![KeyOf(r)] = Rendered(r)]
    BY <2>3, RequestType, StoreStep DEF IInv, Typed
  <2>4. CASE request[r].at \in {"origin", "writing"} /\ redis' = redis
             /\ memory' = [memory EXCEPT ![KeyOf(r)] = Rendered(r)]
    BY <2>4, RequestType, StoreStep DEF IInv, Typed
  <2> QED
    BY <2>1, <2>2, <2>3, <2>4
<1> QED
  BY <1>1, <1>2, <1>3 DEF IInv, Typed, LabelBehind, Filed

-----------------------------------------------------------------------------
LEMMA InitIInv == Init => IInv
<1> SUFFICES ASSUME Init PROVE IInv
  OBVIOUS
<1>1. Typed
  <2>1. site \in Configs
    BY CacheAssumption DEF Init, Configs, Labels
  <2>2. request \in [Requests -> Request]
    BY DEF Init, Request
  <2>3. message \in BOOLEAN /\ redisUp \in BOOLEAN
    BY DEF Init
  <2> QED
    BY <2>1, <2>2, <2>3, CacheAssumption DEF Init, Typed
<1>2. Counted
  <2>1. Writing = {}
    BY DEF Init, Idle, Writing
  <2> QED
    BY <2>1, FS_EmptySet, CacheAssumption DEF Init, Counted
<1>3. LabelBehind /\ Filed(redis) /\ Filed(memory)
  BY DEF Init, LabelBehind, Filed
<1> QED
  BY <1>1, <1>2, <1>3 DEF IInv

LEMMA Inductive == Spec => []IInv
<1>1. IInv /\ [Next]_vars => IInv'
  <2> SUFFICES ASSUME IInv, [Next]_vars PROVE IInv'
    OBVIOUS
  <2>1. CASE UNCHANGED vars
    BY <2>1 DEF vars, IInv, Typed, Counted, Writing, LabelBehind, Filed
  <2> QED
    BY <2>1, Cases, ConfigSound, StoreSound, LookupSound, WriteSound
<1> QED
  BY InitIInv, <1>1, PTL DEF Spec

-----------------------------------------------------------------------------
\* Type correctness and the exact counter of pending writes, for any number of
\* requests and any limit.
THEOREM TypeCorrect == Spec => []TypeOK
<1>1. IInv => TypeOK
  BY TypeSplit DEF IInv
<1> QED
  BY <1>1, Inductive, PTL

\* Whatever flushes miss and late writes bring back, no page is served under a
\* label other than the one it was rendered under.
THEOREM OlderLabelsUnreachable == Spec => []NoPageOfAnOlderLabel
<1>1. IInv => NoPageOfAnOlderLabel
  <2> SUFFICES ASSUME IInv, NEW p \in Paths, Served(p) # None
               PROVE  Served(p).config.label = ram.label
    BY DEF NoPageOfAnOlderLabel
  <2>1. ram # None /\ Served(p) = Store[Key(p, ram)]
    BY DEF Served
  <2>2. Key(p, ram) \in Keys /\ Key(p, ram).label = ram.label
    BY <2>1, KeyType DEF IInv, Typed
  <2>3. Filed(Store)
    BY DEF Store, IInv
  <2> QED
    BY <2>1, <2>2, <2>3 DEF Filed
<1> QED
  BY <1>1, Inductive, PTL
=============================================================================
