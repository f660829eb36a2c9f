----------------------- MODULE UpstreamRequests_proof -----------------------
(***************************************************************************)
(* Proofs about UpstreamRequests for any set of requests, any finite set   *)
(* of origins, and any size of the pool.                                   *)
(***************************************************************************)
EXTENDS UpstreamRequests, FiniteSetTheorems, SequenceTheorems, TLAPS

\* No origin is twice in the order of displacement.
Distinct == \A i, j \in 1..Len(recent) : recent[i] = recent[j] => i = j

\* The order of displacement is that of the cached origins.
Ordered ==
    /\ Distinct
    /\ {recent[i] : i \in 1..Len(recent)} = Cached
    /\ Len(recent) = Cardinality(Cached)

\* The cached agents are live, and one origin's each.
Entries ==
    /\ \A o \in Origins : pool[o] \in 0..Len(agent)
    /\ \A o \in Cached : agent[pool[o]] = "live"
    /\ \A o, p \in Cached : pool[o] = pool[p] => o = p

PoolTyped ==
    /\ pool \in [Origins -> 0..MaxAgents]
    /\ recent \in Seq(Origins)
    /\ agent \in Seq({"live", "closing", "destroyed"}) /\ Len(agent) <= MaxAgents

PoolInv == PoolTyped /\ Ordered /\ Entries /\ Cardinality(Cached) <= MaxEntries

\* A request that has not ended has not been recorded, and its agent exists.
Requesting ==
    /\ request \in [Requests -> Request]
    /\ \A r \in Requests : request[r].at # "done" => request[r].metrics = 0
    /\ \A r \in Requests :
          InFlight(r) => request[r].origin \in Origins /\ request[r].agent \in 1..Len(agent)

IInv == PoolInv /\ Requesting

LEMMA CachedFinite == IsFiniteSet(Cached) /\ Cached \subseteq Origins
BY PoolAssumption, FS_Subset DEF Cached

-----------------------------------------------------------------------------
\* The sequence without an element that it has once.
LEMMA Removal ==
    ASSUME NEW S, NEW s \in Seq(S), NEW k \in 1..Len(s),
           \A i, j \in 1..Len(s) : s[i] = s[j] => i = j
    PROVE  LET t == RemoveFirst(s, s[k])
           IN  /\ t \in Seq(S) /\ Len(t) = Len(s) - 1
               /\ \A i \in 1..Len(s) - 1 : t[i] = IF i < k THEN s[i] ELSE s[i + 1]
<1>1. {i \in 1..Len(s) : s[i] = s[k]} = {k}
  OBVIOUS
<1>2. SelectInSeq(s, LAMBDA v : v = s[k]) = k
  BY <1>1 DEF SelectInSeq, Min
<1>3. RemoveFirst(s, s[k]) = SubSeq(s, 1, k - 1) \o SubSeq(s, k + 1, Len(s))
  BY <1>2 DEF RemoveFirst, RemoveAt
<1> DEFINE front == SubSeq(s, 1, k - 1)
           back == SubSeq(s, k + 1, Len(s))
<1>4. /\ front \in Seq(S) /\ Len(front) = k - 1
      /\ \A i \in 1..k - 1 : front[i] = s[i]
  <2>1. \A i \in 1..k - 1 : s[i] \in S
    BY ElementOfSeq
  <2> QED
    BY <2>1, SubSeqProperties
<1>5. /\ back \in Seq(S) /\ Len(back) = Len(s) - k
      /\ \A i \in 1..Len(s) - k : back[i] = s[k + i]
  <2>1. \A i \in k + 1..Len(s) : s[i] \in S
    BY ElementOfSeq
  <2>2. /\ back \in Seq(S) /\ Len(back) = IF k + 1 <= Len(s) THEN Len(s) - (k + 1) + 1 ELSE 0
        /\ \A i \in 1..Len(s) - (k + 1) + 1 : back[i] = s[k + 1 + i - 1]
    BY <2>1, SubSeqProperties
  <2> QED
    BY <2>2
<1> HIDE DEF front, back
<1>6. /\ front \o back \in Seq(S) /\ Len(front \o back) = Len(s) - 1
      /\ \A i \in 1..Len(s) - 1 :
            (front \o back)[i] = IF i <= k - 1 THEN front[i] ELSE back[i - (k - 1)]
  BY <1>4, <1>5, ConcatProperties
<1> DEFINE t == front \o back
<1>7. ASSUME NEW i \in 1..Len(s) - 1, i < k
      PROVE  t[i] = s[i]
  BY <1>4, <1>6, <1>7
<1>8. ASSUME NEW i \in 1..Len(s) - 1, ~(i < k)
      PROVE  t[i] = s[i + 1]
  <2>1. i - (k - 1) \in 1..Len(s) - k /\ k + (i - (k - 1)) = i + 1
    BY <1>8
  <2> QED
    BY <1>5, <1>6, <1>8, <2>1
<1>9. t \in Seq(S) /\ Len(t) = Len(s) - 1
  BY <1>6
<1>10. t = RemoveFirst(s, s[k])
  BY <1>3 DEF front, back
<1> HIDE DEF t
<1>11. \A i \in 1..Len(s) - 1 : t[i] = IF i < k THEN s[i] ELSE s[i + 1]
  BY <1>7, <1>8
<1> QED
  BY <1>9, <1>10, <1>11

\* One entry of the pool goes and its agent is not cached any more.
LEMMA EntryRemoved ==
    ASSUME PoolInv, NEW o \in Cached, NEW fate \in {"closing", "destroyed"},
           RemoveEntry(o, fate)
    PROVE  PoolInv'
<1> USE DEF PoolInv, PoolTyped
<1>0. Len(recent) \in Nat
  OBVIOUS
<1>1. PICK k \in 1..Len(recent) : recent[k] = o
  BY DEF Ordered
<1> DEFINE From(x) == IF x < k THEN x ELSE x + 1
<1>2. /\ recent' \in Seq(Origins) /\ Len(recent') = Len(recent) - 1
      /\ \A i \in 1..Len(recent) - 1 : recent'[i] = IF i < k THEN recent[i] ELSE recent[i + 1]
  BY <1>1, Removal DEF RemoveEntry, Ordered, Distinct
<1>9. ASSUME NEW i \in 1..Len(recent')
      PROVE  From(i) \in 1..Len(recent) /\ From(i) # k /\ recent'[i] = recent[From(i)] /\ i \in Int
  <2>1. i \in 1..Len(recent) - 1 /\ i \in Int /\ k \in Int
    BY <1>0, <1>2
  <2>2. CASE i < k
    <3>1. From(i) = i /\ i # k
      BY <2>1, <2>2
    <3>2. i \in 1..Len(recent) /\ recent'[i] = recent[i]
      BY <1>0, <1>2, <2>1, <2>2
    <3> QED
      BY <3>1, <3>2
  <2>3. CASE ~(i < k)
    BY <1>0, <1>2, <2>1, <2>3
  <2> QED
    BY <2>2, <2>3
<1>3. Cached' = Cached \ {o}
  BY DEF Cached, RemoveEntry
<1>4. Cardinality(Cached') = Cardinality(Cached) - 1 /\ Cardinality(Cached) \in Nat
  BY <1>3, CachedFinite, FS_RemoveElement, FS_CardinalityType
<1>5. Ordered'
  <2>1. Distinct'
    <3> SUFFICES ASSUME NEW i \in 1..Len(recent'), NEW j \in 1..Len(recent'),
                        recent'[i] = recent'[j]
                 PROVE  i = j
      BY DEF Distinct
    <3>1. /\ From(i) \in 1..Len(recent) /\ From(j) \in 1..Len(recent)
          /\ recent'[i] = recent[From(i)] /\ recent'[j] = recent[From(j)]
      BY <1>9
    <3>2. From(i) = From(j)
      <4> HIDE DEF From
      <4> QED
        BY <3>1 DEF Ordered, Distinct
    <3>3. i \in Int /\ j \in Int /\ k \in Int
      BY <1>0, <1>9
    <3> QED
      BY <3>2, <3>3
  <2>2. {recent'[i] : i \in 1..Len(recent')} = Cached'
    <3>1. ASSUME NEW i \in 1..Len(recent')
          PROVE  recent'[i] \in Cached'
      <4>1. \E j \in 1..Len(recent) : j # k /\ recent'[i] = recent[j]
        BY <1>9
      <4> QED
        BY <4>1, <1>1, <1>3 DEF Ordered, Distinct
    <3>2. ASSUME NEW x \in Cached'
          PROVE  \E i \in 1..Len(recent') : recent'[i] = x
      <4>1. PICK j \in 1..Len(recent) : recent[j] = x /\ j # k
        BY <1>1, <1>3 DEF Ordered
      <4>2. CASE j < k
        <5>1. j \in 1..Len(recent') /\ recent'[j] = x
          BY <1>2, <4>1, <4>2
        <5> QED
          BY <5>1
      <4>3. CASE j > k
        <5>1. j - 1 \in 1..Len(recent') /\ recent'[j - 1] = x
          BY <1>2, <4>1, <4>3
        <5> QED
          BY <5>1
      <4> QED
        BY <4>1, <4>2, <4>3
    <3> QED
      BY <3>1, <3>2
  <2> QED
    BY <1>2, <1>4, <2>1, <2>2 DEF Ordered
<1>6. /\ agent' \in Seq({"live", "closing", "destroyed"}) /\ Len(agent') = Len(agent)
      /\ \A a \in 1..Len(agent) : a # pool[o] => agent'[a] = agent[a]
  <2>1. pool[o] \in 1..Len(agent)
    BY CachedFinite DEF Entries, Cached
  <2> QED
    BY <2>1, ExceptSeq DEF RemoveEntry
<1>7. /\ pool' \in [Origins -> 0..MaxAgents]
      /\ \A x \in Origins : x # o => pool'[x] = pool[x]
      /\ pool'[o] = 0
  BY PoolAssumption, CachedFinite DEF RemoveEntry
<1>8. Entries'
  <2>1. \A x \in Origins : pool'[x] \in 0..Len(agent')
    <3>1. o \in Origins /\ Len(agent) \in Nat
      BY CachedFinite
    <3>2. \A x \in Origins : pool'[x] \in {0, pool[x]}
      BY <3>1, <1>7
    <3>3. \A x \in Origins : pool[x] \in 0..Len(agent)
      BY DEF Entries
    <3> QED
      BY <3>1, <3>2, <3>3, <1>6
  <2>2. \A x \in Cached' : pool'[x] = pool[x] /\ x \in Cached /\ x # o
    BY <1>3, <1>7, CachedFinite
  <2>3. ASSUME NEW x \in Cached'
        PROVE  agent'[pool'[x]] = "live"
    <3>1. pool[x] # pool[o] /\ pool[x] \in 1..Len(agent)
      BY <2>2, CachedFinite DEF Entries, Cached
    <3> QED
      BY <3>1, <2>2, <1>6 DEF Entries
  <2> QED
    BY <2>1, <2>2, <2>3 DEF Entries
<1> QED
  BY <1>2, <1>3, <1>4, <1>5, <1>6, <1>7, <1>8, PoolAssumption

\* Using an entry again changes only its place.
LEMMA EntryTouched ==
    ASSUME PoolInv, NEW k \in DOMAIN recent, Touch(k), UNCHANGED <<pool, agent>>
    PROVE  PoolInv'
<1> USE DEF PoolInv, PoolTyped
<1>1. PICK l \in k..Len(recent) :
         recent' = [i \in DOMAIN recent |->
                       IF i \in k..l - 1 THEN recent[i + 1]
                       ELSE IF i = l THEN recent[k] ELSE recent[i]]
  BY DEF Touch
<1>2. DOMAIN recent = 1..Len(recent) /\ k \in 1..Len(recent) /\ Len(recent) \in Nat
  OBVIOUS
<1>3. recent' \in Seq(Origins) /\ Len(recent') = Len(recent)
  BY <1>1, <1>2
<1>4. \A i \in 1..Len(recent) :
         recent'[i] = IF i \in k..l - 1 THEN recent[i + 1]
                      ELSE IF i = l THEN recent[k] ELSE recent[i]
  BY <1>1, <1>2
<1>5. Distinct'
  <2> SUFFICES ASSUME NEW i \in 1..Len(recent'), NEW j \in 1..Len(recent'),
                      recent'[i] = recent'[j]
               PROVE  i = j
    BY DEF Distinct
  <2> DEFINE From(x) == IF x \in k..l - 1 THEN x + 1 ELSE IF x = l THEN k ELSE x
  <2>1. From(i) \in 1..Len(recent) /\ From(j) \in 1..Len(recent)
    BY <1>2, <1>3
  <2>2. recent'[i] = recent[From(i)] /\ recent'[j] = recent[From(j)]
    BY <1>2, <1>3, <1>4
  <2>3. From(i) = From(j)
    <3> HIDE DEF From
    <3> QED
      BY <2>1, <2>2 DEF Ordered, Distinct
  <2>4. i \in Int /\ j \in Int /\ k \in Int /\ l \in Int /\ k <= l
    BY <1>2, <1>3
  <2> QED
    BY <2>3, <2>4
<1>6. {recent'[i] : i \in 1..Len(recent')} = {recent[i] : i \in 1..Len(recent)}
  <2>1. \A i \in 1..Len(recent) : \E j \in 1..Len(recent) : recent'[i] = recent[j]
    BY <1>2, <1>4
  <2>2. ASSUME NEW j \in 1..Len(recent)
        PROVE  \E i \in 1..Len(recent) : recent'[i] = recent[j]
    <3>1. CASE j = k
      <4>1. l \in 1..Len(recent) /\ recent'[l] = recent[j]
        BY <1>2, <1>4, <3>1
      <4> QED
        BY <4>1
    <3>2. CASE j \in k + 1..l
      <4>1. j - 1 \in 1..Len(recent) /\ j - 1 \in k..l - 1 /\ (j - 1) + 1 = j
        BY <1>2, <3>2
      <4>2. recent'[j - 1] = recent[j]
        BY <1>4, <4>1
      <4> QED
        BY <4>1, <4>2
    <3>3. CASE j < k \/ j > l
      <4>1. recent'[j] = recent[j]
        BY <1>2, <1>4, <3>3
      <4> QED
        BY <4>1
    <3> QED
      BY <1>2, <3>1, <3>2, <3>3
  <2> QED
    <3>1. \A x : (\E i \in 1..Len(recent) : x = recent'[i]) <=> (\E j \in 1..Len(recent) : x = recent[j])
      BY <2>1, <2>2
    <3> QED
      BY <1>3, <3>1
<1>7. Cached' = Cached
  BY DEF Cached
<1> QED
  BY <1>3, <1>5, <1>6, <1>7 DEF Ordered, Entries

\* A new agent is added, and at the limit the first of the order goes for it.
LEMMA EntryAdded ==
    ASSUME PoolInv, NEW o \in Origins, CreateAgent(o), Len(agent) < MaxAgents
    PROVE  /\ PoolInv'
           /\ pool'[o] = Len(agent) + 1 /\ Len(agent') = Len(agent) + 1
           /\ \A a \in 1..Len(agent) : agent'[a] \in {agent[a], "closing"}
<1> USE DEF PoolInv, PoolTyped
<1> DEFINE m == Len(agent) + 1
<1>1. /\ Len(agent) \in Nat /\ Len(recent) \in Nat /\ Cardinality(Cached) \in Nat
      /\ m \in 1..MaxAgents /\ pool[o] = 0 /\ o \notin Cached
  BY CachedFinite, FS_CardinalityType, PoolAssumption DEF CreateAgent, Cached
<1>2. CASE Cardinality(Cached) < MaxEntries
  <2>1. /\ pool' = [pool EXCEPT ![o] = m] /\ recent' = Append(recent, o)
        /\ agent' = Append(agent, "live")
    BY <1>2, <1>1, PoolAssumption DEF CreateAgent
  <2>2. /\ recent' \in Seq(Origins) /\ Len(recent') = Len(recent) + 1
        /\ \A i \in 1..Len(recent) : recent'[i] = recent[i]
        /\ recent'[Len(recent) + 1] = o
    BY <2>1, AppendProperties
  <2>3. /\ agent' \in Seq({"live", "closing", "destroyed"}) /\ Len(agent') = m
        /\ \A a \in 1..Len(agent) : agent'[a] = agent[a]
        /\ agent'[m] = "live"
    BY <2>1, AppendProperties
  <2>4. /\ pool' \in [Origins -> 0..MaxAgents] /\ pool'[o] = m
        /\ \A x \in Origins : x # o => pool'[x] = pool[x]
    BY <1>1, <2>1
  <2>5. Cached' = Cached \cup {o}
    BY <1>1, <2>4 DEF Cached
  <2>6. Cardinality(Cached') = Cardinality(Cached) + 1
    BY <1>1, <2>5, CachedFinite, FS_AddElement
  <2>7. Ordered'
    <3>1. \A i \in 1..Len(recent) : recent[i] # o
      BY <1>1 DEF Ordered
    <3>2. \A i \in 1..Len(recent') : i \in 1..Len(recent) \/ i = Len(recent) + 1
      BY <1>1, <2>2
    <3>3. Distinct'
      BY <2>2, <3>1, <3>2 DEF Ordered, Distinct
    <3>4. {recent'[i] : i \in 1..Len(recent')} = {recent[i] : i \in 1..Len(recent)} \cup {o}
      <4>1. 1..Len(recent') = 1..Len(recent) \cup {Len(recent) + 1}
        BY <1>1, <2>2
      <4> QED
        BY <2>2, <4>1
    <3> QED
      BY <2>2, <2>5, <2>6, <3>3, <3>4 DEF Ordered
  <2>8. Entries'
    <3>1. \A x \in Origins : pool'[x] \in 0..Len(agent')
      BY <1>1, <2>3, <2>4 DEF Entries
    <3>2. ASSUME NEW x \in Cached', x # o
          PROVE  x \in Cached /\ x \in Origins /\ pool'[x] = pool[x]
      <4>1. x \in Cached
        BY <2>5, <3>2
      <4> QED
        BY <4>1, <2>4, <3>2, CachedFinite
    <3>3. \A x \in Cached : pool[x] \in 1..Len(agent)
      BY <1>1, CachedFinite DEF Entries, Cached
    <3>4. ASSUME NEW x \in Cached'
          PROVE  agent'[pool'[x]] = "live"
      <4>1. CASE x = o
        BY <2>3, <2>4, <4>1
      <4>2. CASE x # o
        <5>1. x \in Cached /\ pool'[x] = pool[x] /\ pool[x] \in 1..Len(agent)
          BY <3>2, <3>3, <4>2
        <5> QED
          BY <5>1, <2>3 DEF Entries
      <4> QED
        BY <4>1, <4>2
    <3>5. \A x \in Cached : pool[x] # m
      BY <1>1, <3>3
    <3>6. \A x, y \in Cached' : pool'[x] = pool'[y] => x = y
      BY <2>4, <3>2, <3>5 DEF Entries
    <3> QED
      BY <3>1, <3>4, <3>6 DEF Entries
  <2>9. Cardinality(Cached') <= MaxEntries
    BY <1>1, <1>2, <2>6, PoolAssumption
  <2> QED
    BY <1>1, <2>2, <2>3, <2>4, <2>7, <2>8, <2>9
<1>3. CASE Cardinality(Cached) >= MaxEntries
  <2> DEFINE h == Head(recent)
             closed == [agent EXCEPT ![pool[h]] = "closing"]
  <2>1. /\ pool' = [pool EXCEPT ![h] = 0, ![o] = m] /\ recent' = Append(Tail(recent), o)
        /\ agent' = Append(closed, "live")
    BY <1>3, <1>1, PoolAssumption DEF CreateAgent
  <2>2. recent # <<>> /\ 1 \in 1..Len(recent) /\ h = recent[1]
    BY <1>1, <1>3, PoolAssumption DEF Ordered
  <2>3. h \in Cached /\ h \in Origins /\ h # o /\ pool[h] \in 1..Len(agent)
    <3>1. h \in Cached
      BY <2>2 DEF Ordered
    <3> QED
      BY <3>1, <1>1, CachedFinite DEF Entries, Cached
  <2> HIDE DEF h, closed
  <2>4. /\ closed \in Seq({"live", "closing", "destroyed"}) /\ Len(closed) = Len(agent)
        /\ \A a \in 1..Len(agent) : closed[a] = IF a = pool[h] THEN "closing" ELSE agent[a]
    BY <2>3, ExceptSeq DEF closed
  <2>5. /\ agent' \in Seq({"live", "closing", "destroyed"}) /\ Len(agent') = m
        /\ \A a \in 1..Len(agent) : agent'[a] = closed[a]
        /\ agent'[m] = "live"
    BY <2>1, <2>4, AppendProperties
  <2>6. /\ Tail(recent) \in Seq(Origins) /\ Len(Tail(recent)) = Len(recent) - 1
        /\ \A i \in 1..Len(recent) - 1 : Tail(recent)[i] = recent[i + 1]
    BY <2>2, HeadTailProperties
  <2>7. /\ recent' \in Seq(Origins) /\ Len(recent') = Len(recent)
        /\ \A i \in 1..Len(recent) - 1 : recent'[i] = recent[i + 1]
        /\ recent'[Len(recent)] = o
    <3>1. /\ recent' \in Seq(Origins) /\ Len(recent') = Len(Tail(recent)) + 1
          /\ \A i \in 1..Len(Tail(recent)) : recent'[i] = Tail(recent)[i]
          /\ recent'[Len(Tail(recent)) + 1] = o
      BY <2>1, <2>6, AppendProperties
    <3>2. Len(Tail(recent)) + 1 = Len(recent)
      BY <1>1, <2>6
    <3> QED
      BY <2>6, <3>1, <3>2
  <2>8. /\ pool' \in [Origins -> 0..MaxAgents] /\ pool'[o] = m /\ pool'[h] = 0
        /\ \A x \in Origins : x # o /\ x # h => pool'[x] = pool[x]
    <3>1. pool' \in [Origins -> 0..MaxAgents]
      <4>1. 0 \in 0..MaxAgents /\ m \in 0..MaxAgents
        BY <1>1, PoolAssumption
      <4> HIDE DEF m
      <4> QED
        BY <2>1, <4>1
    <3> QED
      BY <2>1, <2>3, <3>1
  <2>9. Cached' = (Cached \ {h}) \cup {o}
    BY <1>1, <2>8, <2>3 DEF Cached
  <2>10. Cardinality(Cached') = Cardinality(Cached)
    <3>1. IsFiniteSet(Cached \ {h}) /\ Cardinality(Cached \ {h}) = Cardinality(Cached) - 1
      BY <2>3, CachedFinite, FS_RemoveElement
    <3>2. Cardinality((Cached \ {h}) \cup {o}) = (Cardinality(Cached) - 1) + 1
      <4>1. o \notin Cached \ {h}
        BY <1>1
      <4> QED
        BY <4>1, <3>1, FS_AddElement
    <3> QED
      BY <1>1, <2>9, <3>2
  <2>11. Ordered'
    <3>1. \A i \in 1..Len(recent) : recent[i] # o
      BY <1>1 DEF Ordered
    <3>2. \A i \in 1..Len(recent') : i # Len(recent) => i \in 1..Len(recent) - 1 /\ i + 1 \in 1..Len(recent)
      <4> SUFFICES ASSUME NEW i \in 1..Len(recent'), i # Len(recent)
                   PROVE  i \in 1..Len(recent) - 1 /\ i + 1 \in 1..Len(recent)
        OBVIOUS
      <4>1. i \in 1..Len(recent)
        BY <2>7
      <4> QED
        BY <1>1, <4>1
    <3>3. Distinct'
      <4> SUFFICES ASSUME NEW i \in 1..Len(recent'), NEW j \in 1..Len(recent'),
                          recent'[i] = recent'[j]
                   PROVE  i = j
        BY DEF Distinct
      <4>1. CASE i = Len(recent) \/ j = Len(recent)
        BY <2>7, <3>1, <3>2, <4>1
      <4>2. CASE i # Len(recent) /\ j # Len(recent)
        <5>1. recent[i + 1] = recent[j + 1] /\ i + 1 \in 1..Len(recent) /\ j + 1 \in 1..Len(recent)
          BY <2>7, <3>2, <4>2
        <5>2. i + 1 = j + 1
          BY <5>1 DEF Ordered, Distinct
        <5> QED
          BY <5>2, <2>7
      <4> QED
        BY <4>1, <4>2
    <3>4. \A i \in 1..Len(recent') : recent'[i] \in Cached'
      <4>1. ASSUME NEW i \in 1..Len(recent) - 1
            PROVE  recent[i + 1] \in Cached /\ recent[i + 1] # h
        <5>1. i + 1 \in 1..Len(recent) /\ i + 1 # 1
          BY <1>1
        <5> QED
          BY <5>1, <2>2 DEF Ordered, Distinct
      <4> QED
        BY <2>7, <2>9, <3>2, <4>1
    <3>5. ASSUME NEW x \in Cached'
          PROVE  \E i \in 1..Len(recent') : recent'[i] = x
      <4>1. CASE x = o
        BY <2>2, <2>7, <4>1
      <4>2. CASE x \in Cached /\ x # h
        <5>1. PICK j \in 1..Len(recent) : recent[j] = x
          BY <4>2 DEF Ordered
        <5>2. j # 1
          BY <5>1, <4>2, <2>2
        <5>3. j - 1 \in 1..Len(recent) - 1 /\ (j - 1) + 1 = j /\ j - 1 \in 1..Len(recent')
          BY <1>1, <5>2, <2>7
        <5>4. recent'[j - 1] = x
          BY <5>1, <5>3, <2>7
        <5> QED
          BY <5>3, <5>4
      <4> QED
        BY <2>9, <4>1, <4>2
    <3> QED
      BY <2>7, <2>10, <3>3, <3>4, <3>5 DEF Ordered
  <2>12. Entries'
    <3>1. \A x \in Origins : pool'[x] \in 0..Len(agent')
      <4>1. \A x \in Origins : pool[x] \in 0..Len(agent)
        BY DEF Entries
      <4>2. \A x \in Origins : pool'[x] \in {0, m, pool[x]}
        BY <2>8
      <4>3. \A a \in 0..Len(agent) : a \in 0..m
        BY <1>1
      <4>4. 0 \in 0..m /\ m \in 0..m
        BY <1>1
      <4> QED
        BY <2>5, <4>1, <4>2, <4>3, <4>4
    <3>2. ASSUME NEW x \in Cached', x # o
          PROVE  x \in Cached /\ x # h /\ pool'[x] = pool[x]
      <4>1. x \in Cached /\ x # h
        BY <2>9, <3>2
      <4> QED
        BY <4>1, <2>8, <3>2, CachedFinite
    <3>3. \A x \in Cached : pool[x] \in 1..Len(agent)
      BY <1>1, CachedFinite DEF Entries, Cached
    <3>4. ASSUME NEW x \in Cached, x # h
          PROVE  agent'[pool[x]] = "live"
      <4>1. pool[x] # pool[h]
        BY <3>4, <2>3 DEF Entries
      <4> QED
        BY <4>1, <3>3, <2>4, <2>5 DEF Entries
    <3>5. \A x \in Cached' : agent'[pool'[x]] = "live"
      BY <2>5, <2>8, <3>2, <3>4
    <3>6. \A x \in Cached : pool[x] # m
      BY <1>1, <3>3
    <3>7. \A x, y \in Cached' : pool'[x] = pool'[y] => x = y
      BY <2>8, <3>2, <3>6 DEF Entries
    <3> QED
      BY <3>1, <3>5, <3>7 DEF Entries
  <2> QED
    BY <1>1, <1>3, <2>4, <2>5, <2>7, <2>8, <2>10, <2>11, <2>12, PoolAssumption
<1> QED
  BY <1>1, <1>2, <1>3, PoolAssumption

-----------------------------------------------------------------------------
LEMMA PoolUnchanged == ASSUME PoolInv, UNCHANGED poolVars PROVE PoolInv'
<1>1. Cached' = Cached
  BY DEF Cached, poolVars
<1>2. PoolTyped' /\ Ordered' /\ Entries'
  BY <1>1 DEF poolVars, PoolInv, PoolTyped, Ordered, Distinct, Entries
<1> QED
  BY <1>1, <1>2 DEF PoolInv

LEMMA GetSound ==
    ASSUME PoolInv, NEW o \in Origins, GetOrCreateAgent(o)
    PROVE  /\ PoolInv'
           /\ pool'[o] \in 1..Len(agent') /\ Len(agent') >= Len(agent)
           /\ \A a \in 1..Len(agent) : agent'[a] \in {agent[a], "closing"}
<1>1. Len(agent) \in Nat
  BY DEF PoolInv, PoolTyped
<1>2. CASE pool[o] # 0 /\ (\E k \in DOMAIN recent : recent[k] = o /\ Touch(k)) /\ UNCHANGED <<pool, agent>>
  <2>1. PoolInv'
    BY <1>2, EntryTouched
  <2>2. pool[o] \in 1..Len(agent)
    BY <1>1, <1>2 DEF PoolInv, Entries
  <2> QED
    BY <1>1, <1>2, <2>1, <2>2
<1>3. CASE CreateAgent(o) /\ Len(agent) < MaxAgents
  BY <1>1, <1>3, EntryAdded
<1> QED
  BY <1>2, <1>3 DEF GetOrCreateAgent

LEMMA DestroySound ==
    ASSUME PoolInv, NEW o \in Origins, DestroyAgent(o)
    PROVE  /\ PoolInv' /\ Len(agent') = Len(agent)
           /\ \A a \in 1..Len(agent) : agent'[a] # agent[a] => pool[o] = a
<1>1. CASE pool[o] # 0 /\ RemoveEntry(o, "destroyed")
  <2>1. o \in Cached
    BY <1>1 DEF Cached
  <2>2. PoolInv'
    BY <1>1, <2>1, EntryRemoved
  <2> QED
    BY <1>1, <2>2 DEF RemoveEntry, PoolInv, PoolTyped
<1>2. CASE pool[o] = 0 /\ UNCHANGED poolVars
  BY <1>2, PoolUnchanged DEF poolVars, PoolInv, PoolTyped
<1> QED
  BY <1>1, <1>2 DEF DestroyAgent

LEMMA CleanupSound ==
    ASSUME PoolInv, NEW o \in Origins, IdleCleanup(o)
    PROVE  /\ PoolInv' /\ Len(agent') = Len(agent)
           /\ \A a \in 1..Len(agent) : agent'[a] \in {agent[a], "closing"}
<1>1. o \in Cached /\ RemoveEntry(o, "closing")
  BY DEF IdleCleanup, Cached
<1>2. PoolInv'
  BY <1>1, EntryRemoved
<1> QED
  BY <1>1, <1>2 DEF RemoveEntry, PoolInv, PoolTyped

-----------------------------------------------------------------------------
\* The steps of a request after its start; only a timeout touches the pool.
Ends(r) == BodyEnds(r) \/ ConnectionLost(r) \/ ClientLeaves(r)

\* A request that is changed to f, at the same origin and on the same agent.
Becomes(r, f) ==
    /\ request' = [request EXCEPT ![r] = f]
    /\ f \in Request /\ f.origin = request[r].origin /\ f.agent = request[r].agent
    /\ f.at # "done" => InFlight(r) /\ f.metrics = 0

LEMMA FinishBecomes ==
    ASSUME Requesting, NEW r \in Requests,
           NEW how \in {"complete", "unrecorded", "error", "torn", "left"}
    PROVE  /\ Finish(r, how) => \E f : Becomes(r, f)
           /\ FinishRecorded(r, how) /\ InFlight(r) => \E f : Becomes(r, f)
<1>1. request \in [Requests -> Request] /\ request[r] \in Request
  BY DEF Requesting
<1>2. InFlight(r) => request[r].metrics = 0
  BY DEF Requesting, InFlight, Streaming
<1>3. ASSUME Finish(r, how) PROVE \E f : Becomes(r, f)
  <2> DEFINE f == [request[r] EXCEPT !.at = "done", !.timer = FALSE, !.end = how]
  <2>1. f \in Request /\ f.origin = request[r].origin /\ f.agent = request[r].agent /\ f.at = "done"
    BY <1>1 DEF Request
  <2>2. request' = [request EXCEPT ![r] = f]
    BY <1>1, <1>3 DEF Finish
  <2> HIDE DEF f
  <2> QED
    BY <2>1, <2>2 DEF Becomes
<1>4. ASSUME FinishRecorded(r, how), InFlight(r) PROVE \E f : Becomes(r, f)
  <2> DEFINE f == [request[r] EXCEPT !.at = "done", !.timer = FALSE, !.end = how, !.metrics = 1]
  <2>1. f \in Request /\ f.origin = request[r].origin /\ f.agent = request[r].agent /\ f.at = "done"
    <3>1. 1 \in 0..1
      OBVIOUS
    <3> QED
      BY <1>1, <3>1 DEF Request
  <2>2. request' = [request EXCEPT ![r] = f]
    <3>1. request[r].metrics + 1 = 1
      BY <1>2, <1>4
    <3> QED
      BY <1>1, <1>4, <3>1 DEF FinishRecorded, Request
  <2> HIDE DEF f
  <2> QED
    BY <2>1, <2>2 DEF Becomes
<1> QED
  BY <1>3, <1>4

\* What every step of a request after its start does to the request.
LEMMA RequestStep ==
    ASSUME Requesting, NEW r \in Requests,
           Ends(r) \/ TimesOut(r) \/ \E kind \in Streaming : Headers(r, kind)
    PROVE  \E f : Becomes(r, f)
<1>1. request \in [Requests -> Request] /\ request[r] \in Request
  BY DEF Requesting
<1>2. request[r].at # "done" => request[r].metrics = 0
  BY DEF Requesting
<1>3. ASSUME NEW kind \in Streaming, Headers(r, kind) PROVE \E f : Becomes(r, f)
  <2> DEFINE f == [request[r] EXCEPT !.at = kind]
  <2>1. f \in Request /\ f.origin = request[r].origin /\ f.agent = request[r].agent
        /\ f.metrics = request[r].metrics
    BY <1>1, <1>3 DEF Request, Streaming
  <2>2. request' = [request EXCEPT ![r] = f] /\ InFlight(r) /\ request[r].metrics = 0
    BY <1>1, <1>2, <1>3 DEF Headers, InFlight
  <2> HIDE DEF f
  <2> QED
    BY <2>1, <2>2 DEF Becomes
<1>4. ASSUME BodyEnds(r) PROVE \E f : Becomes(r, f)
  BY <1>4, FinishBecomes DEF BodyEnds, InFlight
<1>5. ASSUME request[r].at = "html", NEW timer \in BOOLEAN,
             request' = [request EXCEPT ![r] = [request[r] EXCEPT !.timer = timer, !.broken = TRUE]]
      PROVE  \E f : Becomes(r, f)
  <2> DEFINE f == [request[r] EXCEPT !.timer = timer, !.broken = TRUE]
  <2>1. f \in Request /\ f.origin = request[r].origin /\ f.agent = request[r].agent
        /\ f.metrics = request[r].metrics
    BY <1>1 DEF Request
  <2>2. InFlight(r) /\ request[r].metrics = 0
    BY <1>2, <1>5 DEF InFlight, Streaming
  <2>3. request' = [request EXCEPT ![r] = f]
    BY <1>5
  <2> HIDE DEF f
  <2> QED
    BY <2>1, <2>2, <2>3 DEF Becomes
<1>6. ASSUME ConnectionLost(r) PROVE \E f : Becomes(r, f)
  <2>1. CASE request[r].at = "headers" /\ FinishRecorded(r, "error")
    BY <2>1, FinishBecomes DEF InFlight
  <2>2. CASE Finish(r, "torn")
    BY <2>2, FinishBecomes
  <2>3. CASE request[r].at = "html" /\ request' = [request EXCEPT ![r].broken = TRUE]
    <3>1. request[r].timer \in BOOLEAN
      BY <1>1 DEF Request
    <3>2. request' = [request EXCEPT ![r] = [request[r] EXCEPT !.timer = request[r].timer, !.broken = TRUE]]
      BY <1>1, <2>3 DEF Request
    <3> QED
      BY <1>5, <2>3, <3>1, <3>2
  <2> QED
    BY <1>6, <2>1, <2>2, <2>3 DEF ConnectionLost, BodyFails
<1>7. ASSUME TimesOut(r) PROVE \E f : Becomes(r, f)
  <2>1. CASE request[r].at = "headers" /\ FinishRecorded(r, "error")
    BY <2>1, FinishBecomes DEF InFlight
  <2>2. CASE Finish(r, "torn")
    BY <2>2, FinishBecomes
  <2>3. CASE request[r].at = "html" /\ request' = [request EXCEPT ![r].timer = FALSE, ![r].broken = TRUE]
    <3>1. request' = [request EXCEPT ![r] = [request[r] EXCEPT !.timer = FALSE, !.broken = TRUE]]
      BY <1>1, <2>3 DEF Request
    <3> QED
      BY <1>5, <2>3, <3>1
  <2>4. CASE request[r].at = "done" /\ request' = [request EXCEPT ![r].timer = FALSE]
    <3> DEFINE f == [request[r] EXCEPT !.timer = FALSE]
    <3>1. f \in Request /\ f.origin = request[r].origin /\ f.agent = request[r].agent /\ f.at = "done"
      BY <1>1, <2>4 DEF Request
    <3>2. request' = [request EXCEPT ![r] = f]
      BY <1>1, <2>4
    <3> HIDE DEF f
    <3> QED
      BY <3>1, <3>2 DEF Becomes
  <2> QED
    BY <1>7, <2>1, <2>2, <2>3, <2>4 DEF TimesOut
<1>8. ASSUME ClientLeaves(r) PROVE \E f : Becomes(r, f)
  <2>1. CASE Finish(r, "left")
    BY <2>1, FinishBecomes
  <2>2. CASE request' = [request EXCEPT ![r].at = "done", ![r].end = "left"]
    <3> DEFINE f == [request[r] EXCEPT !.at = "done", !.end = "left"]
    <3>1. f \in Request /\ f.origin = request[r].origin /\ f.agent = request[r].agent /\ f.at = "done"
      BY <1>1 DEF Request
    <3>2. request' = [request EXCEPT ![r] = f]
      BY <1>1, <2>2 DEF Request
    <3> HIDE DEF f
    <3> QED
      BY <3>1, <3>2 DEF Becomes
  <2> QED
    BY <1>8, <2>1, <2>2 DEF ClientLeaves
<1> QED
  BY <1>3, <1>4, <1>6, <1>7, <1>8 DEF Ends

LEMMA BecomesSound ==
    ASSUME Requesting, NEW r \in Requests, NEW f, Becomes(r, f), Len(agent') >= Len(agent),
           Len(agent) \in Nat, Len(agent') \in Nat
    PROVE  Requesting'
<1>1. /\ request' \in [Requests -> Request] /\ request'[r] = f
      /\ \A x \in Requests : x # r => request'[x] = request[x]
  BY DEF Requesting, Becomes
<1>2. \A x \in Requests : request'[x].at # "done" => request'[x].metrics = 0
  BY <1>1 DEF Requesting, Becomes
<1>3. ASSUME NEW x \in Requests, InFlight(x)'
      PROVE  request'[x].origin \in Origins /\ request'[x].agent \in 1..Len(agent')
  <2>1. InFlight(x) /\ request'[x].origin = request[x].origin /\ request'[x].agent = request[x].agent
    <3>1. CASE x = r
      BY <1>1, <1>3, <3>1 DEF Becomes, InFlight, Streaming
    <3>2. CASE x # r
      BY <1>1, <1>3, <3>2 DEF InFlight
    <3> QED
      BY <3>1, <3>2
  <2> QED
    BY <2>1 DEF Requesting
<1> QED
  BY <1>1, <1>2, <1>3 DEF Requesting

LEMMA StartSound ==
    ASSUME IInv, NEW r \in Requests, NEW o \in Origins, Start(r, o)
    PROVE  IInv'
<1>1. PoolInv' /\ pool'[o] \in 1..Len(agent') /\ Len(agent') >= Len(agent)
  BY GetSound DEF IInv, Start
<1>2. Len(agent) \in Nat /\ Len(agent') \in Nat /\ pool'[o] \in 0..MaxAgents
  BY <1>1 DEF IInv, PoolInv, PoolTyped
<1> DEFINE f == [Idle EXCEPT !.at = "headers", !.origin = o, !.agent = pool'[o], !.timer = TRUE]
<1>3. f \in Request /\ f.at = "headers" /\ f.origin = o /\ f.agent = pool'[o] /\ f.metrics = 0
  <2>1. Idle \in Request /\ Idle.metrics = 0
    BY PoolAssumption DEF Idle, Request
  <2>2. f \in Request
    BY <1>2, <2>1 DEF Request
  <2>3. f.at = "headers" /\ f.origin = o /\ f.agent = pool'[o] /\ f.metrics = Idle.metrics
    BY <2>1 DEF Request
  <2> QED
    BY <2>1, <2>2, <2>3
<1>4. request' = [request EXCEPT ![r] = f]
  BY DEF Start
<1> HIDE DEF f
<1>5. /\ request' \in [Requests -> Request] /\ request'[r] = f
      /\ \A x \in Requests : x # r => request'[x] = request[x]
  BY <1>3, <1>4 DEF IInv, Requesting
<1>6. \A x \in Requests : request'[x].at # "done" => request'[x].metrics = 0
  BY <1>3, <1>5 DEF IInv, Requesting
<1>7. ASSUME NEW x \in Requests, InFlight(x)'
      PROVE  request'[x].origin \in Origins /\ request'[x].agent \in 1..Len(agent')
  <2>1. CASE x = r
    BY <1>1, <1>3, <1>5, <2>1
  <2>2. CASE x # r
    <3>1. request[x].origin \in Origins /\ request[x].agent \in 1..Len(agent)
      BY <1>5, <1>7, <2>2 DEF InFlight, IInv, Requesting
    <3> QED
      BY <3>1, <1>1, <1>2, <1>5, <2>2
  <2> QED
    BY <2>1, <2>2
<1> QED
  BY <1>1, <1>5, <1>6, <1>7 DEF IInv, Requesting

\* After its start, a request leaves the pool alone or destroys its origin's agent.
LEMMA PoolOrDestroy ==
    ASSUME NEW r \in Requests,
           Ends(r) \/ TimesOut(r) \/ \E kind \in Streaming : Headers(r, kind)
    PROVE  \/ UNCHANGED poolVars
           \/ /\ request[r].at = "headers" /\ FinishRecorded(r, "error")
              /\ DestroyAgent(request[r].origin)
<1>1. (Ends(r) \/ \E kind \in Streaming : Headers(r, kind)) => UNCHANGED poolVars
  BY DEF Ends, BodyEnds, ConnectionLost, ClientLeaves, Headers
<1>2. TimesOut(r) => \/ UNCHANGED poolVars
                     \/ /\ request[r].at = "headers" /\ FinishRecorded(r, "error")
                        /\ DestroyAgent(request[r].origin)
  BY DEF TimesOut
<1> QED
  BY <1>1, <1>2

LEMMA AfterStartSound ==
    ASSUME IInv, NEW r \in Requests,
           Ends(r) \/ TimesOut(r) \/ \E kind \in Streaming : Headers(r, kind)
    PROVE  IInv'
<1>1. PoolInv' /\ Len(agent') = Len(agent)
  <2>1. CASE UNCHANGED poolVars
    BY <2>1, PoolUnchanged DEF IInv, poolVars
  <2>2. CASE request[r].at = "headers" /\ DestroyAgent(request[r].origin)
    <3>1. request[r].origin \in Origins
      BY <2>2 DEF IInv, Requesting, InFlight
    <3> QED
      BY <2>2, <3>1, DestroySound DEF IInv
  <2> QED
    BY <2>1, <2>2, PoolOrDestroy
<1>2. Len(agent) \in Nat /\ Len(agent') \in Nat
  BY <1>1 DEF IInv, PoolInv, PoolTyped
<1>3. PICK f : Becomes(r, f)
  BY RequestStep DEF IInv
<1>4. Requesting'
  BY <1>1, <1>2, <1>3, BecomesSound DEF IInv
<1> QED
  BY <1>1, <1>4 DEF IInv

LEMMA IdleCleanupSound ==
    ASSUME IInv, NEW o \in Origins, IdleCleanup(o)
    PROVE  IInv'
<1>1. PoolInv' /\ Len(agent') = Len(agent) /\ request' = request
  BY CleanupSound DEF IInv, IdleCleanup
<1> QED
  BY <1>1 DEF IInv, Requesting, InFlight

-----------------------------------------------------------------------------
LEMMA Cases ==
    ASSUME Next
    PROVE  \/ \E r \in Requests, o \in Origins : Start(r, o)
           \/ \E r \in Requests : Ends(r) \/ TimesOut(r) \/ \E kind \in Streaming : Headers(r, kind)
           \/ \E o \in Origins : IdleCleanup(o)
BY DEF Next, Ends

LEMMA InitIInv == Init => IInv
<1> SUFFICES ASSUME Init PROVE IInv
  OBVIOUS
<1>1. Cached = {}
  BY DEF Init, Cached
<1>2. PoolTyped
  BY PoolAssumption DEF Init, PoolTyped
<1>3. Cardinality(Cached) = 0
  BY <1>1, FS_EmptySet
<1>4. Ordered
  BY <1>1, <1>3 DEF Init, Ordered, Distinct
<1>5. Entries
  BY <1>1 DEF Init, Entries
<1>6. Idle \in Request
  BY PoolAssumption DEF Idle, Request
<1>7. Requesting
  BY <1>6 DEF Init, Requesting, Idle, InFlight, Streaming
<1> QED
  BY <1>2, <1>3, <1>4, <1>5, <1>7, PoolAssumption DEF IInv, PoolInv

LEMMA Inductive == PoolSpec => []IInv
<1>1. IInv /\ [Next]_upstreamVars => IInv'
  <2> SUFFICES ASSUME IInv, [Next]_upstreamVars PROVE IInv'
    OBVIOUS
  <2>1. CASE Next
    BY <2>1, Cases, StartSound, AfterStartSound, IdleCleanupSound
  <2>2. CASE UNCHANGED upstreamVars
    <3>1. PoolInv' /\ UNCHANGED <<agent, request>>
      BY <2>2, PoolUnchanged DEF upstreamVars, poolVars, IInv
    <3> QED
      BY <3>1 DEF IInv, Requesting, InFlight
  <2> QED
    BY <2>1, <2>2
<1> QED
  BY InitIInv, <1>1, PTL DEF PoolSpec

-----------------------------------------------------------------------------
\* Type correctness: agents are numbered within the bound, no request is
\* recorded twice and the order of displacement names origins only.
THEOREM TypeCorrect == PoolSpec => []TypeOK
<1>1. IInv => TypeOK
  BY DEF IInv, PoolInv, PoolTyped, Requesting, TypeOK
<1> QED
  BY <1>1, Inductive, PTL

\* The pool hands out only live agents, each to one origin, and never holds more
\* than its size, however displacements, cleanups and timeouts interleave.
THEOREM PoolAlwaysSound == PoolSpec => []PoolSound
<1>1. IInv => PoolSound
  <2> SUFFICES ASSUME IInv PROVE PoolSound
    OBVIOUS
  <2>1. ToSet(recent) = {recent[i] : i \in 1..Len(recent)}
    BY DEF ToSet, IInv, PoolInv, PoolTyped
  <2> QED
    BY <2>1 DEF PoolSound, IInv, PoolInv, Ordered, Entries
<1> QED
  BY <1>1, Inductive, PTL

\* An agent is destroyed only by the timeout of a request that was waiting for
\* headers from the origin the pool then held the agent for.
THEOREM DestroyedByTimeoutsOnly == PoolSpec => OnlyTimeoutsDestroy
<1> DEFINE Blamed ==
      \A a \in DOMAIN agent :
         agent[a] # "destroyed" /\ agent'[a] = "destroyed" =>
            \E r \in Requests : /\ request[r].at = "headers" /\ request'[r].end = "error"
                                /\ pool[request[r].origin] = a
<1>1. IInv /\ [Next]_upstreamVars => [Blamed]_upstreamVars
  <2> SUFFICES ASSUME IInv, Next,
                      NEW a \in DOMAIN agent,
                      agent[a] # "destroyed", agent'[a] = "destroyed"
               PROVE  \E r \in Requests : /\ request[r].at = "headers" /\ request'[r].end = "error"
                                          /\ pool[request[r].origin] = a
    OBVIOUS
  <2>1. a \in 1..Len(agent)
    BY DEF IInv, PoolInv, PoolTyped
  <2>2. ASSUME NEW r \in Requests, NEW o \in Origins, Start(r, o) PROVE FALSE
    BY <2>1, <2>2, GetSound DEF Start, IInv
  <2>3. ASSUME NEW o \in Origins, IdleCleanup(o) PROVE FALSE
    BY <2>1, <2>3, CleanupSound DEF IInv
  <2>4. ASSUME NEW r \in Requests,
               Ends(r) \/ TimesOut(r) \/ \E kind \in Streaming : Headers(r, kind)
        PROVE  /\ request[r].at = "headers" /\ request'[r].end = "error"
               /\ pool[request[r].origin] = a
    <3>1. request[r].at = "headers" /\ FinishRecorded(r, "error") /\ DestroyAgent(request[r].origin)
      BY <2>4, PoolOrDestroy DEF poolVars
    <3>2. request[r].origin \in Origins
      BY <3>1 DEF IInv, Requesting, InFlight
    <3>3. pool[request[r].origin] = a
      BY <2>1, <3>1, <3>2, DestroySound DEF IInv
    <3>4. request'[r].end = "error"
      BY <3>1 DEF FinishRecorded, IInv, Requesting, Request
    <3> QED
      BY <3>1, <3>3, <3>4
  <2> QED
    BY <2>2, <2>3, <2>4, Cases
<1> QED
  BY <1>1, Inductive, PTL DEF PoolSpec, OnlyTimeoutsDestroy
=============================================================================
