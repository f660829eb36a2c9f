----------------------- MODULE ConfigResolver_proof -----------------------
(***************************************************************************)
(* Proofs about ConfigResolver for any number of editors, edits and        *)
(* faults: the types, and the soundness of revision labels.                *)
(***************************************************************************)
EXTENDS ConfigResolver, SequenceTheorems, TLAPS

\* One copy's label is no newer than the row's and its body holds everything
\* saved before the label was allocated.
SoundCopy(c) ==
    c # None => c.ver \in 1..version /\ floor[c.ver] <= c.body

\* The versions allocated so far, each at a moment the edits had not passed.
FloorInv ==
    /\ Len(floor) = version
    /\ \A v \in 1..version : floor[v] <= saves

EditorInv ==
    \A e \in Editors :
        /\ editor[e].pc = "labelled" => editor[e].ver \in 1..version
        /\ SoundCopy(editor[e].cfg)

TierInv ==
    /\ SoundCopy(laravel)
    /\ SoundCopy(redis)
    /\ SoundCopy(disk)
    /\ ram # None => SoundCopy(ram.cfg)
    /\ SoundCopy(fetch.prev)
    /\ SoundCopy(fetch.got)

\* The inductive invariant behind LabelSound.
IInv == TypeOK /\ FloorInv /\ EditorInv /\ TierInv

-----------------------------------------------------------------------------
LEMMA NoneFacts ==
    /\ None \notin Config
    /\ None \notin Entry
    /\ MaybeConfig = Config \cup {None}
BY NoneAssumption DEF Entry, MaybeConfig

\* A built configuration is well typed, and sound under any allocated label.
LEMMA BuildSound ==
    ASSUME TypeOK, FloorInv, NEW l \in 1..version
    PROVE  BuildConfig(l) \in MaybeConfig /\ SoundCopy(BuildConfig(l))
BY NoneFacts DEF TypeOK, FloorInv, BuildConfig, SoundCopy, Config

LEMMA BuildType ==
    ASSUME TypeOK, NEW l \in Nat
    PROVE  BuildConfig(l) \in MaybeConfig
BY NoneFacts DEF TypeOK, BuildConfig, Config

LEMMA InitIInv == Init => IInv
<1> SUFFICES ASSUME Init PROVE IInv
  OBVIOUS
<1> USE NoneFacts DEF Init, IdleEditor, IdleFetch
<1>1. TypeOK
  BY DEF TypeOK, EditorPC, FetchPhase, Message
<1>2. FloorInv
  BY DEF FloorInv
<1>3. EditorInv /\ TierInv
  BY DEF EditorInv, TierInv, SoundCopy
<1> QED
  BY <1>1, <1>2, <1>3 DEF IInv

\* Types: one step per action.
LEMMA TypeStep == TypeOK /\ [Next]_vars => TypeOK'
<1> SUFFICES ASSUME TypeOK, [Next]_vars PROVE TypeOK'
  OBVIOUS
<1> USE NoneFacts DEF TypeOK, Fault, IdleEditor, IdleFetch, tiers, domain
<1>1. ASSUME NEW e \in Editors, Save(e) PROVE TypeOK'
  <2>1. editor' \in [Editors -> [pc : EditorPC, ver : Nat, cfg : MaybeConfig]]
    BY <1>1 DEF Save, Step, EditorPC
  <2>2. saves' \in Nat /\ row' \in {"live", "off", "gone"}
    BY <1>1 DEF Save
  <2> QED
    BY <1>1, <2>1, <2>2 DEF Save
<1>2. ASSUME NEW e \in Editors, Delete(e) PROVE TypeOK'
  BY <1>2 DEF Delete, EditorPC
<1>3. ASSUME NEW e \in Editors, Increment(e) PROVE TypeOK'
  <2>1. editor' \in [Editors -> [pc : EditorPC, ver : Nat, cfg : MaybeConfig]]
    BY <1>3 DEF Increment, Step, EditorPC
  <2>2. Append(floor, saves) \in Seq(Nat)
    BY AppendProperties
  <2>3. version' \in Nat \ {0} /\ floor' \in Seq(Nat)
    <3>1. CASE row = "gone"
      BY <1>3, <3>1 DEF Increment
    <3>2. CASE row # "gone"
      <4>1. version' = version + 1 /\ floor' = Append(floor, saves)
        BY <1>3, <3>2 DEF Increment
      <4> QED
        BY <2>2, <4>1
    <3> QED
      BY <3>1, <3>2
  <2> QED
    BY <1>3, <2>1, <2>3 DEF Increment
<1>4. ASSUME NEW e \in Editors, ReadBack(e) PROVE TypeOK'
  BY <1>4 DEF ReadBack, EditorPC
<1>5. ASSUME NEW e \in Editors, Build(e) PROVE TypeOK'
  <2>1. BuildConfig(editor[e].ver) \in MaybeConfig
    BY BuildType
  <2> QED
    BY <1>5, <2>1 DEF Build, EditorPC
<1>6. ASSUME NEW e \in Editors, BuildFails(e) PROVE TypeOK'
  BY <1>6 DEF BuildFails, EditorPC
<1>7. ASSUME NEW e \in Editors, WarmLaravel(e) PROVE TypeOK'
  BY <1>7 DEF WarmLaravel, Step, EditorPC
<1>8. ASSUME NEW e \in Editors, PushRedis(e) PROVE TypeOK'
  BY <1>8 DEF PushRedis, Step, EditorPC
<1>9. ASSUME NEW e \in Editors, PushFails(e) PROVE TypeOK'
  <2>1. editor' \in [Editors -> [pc : EditorPC, ver : Nat, cfg : MaybeConfig]]
    BY <1>9 DEF PushFails, Step, EditorPC
  <2> QED
    BY <1>9, <2>1 DEF PushFails
<1>10. ASSUME NEW e \in Editors, Publish(e) PROVE TypeOK'
  BY <1>10 DEF Publish, EditorPC, Message
<1>11. CASE Expire \/ EvictRam
  BY <1>11 DEF Expire, ExpireLaravel, ExpireRedis, ExpireRam, EvictRam, RamFresh, Entry
<1>12. CASE StartFetch
  BY <1>12 DEF StartFetch, FetchPhase, Entry
<1>13. CASE ReadRedis \/ ReadRedisFails \/ SkipRedis \/ ServeCached
  <2>1. fetch' \in [phase : FetchPhase, prev : MaybeConfig, got : MaybeConfig]
    BY <1>13 DEF ReadRedis, ReadRedisFails, SkipRedis, ServeCached, FetchPhase
  <2>2. faults' \in Nat /\ UNCHANGED <<domain, editor, tiers>>
    BY <1>13 DEF ReadRedis, ReadRedisFails, SkipRedis, ServeCached
  <2> QED
    BY <2>1, <2>2
<1>14. CASE TrustRedis
  BY <1>14 DEF TrustRedis, RedisTrusted, CacheSet, EndFetch, FetchPhase, Entry
<1>15. CASE ServeMiss
  <2>1. BuildConfig(version) \in MaybeConfig
    BY BuildType
  <2> QED
    BY <1>15, <2>1 DEF ServeMiss, FetchPhase
<1>16. CASE ServeRemember
  BY <1>16 DEF ServeRemember, FetchPhase
<1>17. CASE Accept200
  BY <1>17 DEF Accept200, CacheSet, FetchPhase, Entry
<1>18. CASE Persist
  BY <1>18 DEF Persist, EndFetch, FetchPhase
<1>19. CASE Accept304
  BY <1>19 DEF Accept304, EndFetch, FetchPhase, Entry
<1>20. CASE Accept404
  BY <1>20 DEF Accept404, CacheSet, EndFetch, FetchPhase, Entry
<1>21. CASE RejectSignature
  BY <1>21 DEF RejectSignature, EndFetch, FetchPhase
<1>27. CASE HttpFails
  <2>1. PICK answer \in {redis, None} :
           fetch' = [fetch EXCEPT !.phase = "grace", !.got = answer]
    BY <1>27 DEF HttpFails
  <2>2. answer \in MaybeConfig
    OBVIOUS
  <2>3. fetch' \in [phase : FetchPhase, prev : MaybeConfig, got : MaybeConfig]
    BY <2>1, <2>2 DEF FetchPhase
  <2> QED
    BY <1>27, <2>3 DEF HttpFails
<1>22. CASE Grace
  <2>1. ram' \in Entry \cup {None}
    <3>1. \A c \in MaybeConfig, source \in {"redis", "disk"} :
             [cfg |-> c, src |-> source, fresh |-> TRUE] \in Entry
      BY DEF Entry
    <3> QED
      BY <1>22, <3>1 DEF Grace, CacheSet
  <2>2. fetch' \in [phase : FetchPhase, prev : MaybeConfig, got : MaybeConfig]
    BY <1>22 DEF Grace, EndFetch, FetchPhase
  <2> QED
    BY <1>22, <2>1, <2>2 DEF Grace
<1>23. CASE Invalidate
  BY <1>23 DEF Invalidate
<1>24. CASE LoseMessage
  BY <1>24 DEF LoseMessage
<1>25. CASE Restart
  <2>1. ram' \in Entry \cup {None}
    <3>1. [cfg |-> disk, src |-> "disk", fresh |-> TRUE] \in Entry
      BY DEF Entry
    <3> QED
      BY <1>25, <3>1 DEF Restart, CacheSet
  <2>2. fetch' \in [phase : FetchPhase, prev : MaybeConfig, got : MaybeConfig]
    BY <1>25 DEF Restart, EndFetch, FetchPhase
  <2> QED
    BY <1>25, <2>1, <2>2 DEF Restart
<1>26. CASE UNCHANGED vars
  BY <1>26 DEF vars
<1> QED
  BY <1>1, <1>2, <1>3, <1>4, <1>5, <1>6, <1>7, <1>8, <1>9, <1>10, <1>11,
     <1>12, <1>13, <1>14, <1>15, <1>16, <1>17, <1>18, <1>19, <1>20, <1>21,
     <1>22, <1>27, <1>23, <1>24, <1>25, <1>26 DEF Next, Bump, Continue

\* Soundness: a copy that was sound stays sound, whichever copy it was.
LEMMA SoundStep == IInv /\ [Next]_vars => (FloorInv /\ EditorInv /\ TierInv)'
<1> SUFFICES ASSUME IInv, [Next]_vars PROVE (FloorInv /\ EditorInv /\ TierInv)'
  OBVIOUS
<1>t. TypeOK /\ TypeOK' /\ FloorInv /\ EditorInv /\ TierInv
  BY TypeStep DEF IInv
<1> USE <1>t
<1>1. ASSUME NEW e \in Editors, Increment(e), row # "gone"
      PROVE  (FloorInv /\ EditorInv /\ TierInv)'
  <2>1. /\ version' = version + 1 /\ floor' = Append(floor, saves)
        /\ saves' = saves /\ UNCHANGED <<laravel, redis, disk, ram, fetch>>
        /\ editor' = [editor EXCEPT ![e].pc = "bumped"]
    BY <1>1 DEF Increment, Step, tiers
  <2>2. /\ Len(floor') = Len(floor) + 1
        /\ \A i \in 1..Len(floor) : floor'[i] = floor[i]
        /\ floor'[Len(floor) + 1] = saves
    BY <2>1, AppendProperties DEF TypeOK
  <2>3. FloorInv'
    BY <2>1, <2>2 DEF FloorInv, TypeOK
  <2>4. \A c \in MaybeConfig : SoundCopy(c) => SoundCopy(c)'
    BY <2>1, <2>2 DEF FloorInv, SoundCopy, TypeOK
  <2>5. TierInv'
    BY <2>1, <2>4, NoneFacts DEF TierInv, TypeOK, Entry
  <2>6. EditorInv'
    BY <2>1, <2>4 DEF EditorInv, TypeOK
  <2> QED
    BY <2>3, <2>5, <2>6
<1> USE NoneFacts DEF domain, tiers, IdleEditor, IdleFetch
\* Every other step leaves the labels alone and forgets no edit.
<1>2. ASSUME UNCHANGED <<version, floor>>, saves' = saves \/ saves' = saves + 1
      PROVE  FloorInv' /\ \A c : SoundCopy(c)' <=> c # None => c.ver \in 1..version /\ floor[c.ver] <= c.body
  BY <1>2 DEF FloorInv, SoundCopy, TypeOK
<1>3. ASSUME NEW e \in Editors, Save(e) \/ Delete(e) \/ (Increment(e) /\ row = "gone") \/ ReadBack(e)
      PROVE  (FloorInv /\ EditorInv /\ TierInv)'
  <2>1. /\ UNCHANGED <<version, floor, tiers, fetch>>
        /\ saves' = saves \/ saves' = saves + 1
    BY <1>3 DEF Save, Delete, Increment, ReadBack
  <2>2. FloorInv' /\ TierInv'
    BY <1>2, <2>1 DEF TierInv, SoundCopy
  <2>3. EditorInv'
    <3>1. \A d \in Editors :
             /\ editor'[d].cfg \in {editor[d].cfg, None}
             /\ editor'[d].pc = "labelled" => editor'[d].ver \in 1..version
      <4>1. CASE Save(e) \/ Delete(e) \/ (Increment(e) /\ row = "gone")
        BY <4>1 DEF Save, Delete, Increment, Step, EditorInv, TypeOK
      <4>2. CASE ReadBack(e)
        BY <4>2 DEF ReadBack, EditorInv, TypeOK
      <4> QED
        BY <1>3, <4>1, <4>2
    <3> QED
      BY <2>1, <3>1 DEF EditorInv, SoundCopy
  <2> QED
    BY <2>2, <2>3
<1>4. ASSUME NEW e \in Editors, Build(e)
      PROVE  (FloorInv /\ EditorInv /\ TierInv)'
  <2>1. SoundCopy(BuildConfig(editor[e].ver))
    BY <1>4, BuildSound DEF Build, EditorInv
  <2>2. UNCHANGED <<version, floor, saves, tiers, fetch>>
    BY <1>4 DEF Build
  <2>3. FloorInv' /\ TierInv'
    BY <1>2, <2>2 DEF TierInv, SoundCopy
  <2>4. EditorInv'
    BY <1>4, <2>1, <2>2 DEF Build, EditorInv, SoundCopy, TypeOK
  <2> QED
    BY <2>3, <2>4
<1>5. ASSUME NEW e \in Editors,
             BuildFails(e) \/ WarmLaravel(e) \/ PushRedis(e) \/ PushFails(e) \/ Publish(e)
      PROVE  (FloorInv /\ EditorInv /\ TierInv)'
  <2>1. UNCHANGED <<version, floor, saves, ram, disk, fetch>>
    BY <1>5 DEF BuildFails, WarmLaravel, PushRedis, PushFails, Publish
  <2>2. laravel' \in {laravel, None, editor[e].cfg} /\ redis' \in {redis, editor[e].cfg}
    BY <1>5 DEF BuildFails, WarmLaravel, PushRedis, PushFails, Publish
  <2>3. FloorInv' /\ TierInv'
    BY <1>2, <2>1, <2>2 DEF TierInv, EditorInv, SoundCopy
  <2>4. \A d \in Editors : \/ editor'[d].cfg \in {editor[d].cfg, None} /\ editor'[d].pc # "labelled"
                           \/ editor'[d] = editor[d]
    BY <1>5 DEF BuildFails, WarmLaravel, PushRedis, PushFails, Publish, Step, TypeOK
  <2>5. EditorInv'
    BY <2>1, <2>4 DEF EditorInv, SoundCopy
  <2> QED
    BY <2>3, <2>5
\* The proxy and the clock only move sound configurations between copies.
<1> DEFINE K == {c \in MaybeConfig : SoundCopy(c)}
<1>6. ASSUME UNCHANGED <<domain, editor>>, laravel' \in K, redis' \in K, disk' \in K,
             ram' # None => ram'.cfg \in K, fetch'.prev \in K, fetch'.got \in K
      PROVE  (FloorInv /\ EditorInv /\ TierInv)'
  <2>1. FloorInv' /\ EditorInv'
    BY <1>2, <1>6 DEF EditorInv, SoundCopy
  <2>2. TierInv'
    BY <1>6 DEF TierInv, SoundCopy
  <2> QED
    BY <2>1, <2>2
<1>7. /\ None \in K /\ laravel \in K /\ redis \in K /\ disk \in K
      /\ fetch.prev \in K /\ fetch.got \in K
      /\ ram # None => ram.cfg \in K
  BY DEF SoundCopy, TierInv, TypeOK, Entry
<1>8. BuildConfig(version) \in K
  BY BuildSound DEF TypeOK
<1>9. fetch = [phase |-> fetch.phase, prev |-> fetch.prev, got |-> fetch.got]
  BY DEF TypeOK
<1>10. ram # None => ram = [cfg |-> ram.cfg, src |-> ram.src, fresh |-> ram.fresh]
  BY DEF TypeOK, Entry
<1> HIDE DEF K
<1>11. CASE ExpireLaravel \/ ExpireRedis \/ ExpireRam \/ EvictRam
  BY <1>6, <1>7, <1>10, <1>11 DEF ExpireLaravel, ExpireRedis, ExpireRam, EvictRam, RamFresh
<1>12. CASE StartFetch
  <2>1. fetch'.prev \in K /\ fetch'.got \in K
    BY <1>7, <1>12 DEF StartFetch
  <2> QED
    BY <1>6, <1>7, <1>12, <2>1 DEF StartFetch
<1>24. CASE ReadRedis \/ ReadRedisFails \/ SkipRedis
  BY <1>6, <1>7, <1>9, <1>24 DEF ReadRedis, ReadRedisFails, SkipRedis
<1>13. CASE TrustRedis
  BY <1>6, <1>7, <1>13 DEF TrustRedis, CacheSet, EndFetch
<1>14. CASE ServeCached \/ ServeMiss \/ ServeRemember
  BY <1>6, <1>7, <1>8, <1>9, <1>14 DEF ServeCached, ServeMiss, ServeRemember
<1>15. CASE Accept200
  BY <1>6, <1>7, <1>9, <1>15 DEF Accept200, CacheSet
<1>16. CASE Persist \/ Accept404 \/ RejectSignature
  BY <1>6, <1>7, <1>16 DEF Persist, Accept404, RejectSignature, CacheSet, EndFetch
<1>17. CASE Accept304
  BY <1>6, <1>7, <1>10, <1>17 DEF Accept304, EndFetch
<1>18. CASE HttpFails
  BY <1>6, <1>7, <1>9, <1>18 DEF HttpFails
<1>19. CASE Grace
  <2>1. ram' # None => ram'.cfg \in K
    BY <1>7, <1>19 DEF Grace, CacheSet
  <2> QED
    BY <1>6, <1>7, <1>19, <2>1 DEF Grace, EndFetch
<1>20. CASE Invalidate \/ LoseMessage
  BY <1>6, <1>7, <1>20 DEF Invalidate, LoseMessage
<1>21. CASE Restart
  <2>1. ram' # None => ram'.cfg \in K
    BY <1>7, <1>21 DEF Restart, CacheSet
  <2> QED
    BY <1>6, <1>7, <1>21, <2>1 DEF Restart, EndFetch
<1>22. CASE UNCHANGED vars
  BY <1>6, <1>7, <1>22 DEF vars
<1>23. ASSUME NEW e \in Editors, Save(e) \/ Delete(e) \/ Bump(e)
       PROVE  (FloorInv /\ EditorInv /\ TierInv)'
  <2>1. CASE Increment(e)
    BY <1>1, <1>3, <2>1
  <2>2. CASE Save(e) \/ Delete(e) \/ ReadBack(e)
    BY <1>3, <2>2
  <2>3. CASE BuildFails(e) \/ WarmLaravel(e) \/ PushRedis(e) \/ PushFails(e) \/ Publish(e)
    BY <1>5, <2>3
  <2> QED
    BY <1>4, <1>23, <2>1, <2>2, <2>3 DEF Bump
<1> QED
  BY <1>11, <1>12, <1>13, <1>14, <1>15, <1>16, <1>17, <1>18, <1>19, <1>20,
     <1>21, <1>22, <1>23, <1>24 DEF Next, Expire, Continue

-----------------------------------------------------------------------------
\* Every reachable state is well typed.
THEOREM TypeCorrect == Spec => []TypeOK
<1>1. Init => TypeOK
  BY InitIInv DEF IInv
<1>2. TypeOK /\ [Next]_vars => TypeOK'
  BY TypeStep
<1> QED
  BY <1>1, <1>2, PTL DEF Spec

LEMMA Inductive == Spec => []IInv
<1>1. IInv /\ [Next]_vars => IInv'
  BY TypeStep, SoundStep DEF IInv
<1> QED
  BY InitIInv, <1>1, PTL DEF Spec

\* For any number of concurrent edits, lost messages, failed calls and
\* restarts, a revision label never promises more than its body holds, in any
\* tier and in any copy on its way: comparing labels is enough for the proxy.
THEOREM LabelsSound == Spec => []LabelSound
<1>1. IInv => LabelSound
  BY DEF IInv, EditorInv, TierInv, SoundCopy, LabelSound, Copies
<1> QED
  BY <1>1, Inductive, PTL

-----------------------------------------------------------------------------
\* A copy that is the current configuration, or none.
Fine(c) == c = None \/ c = Current

LEMMA SettledIsFine ==
    Settled <=>
        /\ EditorsIdle
        /\ Fine(laravel) /\ Fine(redis) /\ Fine(disk)
        /\ Fine(fetch.prev) /\ Fine(fetch.got)
        /\ \A e \in Editors : Fine(editor[e].cfg)
        /\ ram # None => ram.cfg = Current
        /\ fetch.phase \in {"building", "reply"} => fetch.got = Current
<1> DEFINE Held == {editor[e].cfg : e \in Editors}
           Ram  == IF ram = None THEN {} ELSE {ram.cfg}
<1>1. Copies \subseteq {Current}
        <=> \A c \in {laravel, redis, disk, fetch.prev, fetch.got} \cup Held \cup Ram : Fine(c)
  BY DEF Copies, Fine
<1>2. (\A c \in Held : Fine(c)) <=> (\A e \in Editors : Fine(editor[e].cfg))
  OBVIOUS
<1>3. ram # None /\ ram.cfg = Current => \A c \in Ram : Fine(c)
  BY DEF Fine
<1>4. ram = None => \A c \in Ram : Fine(c)
  OBVIOUS
<1> HIDE DEF Held, Ram
<1>5. (\A c \in {laravel, redis, disk, fetch.prev, fetch.got} \cup Held \cup Ram : Fine(c))
        <=> /\ Fine(laravel) /\ Fine(redis) /\ Fine(disk)
            /\ Fine(fetch.prev) /\ Fine(fetch.got)
            /\ (\A c \in Held : Fine(c)) /\ (\A c \in Ram : Fine(c))
  OBVIOUS
<1> QED
  BY <1>1, <1>2, <1>3, <1>4, <1>5 DEF Settled

LEMMA SettledStep ==
    ASSUME TypeOK, Settled, [Next]_vars, saves' = saves
    PROVE  Settled'
<1> USE DEF domain, tiers, IdleFetch
<1>1. ~ \E e \in Editors : Save(e) \/ Delete(e) \/ Bump(e)
  <2> SUFFICES ASSUME NEW e \in Editors, Save(e) \/ Delete(e) \/ Bump(e) PROVE FALSE
    OBVIOUS
  <2>1. editor[e].pc = "idle"
    BY DEF Settled, EditorsIdle
  <2>2. ~ Save(e) /\ ~ Delete(e)
    BY DEF Save, Delete, TypeOK
  <2> QED
    BY <2>1, <2>2 DEF Bump, Increment, ReadBack, Build, BuildFails, WarmLaravel,
                      PushRedis, PushFails, Publish, Step
<1> DEFINE F == {None, Current}
<1>2. Current \in F /\ None \in F
  OBVIOUS
<1>3. /\ laravel \in F /\ redis \in F /\ disk \in F /\ fetch.prev \in F /\ fetch.got \in F
      /\ ram # None => ram.cfg = Current
      /\ fetch.phase \in {"building", "reply"} => fetch.got = Current
  BY SettledIsFine DEF Fine
\* The step of the proxy or of the clock: where each copy comes from.
<1>4. ASSUME UNCHANGED <<domain, editor>>, laravel' \in F, redis' \in F, disk' \in F,
             fetch'.prev \in F, fetch'.got \in F,
             ram' # None => ram'.cfg = Current,
             fetch'.phase \in {"building", "reply"} => fetch'.got = Current
      PROVE  Settled'
  <2>1. Current' = Current /\ EditorsIdle' /\ \A e \in Editors : Fine(editor[e].cfg)'
    BY <1>4, SettledIsFine DEF Current, EditorsIdle, Fine
  <2> QED
    BY <1>4, <2>1 DEF Settled, Copies, Fine
<1>5. Current = BuildConfig(version)
  BY DEF Current, BuildConfig
<1>6. fetch = [phase |-> fetch.phase, prev |-> fetch.prev, got |-> fetch.got]
  BY DEF TypeOK
<1>7. ram # None => ram = [cfg |-> ram.cfg, src |-> ram.src, fresh |-> ram.fresh]
  BY DEF TypeOK, Entry
<1>8. CASE ExpireLaravel \/ ExpireRedis \/ ExpireRam \/ EvictRam
  BY <1>3, <1>4, <1>7, <1>8 DEF ExpireLaravel, ExpireRedis, ExpireRam, EvictRam, RamFresh
<1>9. CASE StartFetch
  BY <1>3, <1>4, <1>9 DEF StartFetch
<1>10. CASE ReadRedis \/ ReadRedisFails \/ SkipRedis
  BY <1>3, <1>4, <1>6, <1>10 DEF ReadRedis, ReadRedisFails, SkipRedis
<1>11. CASE TrustRedis
  BY <1>3, <1>4, <1>11 DEF TrustRedis, RedisTrusted, CacheSet, EndFetch
<1>12. CASE ServeCached
  BY <1>3, <1>4, <1>6, <1>12 DEF ServeCached
<1>13. CASE ServeMiss
  BY <1>3, <1>4, <1>5, <1>6, <1>13 DEF ServeMiss
<1>14. CASE ServeRemember
  BY <1>3, <1>4, <1>6, <1>14 DEF ServeRemember
<1>15. CASE Accept200
  BY <1>3, <1>4, <1>6, <1>15 DEF Accept200, CacheSet
<1>16. CASE Persist \/ RejectSignature
  BY <1>3, <1>4, <1>16 DEF Persist, RejectSignature, EndFetch
<1>17. CASE Accept304
  BY <1>3, <1>4, <1>7, <1>17 DEF Accept304, EndFetch
<1>18. CASE Accept404
  BY <1>3, <1>4, <1>18 DEF Accept404, CacheSet, EndFetch
<1>19. CASE HttpFails
  BY <1>3, <1>4, <1>6, <1>19 DEF HttpFails
<1>20. CASE Grace
  <2>1. ram' # None => ram'.cfg = Current
    BY <1>3, <1>20 DEF Grace, CacheSet
  <2> QED
    BY <1>3, <1>4, <1>20, <2>1 DEF Grace, EndFetch
<1>21. CASE Invalidate \/ LoseMessage
  BY <1>3, <1>4, <1>21 DEF Invalidate, LoseMessage
<1>22. CASE Restart
  <2>1. ram' # None => ram'.cfg = Current
    BY <1>3, <1>22 DEF Restart, CacheSet
  <2> QED
    BY <1>3, <1>4, <1>22, <2>1 DEF Restart, EndFetch
<1>23. CASE UNCHANGED vars
  BY <1>3, <1>4, <1>23 DEF vars
<1> QED
  BY <1>1, <1>8, <1>9, <1>10, <1>11, <1>12, <1>13, <1>14, <1>15, <1>16, <1>17,
     <1>18, <1>19, <1>20, <1>21, <1>22, <1>23 DEF Next, Expire, Continue

\* Once no copy of an outdated configuration is left, no restart, lost
\* message, failed call, grace mode or expiry brings one back.
THEOREM NothingOutdatedReturns == Spec => SettledUntilNextEdit
<1>1. TypeOK /\ [Next]_vars => [Settled => Settled' \/ saves' # saves]_vars
  BY SettledStep
<1> QED
  BY <1>1, TypeCorrect, PTL DEF Spec, SettledUntilNextEdit

-----------------------------------------------------------------------------
\* While Redis is asked, RAM still holds what the fetch has remembered, or the
\* entry is gone.
Undisturbed ==
    fetch.phase \in {"asked", "answered"} /\ ram # None => ram.cfg = fetch.prev

LEMMA UndisturbedStep == TypeOK /\ Undisturbed /\ [Next]_vars => Undisturbed'
<1> SUFFICES ASSUME TypeOK, Undisturbed, [Next]_vars PROVE Undisturbed'
  OBVIOUS
<1> USE DEF Undisturbed, tiers, domain, IdleFetch, EndFetch, CacheSet
\* Steps that leave the fetch alone change RAM only to lose or age its entry.
<1>1. ASSUME UNCHANGED fetch, ram' = ram \/ ram' = None \/ (ram # None /\ ram'.cfg = ram.cfg)
      PROVE  Undisturbed'
  BY <1>1
<1>2. CASE \E e \in Editors : Save(e) \/ Delete(e) \/ Bump(e)
  <2>1. UNCHANGED <<ram, fetch>>
    BY <1>2 DEF Save, Delete, Bump, Increment, ReadBack, Build, BuildFails,
                WarmLaravel, PushRedis, PushFails, Publish
  <2> QED
    BY <1>1, <2>1
<1>3. CASE Expire \/ EvictRam
  <2>1. CASE ExpireRam
    <3>1. ram # None /\ ram \in Entry /\ ram' = [ram EXCEPT !.fresh = FALSE] /\ UNCHANGED fetch
      BY <2>1 DEF ExpireRam, RamFresh, TypeOK
    <3>2. ram'.cfg = ram.cfg
      BY <3>1 DEF Entry
    <3> QED
      BY <1>1, <3>1, <3>2
  <2>2. CASE ExpireLaravel \/ ExpireRedis \/ EvictRam
    BY <2>2 DEF ExpireLaravel, ExpireRedis, EvictRam
  <2> QED
    BY <1>3, <2>1, <2>2 DEF Expire
<1>4. CASE Invalidate \/ LoseMessage
  BY <1>4 DEF Invalidate, LoseMessage
<1>5. CASE StartFetch
  BY <1>5 DEF StartFetch
<1>6. CASE ReadRedis
  <2>1. UNCHANGED ram /\ fetch.phase = "asked" /\ fetch'.prev = fetch.prev
    BY <1>6 DEF ReadRedis, TypeOK
  <2> QED
    BY <2>1
\* Every other step of the fetch leaves these two phases.
<1>7. CASE Restart \/ (Continue /\ ~ReadRedis)
  <2>1. CASE TrustRedis \/ Persist \/ Accept304 \/ Accept404 \/ RejectSignature \/ Grace \/ Restart
    <3>1. fetch'.phase = "idle"
      BY <2>1 DEF TrustRedis, Persist, Accept304, Accept404, RejectSignature, Grace, Restart
    <3> QED
      BY <3>1
  <2>2. CASE ReadRedisFails \/ SkipRedis \/ ServeCached \/ ServeMiss \/ ServeRemember
               \/ Accept200 \/ HttpFails
    <3>1. fetch'.phase \in {"http", "reply", "building", "persist", "grace"}
      BY <2>2 DEF ReadRedisFails, SkipRedis, ServeCached, ServeMiss, ServeRemember,
                  Accept200, HttpFails, TypeOK
    <3> QED
      BY <3>1
  <2> QED
    BY <1>7, <2>1, <2>2 DEF Continue
<1>8. CASE UNCHANGED vars
  BY <1>8 DEF vars
<1> QED
  BY <1>2, <1>3, <1>4, <1>5, <1>6, <1>7, <1>8 DEF Next

\* For any number of edits and faults, a Redis hit never takes a host back to an
\* older revision than the one in RAM: the entry it replaces is the one its
\* version was compared with.
THEOREM RedisNeverTakesRamBack == Spec => RedisNeverRegressesRam
<1>1. Init => TypeOK /\ Undisturbed
  BY InitIInv DEF IInv, Init, IdleFetch, Undisturbed
<1>2. TypeOK /\ Undisturbed /\ [Next]_vars => (TypeOK /\ Undisturbed)'
  BY TypeStep, UndisturbedStep
<1>3. TypeOK /\ Undisturbed /\ [Next]_vars =>
        (fetch.phase = "answered" /\ ram # None /\ ram.cfg # None
           /\ ram' # ram /\ ram' # None /\ ram'.src = "redis" /\ ram'.cfg # None
         => ram'.cfg.ver >= ram.cfg.ver)
  <2> SUFFICES ASSUME TypeOK, Undisturbed, [Next]_vars,
                      fetch.phase = "answered", ram # None, ram.cfg # None,
                      ram' # ram, ram' # None, ram'.src = "redis", ram'.cfg # None
               PROVE  ram'.cfg.ver >= ram.cfg.ver
    OBVIOUS
  <2>1. ram.cfg \in Config /\ ram.cfg.ver \in Nat /\ ram.cfg = fetch.prev
    BY DEF TypeOK, Entry, MaybeConfig, Config, Undisturbed
  <2>2. TrustRedis \/ ExpireRam \/ Restart
    BY DEF Next, vars, tiers, domain, Save, Delete, Bump, Increment, ReadBack, Build,
           BuildFails, WarmLaravel, PushRedis, PushFails, Publish, Expire,
           ExpireLaravel, ExpireRedis, EvictRam, Invalidate, LoseMessage, StartFetch,
           Continue, ReadRedis, ReadRedisFails, SkipRedis, ServeCached, ServeMiss,
           ServeRemember, Accept200, Persist, Accept304, Accept404, RejectSignature,
           HttpFails, Grace
  <2>3. CASE TrustRedis
    <3>1. ram'.cfg = fetch.got /\ fetch.got.ver >= fetch.prev.ver
      BY <2>1, <2>3 DEF TrustRedis, RedisTrusted, CacheSet
    <3> QED
      BY <2>1, <3>1
  <2>4. CASE ExpireRam
    <3>1. ram'.cfg = ram.cfg
      BY <2>4 DEF ExpireRam, TypeOK, Entry
    <3> QED
      BY <2>1, <3>1
  <2>5. CASE Restart
    BY <2>5 DEF Restart, CacheSet
  <2> QED
    BY <2>2, <2>3, <2>4, <2>5
<1> QED
  BY <1>1, <1>2, <1>3, PTL DEF Spec, RedisNeverRegressesRam
=============================================================================
