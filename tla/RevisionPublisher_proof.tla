---------------------- MODULE RevisionPublisher_proof ----------------------
(***************************************************************************)
(* Proofs about RevisionPublisher for any number of workers, commands and  *)
(* readers, any retry budget and any retention limit.                      *)
(***************************************************************************)
EXTENDS RevisionPublisher, FiniteSetTheorems, TLAPS

\* The highest number handed out is still a row, so MAX + 1 is new: no prune
\* ever selects the newest row.
Numbers ==
    /\ \A n \in DOMAIN revs : n <= issued
    /\ issued # 0 => issued \in DOMAIN revs
    /\ \A p \in Procs : pc[p] = "delete" => \A n \in ctx[p].ids : n < issued

IInv == TypeOK /\ Numbers

USE DEF Procs, At, Goto, Fault

LEMMA HighestIs ==
    ASSUME NEW S \in SUBSET Nat, NEW m \in S, \A n \in S : n <= m
    PROVE  Highest(S) = m
<1>1. \A k \in S : (\A n \in S : n <= k) => k = m
  OBVIOUS
<1> QED
  BY <1>1 DEF Highest

LEMMA NextIs == IInv => NextRevision = issued + 1
<1> SUFFICES ASSUME IInv PROVE Highest(DOMAIN revs) = issued
  BY DEF NextRevision
<1>1. CASE issued = 0
  <2>1. \A n \in DOMAIN revs : FALSE
    BY <1>1 DEF IInv, TypeOK, Numbers
  <2> QED
    BY <1>1, <2>1 DEF Highest
<1>2. CASE issued # 0
  BY <1>2, HighestIs DEF IInv, TypeOK, Numbers
<1> QED
  BY <1>1, <1>2

LEMMA PrunableBelow == IInv => Prunable \subseteq Nat /\ \A n \in Prunable : n < issued
<1> SUFFICES ASSUME IInv, NEW n \in Prunable PROVE n \in Nat /\ n < issued
  OBVIOUS
<1>1. n \in DOMAIN revs /\ Cardinality({m \in DOMAIN revs : m > n}) >= Keep
  BY DEF Prunable
<1>2. {m \in DOMAIN revs : m > n} # {}
  BY <1>1, KeepAssumption, FS_EmptySet
<1>3. PICK m \in DOMAIN revs : m > n
  BY <1>2
<1> QED
  BY <1>1, <1>3 DEF IInv, TypeOK, Numbers

LEMMA InitIInv == Init => IInv
<1> SUFFICES ASSUME Init PROVE IInv
  OBVIOUS
<1>1. DOMAIN revs = {} /\ revs \in [DOMAIN revs -> Revision]
  BY DEF Init
<1>2. ctx \in [Procs -> Context]
  BY TriesAssumption DEF Init, Context
<1> QED
  BY <1>1, <1>2, TriesAssumption DEF Init, IInv, TypeOK, Numbers, Place, Idle

\* What a step does to the processes when the rows stay as they are.
LEMMA SameRows ==
    ASSUME Numbers, UNCHANGED <<revs, issued>>,
           \A p \in Procs : pc'[p] = "delete" => pc[p] = "delete" /\ ctx'[p].ids = ctx[p].ids
    PROVE  Numbers'
BY DEF Numbers

LEMMA EditStep == IInv /\ (\E c \in Content : Edit(c) \/ EditUndispatched(c)) => IInv'
<1> SUFFICES ASSUME IInv, NEW c \in Content, Edit(c) \/ EditUndispatched(c) PROVE IInv'
  OBVIOUS
<1>1. UNCHANGED <<rows, pc, ctx, caches, commands, faults>>
  BY DEF Edit, EditUndispatched, rows
<1>2. Numbers'
  BY <1>1, SameRows DEF IInv, rows
<1>3. queue' \in [1..Tries -> Nat] /\ lock' \in BOOLEAN
  <2>1. CASE Edit(c)
    <3>1. queue' = queue \/ queue' = [queue EXCEPT ![1] = @ + 1]
      BY <2>1 DEF Edit
    <3>2. queue \in [1..Tries -> Nat] /\ 1 \in 1..Tries
      BY TriesAssumption DEF IInv, TypeOK
    <3>3. queue' \in [1..Tries -> Nat]
      BY <3>1, <3>2
    <3> QED
      BY <2>1, <3>3 DEF Edit
  <2>2. CASE EditUndispatched(c)
    BY <2>2 DEF EditUndispatched, jobs, IInv, TypeOK
  <2> QED
    BY <2>1, <2>2
<1>4. covered' \in BOOLEAN
  BY DEF Edit, EditUndispatched, Pending, IInv, TypeOK
<1>5. authored' \in Content /\ edits' \in Nat
  BY DEF Edit, EditUndispatched, IInv, TypeOK
<1> QED
  BY <1>1, <1>2, <1>3, <1>4, <1>5 DEF IInv, TypeOK, rows, caches

LEMMA QueueStep ==
    ASSUME IInv, NEW w \in Workers, (\E a \in 1..Tries : TakeJob(w, a)) \/ JobFails(w)
    PROVE  IInv'
<1> USE DEF IInv, TypeOK, rows, jobs, caches, counts
<1>1. ASSUME NEW a \in 1..Tries, TakeJob(w, a) PROVE IInv'
  <2>1. queue' \in [1..Tries -> Nat]
    BY <1>1 DEF TakeJob
  <2>2. pc' \in [Procs -> Place]
    BY <1>1 DEF TakeJob, Place
  <2>3. ctx' \in [Procs -> Context]
    BY <1>1 DEF TakeJob, Context
  <2>4. Numbers'
    BY <1>1, SameRows DEF TakeJob
  <2> QED
    BY <1>1, <2>1, <2>2, <2>3, <2>4 DEF TakeJob
<1>2. CASE JobFails(w)
  <2>1. queue' \in [1..Tries -> Nat] /\ lock' \in BOOLEAN
    <3>1. ctx[w].attempt \in 1..Tries
      BY DEF Context
    <3>2. CASE ctx[w].attempt < Tries
      <4>1. ctx[w].attempt + 1 \in 1..Tries
        BY <3>1, <3>2, TriesAssumption
      <4>2. queue' = [queue EXCEPT ![ctx[w].attempt + 1] = @ + 1] /\ lock' = lock
        BY <1>2, <3>2 DEF JobFails
      <4> QED
        BY <4>1, <4>2
    <3>3. CASE ~(ctx[w].attempt < Tries)
      BY <1>2, <3>3 DEF JobFails
    <3> QED
      BY <3>2, <3>3
  <2>2. pc' \in [Procs -> Place]
    BY <1>2 DEF JobFails, Place
  <2>3. Numbers'
    BY <1>2, SameRows DEF JobFails
  <2> QED
    BY <1>2, <2>1, <2>2, <2>3 DEF JobFails
<1> QED
  BY <1>1, <1>2

LEMMA CompileStep ==
    ASSUME IInv, NEW p \in Procs,
           Compile(p) \/ SkipJob(p) \/ CheckJob(p) \/ StartPublish(p) \/ CheckPublish(p)
    PROVE  IInv'
<1> USE DEF IInv, TypeOK, rows, jobs, caches, counts
<1>1. CASE Compile(p)
  <2>1. ctx' \in [Procs -> Context]
    BY <1>1 DEF Compile, Context
  <2>2. pc' \in [Procs -> Place]
    BY <1>1 DEF Compile, Place
  <2>3. Numbers'
    BY <1>1, SameRows DEF Compile
  <2> QED
    BY <1>1, <2>1, <2>2, <2>3 DEF Compile
<1>2. CASE SkipJob(p) \/ CheckJob(p)
  <2>1. pc' \in [Procs -> Place] /\ lock' \in BOOLEAN
    BY <1>2 DEF SkipJob, CheckJob, Place
  <2>2. Numbers'
    BY <1>2, SameRows DEF SkipJob, CheckJob
  <2> QED
    BY <1>2, <2>1, <2>2 DEF SkipJob, CheckJob
<1>3. CASE StartPublish(p)
  <2>1. ctx' \in [Procs -> Context]
    BY <1>3 DEF StartPublish, Context
  <2>2. pc' \in [Procs -> Place] /\ commands' \in Nat
    BY <1>3 DEF StartPublish, Place
  <2>3. Numbers'
    BY <1>3, SameRows DEF StartPublish
  <2> QED
    BY <1>3, <2>1, <2>2, <2>3 DEF StartPublish
<1>4. CASE CheckPublish(p)
  <2>1. pc' \in [Procs -> Place]
    BY <1>4 DEF CheckPublish, Place
  <2>2. Numbers'
    BY <1>4, SameRows DEF CheckPublish
  <2> QED
    BY <1>4, <2>1, <2>2 DEF CheckPublish
<1> QED
  BY <1>1, <1>2, <1>3, <1>4

LEMMA PublishStepInv ==
    ASSUME IInv, NEW p \in Procs, Publish(p)
    PROVE  IInv' /\ issued' = issued + 1 /\ active' = issued + 1
<1> USE DEF IInv, TypeOK, rows, jobs, caches, counts
<1>1. NextRevision = issued + 1
  BY NextIs
<1>2. issued' = issued + 1
  <2>1. {issued, issued + 1} \in SUBSET Nat /\ \A n \in {issued, issued + 1} : n <= issued + 1
    OBVIOUS
  <2>2. Highest({issued, issued + 1}) = issued + 1
    BY <2>1, HighestIs
  <2> QED
    BY <1>1, <2>2 DEF Publish
<1>3. DOMAIN revs' = DOMAIN revs \cup {issued + 1}
  BY <1>1 DEF Publish
<1>4. ctx[p].content \in Content
  BY DEF Context
<1>5. revs' \in [DOMAIN revs' -> Revision]
  BY <1>1, <1>3, <1>4 DEF Publish, Revision
<1>6. pc' \in [Procs -> Place] /\ ctx' = ctx
  BY DEF Publish, Place
<1>7. Numbers'
  <2>1. \A q \in Procs : pc'[q] = "delete" => pc[q] = "delete"
    BY DEF Publish
  <2>2. \A q \in Procs : ctx[q].ids \subseteq Nat
    BY DEF Context
  <2> QED
    BY <1>2, <1>3, <1>6, <2>1, <2>2 DEF Numbers
<1> QED
  BY <1>1, <1>2, <1>3, <1>5, <1>6, <1>7 DEF Publish

LEMMA AccelerateStep ==
    ASSUME IInv, NEW p \in Procs, Accelerate(p) \/ RollbackInvalidate(p)
    PROVE  IInv'
<1> USE DEF IInv, TypeOK, rows, jobs, caches, counts
<1>1. pc' \in [Procs -> Place] /\ resolved' \in Nat /\ faults' \in Nat
  BY DEF Accelerate, RollbackInvalidate, Place
<1>2. Numbers'
  BY SameRows DEF Accelerate, RollbackInvalidate
<1> QED
  BY <1>1, <1>2 DEF Accelerate, RollbackInvalidate

LEMMA PruneStep ==
    ASSUME IInv, NEW w \in Procs, PruneSelect(w) \/ PruneDelete(w)
    PROVE  IInv'
<1> USE DEF IInv, TypeOK, rows, jobs, caches, counts
<1>1. CASE PruneSelect(w)
  <2>1. Prunable \subseteq Nat /\ \A n \in Prunable : n < issued
    BY PrunableBelow
  <2>2. ctx' \in [Procs -> Context]
    <3>1. ctx' = [ctx EXCEPT ![w] = [@ EXCEPT !.ids = Prunable, !.base = active]]
      BY <1>1 DEF PruneSelect
    <3> HIDE DEF Prunable
    <3>2. [ctx[w] EXCEPT !.ids = Prunable, !.base = active] \in Context
      BY <2>1 DEF Context
    <3> QED
      BY <3>1, <3>2
  <2>3. pc' \in [Procs -> Place] /\ lock' \in BOOLEAN
    BY <1>1 DEF PruneSelect, Place
  <2>4. Numbers'
    <3>1. ctx'[w].ids = Prunable /\ \A q \in Procs \ {w} : ctx'[q] = ctx[q] /\ pc'[q] = pc[q]
      BY <1>1 DEF PruneSelect, Context
    <3> QED
      BY <1>1, <2>1, <3>1 DEF PruneSelect, Numbers
  <2> QED
    BY <1>1, <2>2, <2>3, <2>4 DEF PruneSelect
<1>2. CASE PruneDelete(w)
  <2> DEFINE doomed == ctx[w].ids \ {ctx[w].base}
  <2>1. /\ revs' = [n \in DOMAIN revs \ doomed |-> revs[n]]
        /\ active' = IF active \in doomed THEN 0 ELSE active
    BY <1>2 DEF PruneDelete
  <2>2. issued \notin doomed
    BY <1>2 DEF PruneDelete, Numbers
  <2>3. pc' \in [Procs -> Place] /\ lock' \in BOOLEAN
    BY <1>2 DEF PruneDelete, Place
  <2>4. Numbers'
    <3>1. \A q \in Procs : pc'[q] = "delete" => pc[q] = "delete"
      BY <1>2 DEF PruneDelete
    <3> QED
      BY <1>2, <2>1, <2>2, <3>1 DEF PruneDelete, Numbers
  <2>5. DOMAIN revs' \subseteq Nat \ {0} /\ revs' \in [DOMAIN revs' -> Revision] /\ active' \in Nat
    BY <2>1
  <2> QED
    BY <1>2, <2>3, <2>4, <2>5 DEF PruneDelete
<1> QED
  BY <1>1, <1>2

LEMMA RollbackStepInv ==
    ASSUME IInv, NEW o \in Procs, ChooseTarget(o) \/ RollbackRead(o) \/ RollbackCommit(o)
    PROVE  IInv'
<1> USE DEF IInv, TypeOK, rows, jobs, caches, counts
<1>1. CASE ChooseTarget(o)
  <2>1. PICK t \in Published : ctx' = [ctx EXCEPT ![o].target = t]
    BY <1>1 DEF ChooseTarget
  <2>2. t \in Nat
    BY <2>1 DEF Published
  <2>3. ctx' \in [Procs -> Context]
    BY <2>1, <2>2 DEF Context
  <2>4. pc' \in [Procs -> Place] /\ commands' \in Nat
    BY <1>1 DEF ChooseTarget, Place
  <2>5. Numbers'
    BY <1>1, <2>1, SameRows DEF ChooseTarget
  <2> QED
    BY <1>1, <2>3, <2>4, <2>5 DEF ChooseTarget
<1>2. CASE RollbackRead(o)
  <2>1. ctx' \in [Procs -> Context]
    BY <1>2 DEF RollbackRead, Context
  <2>2. pc' \in [Procs -> Place]
    BY <1>2 DEF RollbackRead, Place
  <2>3. Numbers'
    BY <1>2, SameRows DEF RollbackRead
  <2> QED
    BY <1>2, <2>1, <2>2, <2>3 DEF RollbackRead
<1>3. CASE RollbackCommit(o)
  <2>1. DOMAIN revs' = DOMAIN revs /\ revs' \in [DOMAIN revs -> Revision]
    BY <1>3 DEF RollbackCommit, Revision
  <2>2. active' \in Nat
    BY <1>3 DEF RollbackCommit, Context
  <2>3. pc' \in [Procs -> Place]
    BY <1>3 DEF RollbackCommit, Place
  <2>4. Numbers'
    <3>1. \A q \in Procs : pc'[q] = "delete" => pc[q] = "delete"
      BY <1>3 DEF RollbackCommit
    <3> QED
      BY <1>3, <2>1, <3>1 DEF RollbackCommit, Numbers
  <2> QED
    BY <1>3, <2>1, <2>2, <2>3, <2>4 DEF RollbackCommit
<1> QED
  BY <1>1, <1>2, <1>3

LEMMA OtherStep ==
    ASSUME IInv,
           LockExpires \/ ResolvedExpires \/ (\E r \in Readers : ResolveMiss(r) \/ ResolvePut(r))
           \/ UNCHANGED vars
    PROVE  IInv'
<1> USE DEF IInv, TypeOK, rows, jobs, caches, counts
<1>1. UNCHANGED <<revs, issued, pc, ctx, active, authored, queue, counts, covered>>
  BY DEF LockExpires, ResolvedExpires, ResolveMiss, ResolvePut, vars
<1>2. Resolvable \in Nat
  BY DEF Resolvable
<1>3. resolved' \in Nat /\ lock' \in BOOLEAN /\ reading' \in [Readers -> Nat \cup {Idle}]
  <2>1. CASE LockExpires
    BY <2>1 DEF LockExpires
  <2>2. CASE ResolvedExpires
    BY <2>2 DEF ResolvedExpires
  <2>3. ASSUME NEW r \in Readers, ResolveMiss(r) PROVE resolved' \in Nat /\ lock' \in BOOLEAN
                                           /\ reading' \in [Readers -> Nat \cup {Idle}]
    <3>1. reading' = [reading EXCEPT ![r] = Resolvable]
      BY <2>3 DEF ResolveMiss
    <3> QED
      BY <1>2, <2>3, <3>1 DEF ResolveMiss
  <2>4. ASSUME NEW r \in Readers, ResolvePut(r) PROVE resolved' \in Nat /\ lock' \in BOOLEAN
                                           /\ reading' \in [Readers -> Nat \cup {Idle}]
    <3>1. reading[r] \in Nat /\ reading' = [reading EXCEPT ![r] = Idle]
      BY <2>4 DEF ResolvePut
    <3> QED
      BY <2>4, <3>1 DEF ResolvePut
  <2>5. CASE UNCHANGED vars
    BY <2>5 DEF vars
  <2> QED
    BY <2>1, <2>2, <2>3, <2>4, <2>5
<1>4. Numbers'
  BY <1>1, SameRows
<1> QED
  BY <1>1, <1>3, <1>4

LEMMA IInvStep == IInv /\ [Next]_vars => IInv'
<1> SUFFICES ASSUME IInv, [Next]_vars PROVE IInv'
  OBVIOUS
<1>1. CASE \E c \in Content : Edit(c) \/ EditUndispatched(c)
  BY <1>1, EditStep
<1>2. ASSUME NEW w \in Workers, JobStep(w) \/ JobFails(w) PROVE IInv'
  BY <1>2, QueueStep, CompileStep, PublishStepInv, AccelerateStep, PruneStep DEF JobStep
<1>3. ASSUME NEW c \in Publishers, StartPublish(c) \/ PublishStep(c) PROVE IInv'
  BY <1>3, CompileStep, PublishStepInv, AccelerateStep DEF PublishStep
<1>4. ASSUME NEW o \in Operators, ChooseTarget(o) \/ RollbackStep(o) PROVE IInv'
  BY <1>4, RollbackStepInv, AccelerateStep DEF RollbackStep
<1>5. CASE LockExpires \/ ResolvedExpires \/ (\E r \in Readers : ResolveMiss(r) \/ ResolvePut(r))
           \/ UNCHANGED vars
  BY <1>5, OtherStep
<1> QED
  BY <1>1, <1>2, <1>3, <1>4, <1>5 DEF Next

LEMMA Inductive == Spec => []IInv
BY InitIInv, IInvStep, PTL DEF Spec

\* The type invariant holds in every reachable state.
THEOREM TypeCorrect == Spec => []TypeOK
BY Inductive, PTL DEF IInv

\* Every publish gets a number above all numbers ever handed out: the newest row
\* survives every prune (Keep > 0), so MAX + 1 never comes back to an old one.
THEOREM RevisionNumbersUnique == Spec => NumbersNeverReused
<1> DEFINE Fresh == \A p \in Procs :
              pc[p] = "publish" /\ pc'[p] = "accelerate" => active' > issued
<1>1. IInv /\ [Next]_vars => [Fresh]_vars
  <2> SUFFICES ASSUME IInv, [Next]_vars, NEW p \in Procs,
                      pc[p] = "publish", pc'[p] = "accelerate"
               PROVE  active' > issued
    BY DEF vars
  <2> USE DEF IInv, TypeOK
  <2>1. CASE (\E c \in Content : Edit(c) \/ EditUndispatched(c)) \/ LockExpires
             \/ ResolvedExpires \/ (\E r \in Readers : ResolveMiss(r) \/ ResolvePut(r))
             \/ UNCHANGED vars
    BY <2>1 DEF Edit, EditUndispatched, LockExpires, ResolvedExpires, ResolveMiss, ResolvePut, vars
  <2>2. ASSUME NEW q \in Procs, Publish(q) PROVE active' > issued
    BY <2>2, PublishStepInv
  <2>3. ASSUME NEW q \in Procs, Accelerate(q) \/ Compile(q) PROVE FALSE
    BY <2>3 DEF Accelerate, Compile
  <2>4. ASSUME NEW w \in Workers, JobStep(w) \/ JobFails(w) PROVE active' > issued
    BY <2>2, <2>3, <2>4 DEF JobStep, JobFails, TakeJob, SkipJob, CheckJob, PruneSelect, PruneDelete
  <2>5. ASSUME NEW c \in Publishers, StartPublish(c) \/ PublishStep(c) PROVE active' > issued
    BY <2>2, <2>3, <2>5 DEF PublishStep, StartPublish, CheckPublish
  <2>6. ASSUME NEW o \in Operators, ChooseTarget(o) \/ RollbackStep(o) PROVE active' > issued
    BY <2>3, <2>6 DEF RollbackStep, ChooseTarget, RollbackRead, RollbackCommit, RollbackInvalidate
  <2> QED
    BY <2>1, <2>4, <2>5, <2>6 DEF Next
<1> QED
  BY <1>1, Inductive, PTL DEF Spec, NumbersNeverReused

-----------------------------------------------------------------------------
(* Rollbacks by one operator who never passes --revision. *)

\* What lets the pointer stay resolvable: the target an operator has in hand is
\* older than the active revision, is not the one to be marked rolled back, and
\* nobody else rolls back; newer rows only make active larger.
TargetOK(o) ==
    pc[o] \in {"confirm", "rollback"} =>
        /\ ctx[o].target # 0 /\ ctx[o].target <= issued
        /\ ctx[o].target \in DOMAIN revs => revs[ctx[o].target].status = "published"
        /\ pc[o] = "confirm" => active = 0 \/ active > ctx[o].target
        /\ pc[o] = "rollback" => ctx[o].base # ctx[o].target

Safe == ActiveResolvable /\ \A o \in Operators : TargetOK(o)

LEMMA SafeSame ==
    ASSUME Safe, UNCHANGED <<revs, active, issued>>,
           \A o \in Operators : /\ ctx'[o] = ctx[o]
                                /\ pc'[o] = pc[o] \/ pc'[o] \notin {"confirm", "rollback"}
    PROVE  Safe'
<1>1. ActiveResolvable'
  BY DEF Safe, ActiveResolvable
<1>2. ASSUME NEW o \in Operators PROVE TargetOK(o)'
  BY DEF Safe, TargetOK
<1> QED
  BY <1>1, <1>2 DEF Safe

LEMMA SafePublish ==
    ASSUME IInv, Safe, NEW p \in Procs, Publish(p)
    PROVE  Safe'
<1> USE DEF IInv, TypeOK
<1>1. /\ active' = issued + 1 /\ issued' = issued + 1 /\ ctx' = ctx
      /\ NextRevision = issued + 1
  BY PublishStepInv, NextIs DEF Publish
<1>2. /\ DOMAIN revs' = DOMAIN revs \cup {issued + 1}
      /\ revs'[issued + 1].status = "published"
      /\ \A n \in DOMAIN revs : n <= issued /\ revs'[n] = revs[n]
  BY <1>1 DEF Publish, Numbers
<1>3. ActiveResolvable'
  BY <1>1, <1>2 DEF ActiveResolvable
<1>4. ASSUME NEW o \in Operators PROVE TargetOK(o)'
  <2>1. pc'[o] \in {"confirm", "rollback"} => pc'[o] = pc[o]
    BY DEF Publish
  <2>2. ctx[o].target \in Nat
    BY DEF Context
  <2>3. TargetOK(o)
    BY DEF Safe
  <2>4. CASE pc[o] \in {"confirm", "rollback"}
    <3>1. ctx[o].target <= issued /\ ctx[o].target # issued + 1
      BY <2>2, <2>3, <2>4 DEF TargetOK
    <3> QED
      BY <1>1, <1>2, <2>1, <2>2, <2>3, <2>4, <3>1 DEF TargetOK
  <2>5. CASE pc[o] \notin {"confirm", "rollback"}
    BY <2>1, <2>5 DEF TargetOK
  <2> QED
    BY <2>4, <2>5
<1> QED
  BY <1>3, <1>4 DEF Safe

LEMMA SafePrune ==
    ASSUME IInv, Safe, NEW w \in Workers, PruneDelete(w)
    PROVE  Safe'
<1> DEFINE doomed == ctx[w].ids \ {ctx[w].base}
<1>1. /\ revs' = [n \in DOMAIN revs \ doomed |-> revs[n]]
      /\ active' = IF active \in doomed THEN 0 ELSE active
      /\ ctx' = ctx /\ issued' = issued
  BY DEF PruneDelete
<1>2. ActiveResolvable'
  BY <1>1 DEF Safe, ActiveResolvable
<1>3. ASSUME NEW o \in Operators PROVE TargetOK(o)'
  <2>1. pc'[o] \in {"confirm", "rollback"} => pc'[o] = pc[o]
    BY DEF PruneDelete, IInv, TypeOK
  <2> QED
    BY <1>1, <2>1 DEF Safe, TargetOK
<1> QED
  BY <1>2, <1>3 DEF Safe

LEMMA SafeRollback ==
    ASSUME IInv, Safe, NEW o \in Operators, Operators = {o},
           ChooseTarget(o) \/ RollbackRead(o) \/ RollbackCommit(o)
    PROVE  Safe'
<1> USE DEF IInv, TypeOK
<1>1. CASE ChooseTarget(o)
  <2>1. PICK t \in Published : t < active /\ ctx' = [ctx EXCEPT ![o].target = t]
    BY <1>1 DEF ChooseTarget
  <2>2. UNCHANGED <<revs, active, issued>> /\ pc'[o] = "confirm"
    BY <1>1 DEF ChooseTarget, rows
  <2>3. ctx'[o].target = t
    BY <2>1 DEF Context
  <2>4. t # 0 /\ t <= issued /\ revs[t].status = "published" /\ t \in Nat
    BY <2>1 DEF Published, Numbers
  <2> QED
    BY <2>1, <2>2, <2>3, <2>4 DEF Safe, ActiveResolvable, TargetOK
<1>2. CASE RollbackRead(o)
  <2>1. /\ UNCHANGED <<revs, active, issued>> /\ pc[o] = "confirm"
        /\ pc'[o] = "rollback" \/ pc'[o] = "idle"
    BY <1>2 DEF RollbackRead, rows
  <2>2. ctx'[o].base = active /\ ctx'[o].target = ctx[o].target
    BY <1>2 DEF RollbackRead, Context
  <2>3. TargetOK(o) /\ ctx[o].target \in Nat
    BY DEF Safe, Context
  <2>4. active # ctx[o].target
    BY <2>1, <2>3 DEF TargetOK
  <2> QED
    BY <2>1, <2>2, <2>3, <2>4 DEF Safe, ActiveResolvable, TargetOK
<1>3. CASE RollbackCommit(o)
  <2>1. TargetOK(o) /\ pc[o] = "rollback"
    BY <1>3 DEF Safe, RollbackCommit
  <2>2. pc'[o] \notin {"confirm", "rollback"}
    BY <1>3 DEF RollbackCommit
  <2>3. CASE ctx[o].target \in DOMAIN revs
    <3>1. /\ active' = ctx[o].target /\ DOMAIN revs' = DOMAIN revs
          /\ revs'[ctx[o].target] = revs[ctx[o].target]
      BY <1>3, <2>1, <2>3 DEF RollbackCommit, TargetOK
    <3>2. ActiveResolvable'
      BY <2>1, <2>3, <3>1 DEF ActiveResolvable, TargetOK
    <3> QED
      BY <2>2, <3>2 DEF Safe, TargetOK
  <2>4. CASE ctx[o].target \notin DOMAIN revs
    <3>1. UNCHANGED <<revs, active, issued>> /\ ctx' = ctx
      BY <1>3, <2>4 DEF RollbackCommit
    <3> QED
      BY <2>2, <3>1 DEF Safe, ActiveResolvable, TargetOK
  <2> QED
    BY <2>3, <2>4
<1> QED
  BY <1>1, <1>2, <1>3

LEMMA SafeStep ==
    ASSUME \A o, q \in Operators : o = q, IInv, Safe, [Next]_vars
    PROVE  Safe'
<1> USE ProcessAssumption DEF IInv, TypeOK, rows
<1>1. CASE \E c \in Content : Edit(c) \/ EditUndispatched(c)
  BY <1>1, SafeSame DEF Edit, EditUndispatched
<1>2. CASE LockExpires \/ ResolvedExpires \/ (\E r \in Readers : ResolveMiss(r) \/ ResolvePut(r))
           \/ UNCHANGED vars
  BY <1>2, SafeSame DEF LockExpires, ResolvedExpires, ResolveMiss, ResolvePut, vars
<1>3. ASSUME NEW p \in Procs, Accelerate(p) \/ RollbackInvalidate(p) PROVE Safe'
  BY <1>3, SafeSame DEF Accelerate, RollbackInvalidate
<1>4. ASSUME NEW p \in Workers \cup Publishers,
             Compile(p) \/ SkipJob(p) \/ CheckJob(p) \/ StartPublish(p) \/ CheckPublish(p)
             \/ PruneSelect(p) \/ (\E a \in 1..Tries : TakeJob(p, a)) \/ JobFails(p)
      PROVE  Safe'
  <2>1. \A o \in Operators : o # p
    OBVIOUS
  <2>2. UNCHANGED <<revs, active, issued>>
    BY <1>4 DEF Compile, SkipJob, CheckJob, StartPublish, CheckPublish, PruneSelect, TakeJob, JobFails
  <2>3. \A o \in Operators : ctx'[o] = ctx[o]
    BY <1>4, <2>1 DEF Compile, SkipJob, CheckJob, StartPublish, CheckPublish, PruneSelect, TakeJob, JobFails
  <2>4. \A o \in Operators : pc'[o] = pc[o]
    BY <1>4, <2>1 DEF Compile, SkipJob, CheckJob, StartPublish, CheckPublish, PruneSelect, TakeJob, JobFails
  <2> QED
    BY <2>2, <2>3, <2>4, SafeSame
<1>5. ASSUME NEW w \in Workers, JobStep(w) \/ JobFails(w) PROVE Safe'
  BY <1>3, <1>4, <1>5, SafePublish, SafePrune DEF JobStep
<1>6. ASSUME NEW c \in Publishers, StartPublish(c) \/ PublishStep(c) PROVE Safe'
  BY <1>3, <1>4, <1>6, SafePublish DEF PublishStep
<1>7. ASSUME NEW o \in Operators, ChooseTarget(o) \/ RollbackStep(o) PROVE Safe'
  <2>1. Operators = {o}
    OBVIOUS
  <2> QED
    BY <1>3, <1>7, <2>1, SafeRollback DEF RollbackStep
<1> QED
  BY <1>1, <1>2, <1>5, <1>6, <1>7 DEF Next

\* With default targets and one operator at a time, the active revision can
\* always be resolved, whatever jobs and publish commands run meanwhile.
THEOREM DefaultRollbackResolvable ==
    ASSUME \A o, q \in Operators : o = q
    PROVE  Spec => []ActiveResolvable
<1>1. Init => Safe
  BY DEF Init, Safe, ActiveResolvable, TargetOK
<1>2. IInv /\ Safe /\ [Next]_vars => Safe'
  BY SafeStep
<1>3. Safe => ActiveResolvable
  BY DEF Safe
<1> QED
  BY <1>1, <1>2, <1>3, Inductive, PTL DEF Spec
=============================================================================
