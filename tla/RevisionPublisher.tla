------------------------- MODULE RevisionPublisher -------------------------
(***************************************************************************)
(* How the authored configuration of one manifest-enabled domain becomes   *)
(* its active runtime revision: the observers that dispatch                *)
(* CompileAndPublishRevision, Laravel's unique-job lock and queue, the     *)
(* job, the artisan commands runtime:publish and runtime:rollback,         *)
(* RevisionPublisher's transactions on runtime_revisions and on            *)
(* domains.active_revision_id, the pruning of old revisions, and the       *)
(* RevisionResolver cache in front of them.                                *)
(*                                                                         *)
(* A row of runtime_revisions is known by its revision number; 0 is NULL.  *)
(* A configuration has two parts: "hashed" is what computeInputsHash reads *)
(* and "extra" what only the compiled artifact holds.  Database            *)
(* transactions are atomic but for rollback, which reads before its first  *)
(* write without a lock (MySQL's repeatable read).  Signatures are not     *)
(* modelled: they always verify.                                           *)
(***************************************************************************)
EXTENDS Integers, FiniteSets

CONSTANTS
    Inputs,          \* values of the hashed part of a configuration
    Extras,          \* values of the part the hash leaves out
    Workers,         \* queue workers on the compile queue
    Publishers,      \* runtime:publish commands
    Operators,       \* runtime:rollback commands
    Readers,         \* requests that resolve the active revision
    Tries,           \* CompileAndPublishRevision::$tries
    Keep,            \* runtime.max_revisions_per_domain
    Undispatched,    \* whether fields no observer recompiles for are edited
    MaxEdits,        \* bound: edits in one behaviour
    MaxCommands,     \* bound: commands started in one behaviour
    MaxFaults        \* bound: failed or killed jobs and failed cache calls

ASSUME KeepAssumption == Keep \in Nat \ {0}
ASSUME TriesAssumption == Tries \in Nat \ {0}
ASSUME InputsAssumption == Inputs # {} /\ Extras # {}
ASSUME ProcessAssumption ==
    /\ Workers \cap Publishers = {} /\ Workers \cap Operators = {}
    /\ Publishers \cap Operators = {}

VARIABLES
    authored,   \* the configuration as edited in the admin panel
    revs,       \* runtime_revisions: number -> [status, content]
    active,     \* domains.active_revision_id
    lock,       \* the unique lock compile_publish_{domain} is held
    queue,      \* queue[a] = waiting jobs whose next attempt is the a-th
    pc,         \* where each worker or command stands
    ctx,        \* what it has read so far
    resolved,   \* Laravel cache entry manifest_resolved:{host}, TTL 300 s
    reading,    \* each reader: the revision it is about to cache, or Idle
    edits, commands, faults,  \* counters for the bounds
    issued,     \* history: the highest revision number handed out
    covered     \* history: a job that will read the last edit exists

rows    == <<revs, active, issued>>
jobs    == <<lock, queue>>
caches  == <<resolved, reading>>
counts  == <<edits, commands, faults>>
vars    == <<authored, rows, jobs, pc, ctx, caches, counts, covered>>

Procs    == Workers \cup Publishers \cup Operators
Idle     == -1
Content  == [hashed : Inputs, extra : Extras]
Revision == [status : {"published", "rolled_back"}, content : Content]
Place    == {"idle", "compile", "check", "publish", "accelerate", "prune",
             "delete", "confirm", "rollback", "invalidate"}
\* attempt: of the job; content: the CompileResult; base: the active revision
\* it read; target: of a rollback; ids: the rows a prune selected.
Context  == [attempt : 1..Tries, content : Content, base : Nat, target : Nat,
             ids : SUBSET Nat]

\* The type invariant of the rows, the job queue, the processes and the cache.
TypeOK ==
    /\ authored \in Content
    /\ DOMAIN revs \subseteq Nat \ {0}
    /\ revs \in [DOMAIN revs -> Revision]
    /\ active \in Nat
    /\ lock \in BOOLEAN
    /\ queue \in [1..Tries -> Nat]
    /\ pc \in [Procs -> Place]
    /\ ctx \in [Procs -> Context]
    /\ resolved \in Nat
    /\ reading \in [Readers -> Nat \cup {Idle}]
    /\ edits \in Nat /\ commands \in Nat /\ faults \in Nat
    /\ issued \in Nat
    /\ covered \in BOOLEAN

\* The domain has just been enabled with manifest_enabled: nothing published.
Init ==
    /\ authored \in Content
    /\ revs = [n \in {} |-> 0] /\ active = 0 /\ issued = 0
    /\ lock = FALSE
    /\ queue = [a \in 1..Tries |-> 0]
    /\ pc = [p \in Procs |-> "idle"]
    /\ ctx = [p \in Procs |-> [attempt |-> 1, content |-> authored, base |-> 0,
                               target |-> 0, ids |-> {}]]
    /\ resolved = 0
    /\ reading = [r \in Readers |-> Idle]
    /\ edits = 0 /\ commands = 0 /\ faults = 0
    /\ covered = FALSE

-----------------------------------------------------------------------------
(* Operators on the rows. *)

\* MAX(revision_number) of a set of numbers, 0 (null) for none.
Highest(S) == IF S = {} THEN 0 ELSE CHOOSE n \in S : \A m \in S : m <= n

\* Mutant: the target query forgets where('status', 'published').
Published_AnyStatus == DOMAIN revs

Published == {n \in DOMAIN revs : revs[n].status = "published"}

\* Mutant: counts the rows instead of taking the maximum.
NextRevision_Count == Cardinality(DOMAIN revs) + 1

NextRevision == Highest(DOMAIN revs) + 1

\* Beyond the newest Keep by number: `orderByDesc()->skip(Keep)`.
Prunable ==
    {n \in DOMAIN revs : Cardinality({m \in DOMAIN revs : m > n}) >= Keep}

\* What resolveFromDatabase returns: the active row if it is published.
Resolvable == IF active \in Published THEN active ELSE 0

At(p, from) == pc[p] = from
Goto(p, to) == pc' = [pc EXCEPT ![p] = to]
Fault       == faults < MaxFaults /\ faults' = faults + 1

-----------------------------------------------------------------------------
(* Authoring and the queue. *)

\* A job that will still compile: waiting in the queue or about to read.
Pending ==
    \/ \E a \in 1..Tries : queue[a] > 0
    \/ \E w \in Workers : pc[w] = "compile"

\* An observed model changes and its observer dispatches the unique job: the
\* dispatch is dropped while the lock is held.
Edit(c) ==
    /\ edits < MaxEdits /\ c # authored
    /\ authored' = c /\ edits' = edits + 1
    /\ lock' = TRUE
    /\ queue' = IF lock THEN queue ELSE [queue EXCEPT ![1] = @ + 1]
    /\ covered' = (~lock \/ Pending)
    /\ UNCHANGED <<rows, pc, ctx, caches, commands, faults>>

\* A compiled field outside PROXY_CONFIG_FIELDS (ui_config, tcm_config,
\* geo_rules, ...) changes: no observer dispatches.
EditUndispatched(c) ==
    /\ Undispatched
    /\ edits < MaxEdits /\ c.hashed # authored.hashed /\ c.extra = authored.extra
    /\ authored' = c /\ edits' = edits + 1
    /\ covered' = Pending
    /\ UNCHANGED <<rows, jobs, pc, ctx, caches, commands, faults>>

\* uniqueFor() seconds after the dispatch.
LockExpires ==
    /\ lock /\ lock' = FALSE
    /\ UNCHANGED <<authored, rows, queue, pc, ctx, caches, counts, covered>>

\* Mutant: a job is handed out although it is already reserved.
TakeJob_Twice(w, a) ==
    /\ At(w, "idle")
    /\ queue' = [queue EXCEPT ![a] = @ - 1]
    /\ ctx' = [ctx EXCEPT ![w].attempt = a]
    /\ Goto(w, "compile")
    /\ UNCHANGED <<authored, rows, lock, caches, counts, covered>>

\* A worker takes a waiting job and loads the domain.
TakeJob(w, a) ==
    /\ At(w, "idle") /\ queue[a] > 0
    /\ queue' = [queue EXCEPT ![a] = @ - 1]
    /\ ctx' = [ctx EXCEPT ![w].attempt = a]
    /\ Goto(w, "compile")
    /\ UNCHANGED <<authored, rows, lock, caches, counts, covered>>

\* Mutant: a failed attempt is not released back to the queue.
JobFails_NoRetry(w) ==
    /\ ~At(w, "idle") /\ Fault
    /\ Goto(w, "idle") /\ lock' = FALSE
    /\ UNCHANGED <<authored, rows, queue, ctx, caches, edits, commands, covered>>

\* The job throws or its worker is killed: retried until its last attempt; the
\* unique lock is released only when the job has failed for good.
JobFails(w) ==
    /\ ~At(w, "idle") /\ Fault
    /\ Goto(w, "idle")
    /\ IF ctx[w].attempt < Tries
       THEN /\ queue' = [queue EXCEPT ![ctx[w].attempt + 1] = @ + 1]
            /\ UNCHANGED lock
       ELSE lock' = FALSE /\ UNCHANGED queue
    /\ UNCHANGED <<authored, rows, ctx, caches, edits, commands, covered>>

-----------------------------------------------------------------------------
(* Compiling and publishing. *)

\* DomainCompiler::compile reads the configuration.
Compile(p) ==
    /\ At(p, "compile")
    /\ ctx' = [ctx EXCEPT ![p].content = authored]
    /\ Goto(p, "check")
    /\ UNCHANGED <<authored, rows, jobs, caches, counts, covered>>

SameInputs(n, p) == n \in DOMAIN revs /\ revs[n].content.hashed = ctx[p].content.hashed

\* The newest published revision has the compiled inputs: nothing to publish.
SkipJob(w) ==
    /\ At(w, "check") /\ SameInputs(Highest(Published), w)
    /\ Goto(w, "idle") /\ lock' = FALSE
    /\ UNCHANGED <<authored, rows, queue, ctx, caches, counts, covered>>

CheckJob(w) ==
    /\ At(w, "check") /\ ~SameInputs(Highest(Published), w)
    /\ Goto(w, "publish")
    /\ UNCHANGED <<authored, rows, jobs, ctx, caches, counts, covered>>

\* runtime:publish: the domain row, with its active_revision_id, is read first.
StartPublish(c) ==
    /\ At(c, "idle") /\ commands < MaxCommands
    /\ commands' = commands + 1
    /\ ctx' = [ctx EXCEPT ![c].base = active]
    /\ Goto(c, "compile")
    /\ UNCHANGED <<authored, rows, jobs, caches, edits, faults, covered>>

\* Unless forced, the command compares with the revision that was active.
CheckPublish(c) ==
    /\ At(c, "check")
    /\ \E force \in BOOLEAN :
          Goto(c, IF ~force /\ SameInputs(ctx[c].base, c) THEN "idle" ELSE "publish")
    /\ UNCHANGED <<authored, rows, jobs, ctx, caches, counts, covered>>

\* The publish transaction, serialised by FOR UPDATE on the domains row.
Publish(p) ==
    /\ At(p, "publish")
    /\ revs' = [n \in DOMAIN revs \cup {NextRevision} |->
                   IF n = NextRevision
                   THEN [status |-> "published", content |-> ctx[p].content]
                   ELSE revs[n]]
    /\ active' = NextRevision
    /\ issued' = Highest({issued, NextRevision})
    /\ Goto(p, "accelerate")
    /\ UNCHANGED <<authored, jobs, ctx, caches, counts, covered>>

\* postPublishAccelerate invalidates the resolver cache; a failure is caught.
\* (Its Redis mirror, its channel message and the warm-up feed other parts.)
Accelerate(p) ==
    /\ At(p, "accelerate")
    /\ \/ resolved' = 0 /\ UNCHANGED faults
       \/ Fault /\ UNCHANGED resolved
    /\ Goto(p, IF p \in Workers THEN "prune" ELSE "idle")
    /\ UNCHANGED <<authored, rows, jobs, ctx, reading, edits, commands, covered>>

\* pruneOldRevisions selects the old rows, then reads the active one; the job
\* is done when there are none.
PruneSelect(w) ==
    /\ At(w, "prune")
    /\ ctx' = [ctx EXCEPT ![w].ids = Prunable, ![w].base = active]
    /\ IF Prunable = {} THEN Goto(w, "idle") /\ lock' = FALSE
                        ELSE Goto(w, "delete") /\ UNCHANGED lock
    /\ UNCHANGED <<authored, rows, queue, caches, counts, covered>>

\* ... and deletes the selected rows but that one; the foreign key of
\* active_revision_id is ON DELETE SET NULL.
PruneDelete(w) ==
    /\ At(w, "delete")
    /\ LET doomed == ctx[w].ids \ {ctx[w].base}
       IN  /\ revs' = [n \in DOMAIN revs \ doomed |-> revs[n]]
           /\ active' = IF active \in doomed THEN 0 ELSE active
    /\ Goto(w, "idle") /\ lock' = FALSE
    /\ UNCHANGED <<authored, issued, queue, ctx, caches, counts, covered>>

-----------------------------------------------------------------------------
(* runtime:rollback. *)

\* The command picks the published revision before the active one and asks for
\* confirmation.  (A number given with --revision is not modelled.)
ChooseTarget(o) ==
    /\ At(o, "idle") /\ commands < MaxCommands /\ active # 0
    /\ commands' = commands + 1
    /\ \E t \in Published :
          /\ t < active /\ \A n \in Published : n < active => n <= t
          /\ ctx' = [ctx EXCEPT ![o].target = t]
    /\ Goto(o, "confirm")
    /\ UNCHANGED <<authored, rows, jobs, caches, edits, faults, covered>>

\* The transaction's reads: refresh the domain, find the published target.
RollbackRead(o) ==
    /\ At(o, "confirm")
    /\ ctx' = [ctx EXCEPT ![o].base = active]
    /\ Goto(o, IF ctx[o].target \in Published THEN "rollback" ELSE "idle")
    /\ UNCHANGED <<authored, rows, jobs, caches, counts, covered>>

\* Its writes: mark the revision it read as active, move the pointer.  The
\* foreign key refuses a target that is gone, and nothing is written.
RollbackCommit(o) ==
    /\ At(o, "rollback")
    /\ IF ctx[o].target \in DOMAIN revs
       THEN /\ revs' = [n \in DOMAIN revs |->
                           IF n = ctx[o].base THEN [revs[n] EXCEPT !.status = "rolled_back"]
                                              ELSE revs[n]]
            /\ active' = ctx[o].target
            /\ Goto(o, "invalidate")
       ELSE Goto(o, "idle") /\ UNCHANGED <<revs, active>>
    /\ UNCHANGED <<authored, issued, jobs, ctx, caches, counts, covered>>

\* rollback() invalidates the resolver cache before the command accelerates.
RollbackInvalidate(o) ==
    /\ At(o, "invalidate")
    /\ \/ resolved' = 0 /\ UNCHANGED faults
       \/ Fault /\ UNCHANGED resolved
    /\ Goto(o, "accelerate")
    /\ UNCHANGED <<authored, rows, jobs, ctx, reading, edits, commands, covered>>

-----------------------------------------------------------------------------
(* RevisionResolver::resolveActive. *)

\* A cache miss: the pointer and the row are read.
ResolveMiss(r) ==
    /\ reading[r] = Idle /\ resolved = 0
    /\ reading' = [reading EXCEPT ![r] = Resolvable]
    /\ UNCHANGED <<authored, rows, jobs, pc, ctx, resolved, counts, covered>>

\* The result is cached; a cached null is a miss for the next reader.
ResolvePut(r) ==
    /\ reading[r] # Idle
    /\ resolved' = reading[r]
    /\ reading' = [reading EXCEPT ![r] = Idle]
    /\ UNCHANGED <<authored, rows, jobs, pc, ctx, counts, covered>>

\* Mutant: Cache::forever.
ResolvedExpires_Never == FALSE /\ UNCHANGED vars

\* The entry's TTL runs out.
ResolvedExpires ==
    /\ resolved # 0 /\ resolved' = 0
    /\ UNCHANGED <<authored, rows, jobs, pc, ctx, reading, counts, covered>>

-----------------------------------------------------------------------------
JobStep(w) ==
    \/ \E a \in 1..Tries : TakeJob(w, a)
    \/ Compile(w) \/ SkipJob(w) \/ CheckJob(w) \/ Publish(w) \/ Accelerate(w)
    \/ PruneSelect(w) \/ PruneDelete(w)

PublishStep(c) == Compile(c) \/ CheckPublish(c) \/ Publish(c) \/ Accelerate(c)

RollbackStep(o) ==
    RollbackRead(o) \/ RollbackCommit(o) \/ RollbackInvalidate(o) \/ Accelerate(o)

Next ==
    \/ \E c \in Content : Edit(c) \/ EditUndispatched(c)
    \/ LockExpires
    \/ \E w \in Workers : JobStep(w) \/ JobFails(w)
    \/ \E c \in Publishers : StartPublish(c) \/ PublishStep(c)
    \/ \E o \in Operators : ChooseTarget(o) \/ RollbackStep(o)
    \/ \E r \in Readers : ResolveMiss(r) \/ ResolvePut(r)
    \/ ResolvedExpires

Spec == Init /\ [][Next]_vars

\* Workers keep working, started commands finish, readers finish, TTLs run out.
\* Nobody has to edit, to start a command or to make a request.
Fairness ==
    /\ \A w \in Workers : WF_vars(JobStep(w))
    /\ \A c \in Publishers : WF_vars(PublishStep(c))
    /\ \A o \in Operators : WF_vars(RollbackStep(o))
    /\ \A r \in Readers : WF_vars(ResolvePut(r))
    /\ WF_vars(LockExpires) /\ WF_vars(ResolvedExpires)

FairSpec == Spec /\ Fairness

-----------------------------------------------------------------------------
\* A revision number is never handed out twice, although old rows are pruned
\* while others publish: nextRevisionNumber is "monotonic per domain".
NumbersNeverReused ==
    [][\A p \in Procs : pc[p] = "publish" /\ pc'[p] = "accelerate" => active' > issued]_vars

\* The active revision is always one resolveActive can serve, whatever
\* publishes, prunes and rollbacks overlap; or the pointer is null.
ActiveResolvable ==
    active # 0 => active \in DOMAIN revs /\ revs[active].status = "published"

\* What computeInputsHash and the unique lock promise together: once edits
\* stop, and if a job that reads the last edit was queued for it, the active
\* revision holds the authored inputs, although jobs fail and are retried.
Served == active \in DOMAIN revs /\ revs[active].content.hashed = authored.hashed
QueuedEditsPublish == <>[](covered => Served)

\* The resolver cache ends with the active revision, or empty, whatever races
\* between a miss's read, its write and the invalidations.
ResolverConverges == <>[](resolved \in {0, active})

=============================================================================
