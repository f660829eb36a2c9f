---------------------------- MODULE EdgeMetrics ----------------------------
(***************************************************************************)
(* Request telemetry from the edge proxy to Laravel: the bounded queue and *)
(* the batch flush of services/proxy/metrics.js, the POST of               *)
(* postMetricsBatch, and ObservabilityController::ingest, which adds a     *)
(* batch to one row of traffic_metrics by reading the row and writing the  *)
(* sums.                                                                   *)
(*                                                                         *)
(* Events are numbered in the order they are recorded; those of one        *)
(* domain, minute and route are modelled, so all of them go to one row.    *)
(* The row is the multiset of events in its counters.  Every flush takes a *)
(* fresh batch id, so the idempotency check never finds one and is left    *)
(* out.                                                                    *)
(***************************************************************************)
EXTENDS Naturals, Sequences, FiniteSets

CONSTANTS
    MaxBatch,   \* METRICS_BATCH_SIZE
    MaxQueue,   \* METRICS_QUEUE_MAX
    Slots,      \* bound: flushes whose request or ingestion is in progress
    MaxEvents,  \* bound: events recorded in one behaviour
    MaxFaults   \* bound: requests that time out, get lost or are refused

ASSUME SizesAssumption == MaxBatch \in Nat \ {0} /\ MaxQueue \in Nat \ {0}
ASSUME EventsAssumption == MaxEvents \in Nat

VARIABLES
    queue,     \* events waiting, oldest first
    recorded,  \* totalEvents
    dropped,   \* droppedEvents
    lost,      \* history: which events were dropped
    acked,     \* history: events whose batch was answered with success
    flight,    \* each flush: its client side, its server side, its batch
    row,       \* how often each event is counted in traffic_metrics
    up,        \* "running", "draining" (stopAndDrain has been called), "gone"
    final,     \* the flush stopAndDrain awaits
    faults

proxy == <<queue, recorded, dropped, lost, acked>>
stop  == <<up, final>>
vars  == <<proxy, flight, row, stop, faults>>

Events == 1..MaxEvents
Counts == [Events -> Nat]
None   == [e \in Events |-> 0]
Flight == [client : {"idle", "waiting"}, server : {"idle", "sent", "read", "written"},
           events : Seq(Events), seen : Counts]
Idle   == [client |-> "idle", server |-> "idle", events |-> <<>>, seen |-> None]

\* The type invariant of the proxy's queue, the flushes and the row.
TypeOK ==
    /\ queue \in Seq(Events)
    /\ recorded \in 0..MaxEvents
    /\ dropped \in 0..recorded
    /\ lost \subseteq Events
    /\ acked \subseteq Events
    /\ flight \in [Slots -> Flight]
    /\ row \in Counts
    /\ up \in {"running", "draining", "gone"}
    /\ final \subseteq Slots
    /\ faults \in Nat

Init ==
    /\ queue = <<>> /\ recorded = 0 /\ dropped = 0 /\ lost = {} /\ acked = {}
    /\ flight = [s \in Slots |-> Idle]
    /\ row = None
    /\ up = "running" /\ final = {}
    /\ faults = 0

Least(m, n) == IF m <= n THEN m ELSE n
Elements(q) == {q[i] : i \in 1..Len(q)}
Take(q, n)  == SubSeq(q, 1, Least(n, Len(q)))
Rest(q, n)  == SubSeq(q, Least(n, Len(q)) + 1, Len(q))

Free(s)    == flight[s] = Idle
Waiting(s) == flight[s].client = "waiting" /\ up # "gone"
Fault      == faults < MaxFaults /\ faults' = faults + 1

-----------------------------------------------------------------------------
(* The proxy. *)

\* Mutant: flush copies the batch out of the queue instead of splicing it off.
Send_Slice(s, q) ==
    /\ Free(s)
    /\ queue' = q
    /\ flight' = [flight EXCEPT ![s] = [client |-> "waiting", server |-> "sent",
                                        events |-> Take(q, MaxBatch), seen |-> None]]

\* flush: splice a batch off the front of the queue and post it.
Send(s, q) ==
    /\ Free(s)
    /\ queue' = Rest(q, MaxBatch)
    /\ flight' = [flight EXCEPT ![s] = [client |-> "waiting", server |-> "sent",
                                        events |-> Take(q, MaxBatch), seen |-> None]]

\* recordMetric: at capacity the oldest event goes; at a full batch, flush.  A
\* request that outlives the shutdown's 8 s still records its event.
Record ==
    /\ up # "gone" /\ recorded < MaxEvents
    /\ recorded' = recorded + 1
    /\ LET full == Len(queue) >= MaxQueue
           next == Append(IF full THEN Tail(queue) ELSE queue, recorded + 1)
       IN  /\ dropped' = IF full THEN dropped + 1 ELSE dropped
           /\ lost' = IF full THEN lost \cup {Head(queue)} ELSE lost
           /\ IF Len(next) >= MaxBatch THEN \E s \in Slots : Send(s, next)
                                       ELSE queue' = next /\ UNCHANGED flight
    /\ UNCHANGED <<acked, row, stop, faults>>

\* Mutant: the timer waits for a full batch.
TimerFlush_FullBatch ==
    /\ up = "running" /\ Len(queue) >= MaxBatch
    /\ \E s \in Slots : Send(s, queue)
    /\ UNCHANGED <<recorded, dropped, lost, acked, row, stop, faults>>

\* The flush timer.
TimerFlush ==
    /\ up = "running" /\ queue # <<>>
    /\ \E s \in Slots : Send(s, queue)
    /\ UNCHANGED <<recorded, dropped, lost, acked, row, stop, faults>>

\* stopAndDrain, once the server has stopped taking requests: the timer stops
\* and one last flush is awaited.
StopAndDrain ==
    /\ up = "running" /\ up' = "draining"
    /\ IF queue = <<>>
       THEN UNCHANGED <<queue, flight, final>>
       ELSE \E s \in Slots : Send(s, queue) /\ final' = {s}
    /\ UNCHANGED <<recorded, dropped, lost, acked, row, faults>>

\* process.exit(0), also when the last flush has failed.
Exit ==
    /\ up = "draining" /\ \A s \in final : flight[s].client = "idle"
    /\ up' = "gone"
    /\ UNCHANGED <<proxy, flight, row, final, faults>>

\* The hard exit 10 s after the signal: the flush has up to 10 s of its own.
ForcedExit ==
    /\ up = "draining" /\ \E s \in final : flight[s].client = "waiting"
    /\ up' = "gone"
    /\ UNCHANGED <<proxy, flight, row, final, faults>>

\* Mutant: the failed batch goes back whole.
Restore_Unbounded(s) ==
    /\ queue' = flight[s].events \o queue
    /\ UNCHANGED <<lost, dropped>>

\* Mutant: the number dropped is added without asking whether any is.
Restore_NoTest(s) ==
    LET batch == flight[s].events
        space == MaxQueue - Len(queue)
    IN  /\ queue' = Take(batch, space) \o queue
        /\ lost' = lost \cup Elements(Rest(batch, space))
        /\ dropped' = dropped + Len(batch) - space

\* The catch block of flush: as much of the batch as fits goes back in front.
Restore(s) ==
    LET batch == flight[s].events
        space == MaxQueue - Len(queue)
    IN  /\ queue' = Take(batch, space) \o queue
        /\ lost' = lost \cup Elements(Rest(batch, space))
        /\ dropped' = dropped + (IF Len(batch) > space THEN Len(batch) - space ELSE 0)

\* The request times out or its connection fails; Laravel may not have got it,
\* or may still be working on it.
TimesOut(s) ==
    /\ Waiting(s) /\ Fault
    /\ Restore(s)
    /\ \/ flight[s].server = "sent" /\ flight' = [flight EXCEPT ![s] = Idle]
       \/ flight' = [flight EXCEPT ![s].client = "idle"]
    /\ UNCHANGED <<recorded, acked, row, stop>>

-----------------------------------------------------------------------------
(* ObservabilityController::ingest and the answer it gives. *)

\* A 5xx answer: flush restores the batch if it still waits.
Refuse(s) ==
    /\ flight' = [flight EXCEPT ![s] = Idle]
    /\ IF Waiting(s) THEN Restore(s) ELSE UNCHANGED <<queue, dropped, lost>>
    /\ UNCHANGED <<recorded, acked, row, stop>>

\* Laravel or its database fails: before the transaction commits, or when the
\* batch id is inserted after it.
IngestFails(s) == flight[s].server # "idle" /\ Fault /\ Refuse(s)

\* The transaction reads the row, without a lock.
IngestRead(s) ==
    /\ flight[s].server = "sent"
    /\ flight' = [flight EXCEPT ![s].server = "read", ![s].seen = row]
    /\ UNCHANGED <<proxy, row, stop, faults>>

\* It writes the sums it has computed from the row it read; a row it did not
\* see is created, unless another request has created it: a unique key.
IngestCommit(s) ==
    LET f == flight[s] IN
    /\ f.server = "read"
    /\ IF f.seen = None /\ row # None
       THEN Refuse(s) /\ UNCHANGED faults
       ELSE /\ row' = [e \in Events |-> f.seen[e] + (IF e \in Elements(f.events) THEN 1 ELSE 0)]
            /\ flight' = [flight EXCEPT ![s].server = "written"]
            /\ UNCHANGED <<proxy, stop, faults>>

\* The batch id is stored and the request is answered.
IngestReply(s) ==
    /\ flight[s].server = "written"
    /\ flight' = [flight EXCEPT ![s] = Idle]
    /\ acked' = IF Waiting(s) THEN acked \cup Elements(flight[s].events) ELSE acked
    /\ UNCHANGED <<queue, recorded, dropped, lost, row, stop, faults>>

Ingest(s) == IngestRead(s) \/ IngestCommit(s) \/ IngestReply(s)

Next ==
    \/ Record \/ TimerFlush \/ StopAndDrain \/ Exit \/ ForcedExit
    \/ \E s \in Slots : TimesOut(s) \/ Ingest(s) \/ IngestFails(s)

Spec == Init /\ [][Next]_vars

\* The timer keeps firing and Laravel answers; nobody has to send requests or
\* to stop the proxy.
Fairness == WF_vars(TimerFlush) /\ WF_vars(Exit) /\ \A s \in Slots : WF_vars(Ingest(s))

FairSpec == Spec /\ Fairness

-----------------------------------------------------------------------------
Held(s) == IF flight[s].client = "waiting" THEN Elements(flight[s].events) ELSE {}

\* Every event a living proxy has recorded is in exactly one place: waiting in
\* the queue, in one unanswered batch, acknowledged, or dropped and counted as
\* dropped; restoring failed batches in any order neither duplicates nor forgets
\* one.
Accounted == up # "gone" =>
    /\ Elements(queue) \cup acked \cup lost \cup UNION {Held(s) : s \in Slots} = 1..recorded
    /\ Elements(queue) \cap (acked \cup lost) = {} /\ acked \cap lost = {}
    /\ \A s \in Slots : Held(s) \cap (Elements(queue) \cup acked \cup lost) = {}
    /\ \A s, t \in Slots : s # t => Held(s) \cap Held(t) = {}
    /\ Cardinality(Elements(queue)) = Len(queue)
    /\ Cardinality(lost) = dropped

\* METRICS_QUEUE_MAX bounds the queue although failed batches come back to it.
QueueBounded == Len(queue) <= MaxQueue

\* Once requests stop failing, nothing stays behind in a running proxy.
Delivered == <>[](up = "running" => queue = <<>> /\ \A s \in Slots : ~Waiting(s))

=============================================================================
