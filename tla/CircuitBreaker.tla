--------------------------- MODULE CircuitBreaker ---------------------------
(***************************************************************************)
(* The per-domain circuit breaker around the HTML transforms               *)
(* (services/proxy/circuit-breaker.js) together with the requests of       *)
(* request-pipeline.js that consult it before streaming a page and report  *)
(* to it when the stream ends.  Circuits of different domains share        *)
(* nothing, so one domain is modelled.                                     *)
(*                                                                         *)
(* Time is abstracted: which recorded errors have left the sliding window  *)
(* is a choice made when errors are pruned, and openedAt is an age.        *)
(***************************************************************************)
EXTENDS Naturals

CONSTANTS
    Slots,          \* slots for concurrently streamed HTML responses
    Threshold,      \* errors in the window that open the circuit (5)
    MaxFailures,    \* bound: transform failures in one behaviour
    GeoSkip         \* may a request be exempt from transforms by country?

ASSUME ParameterAssumption ==
    Threshold \in Nat \ {0} /\ MaxFailures \in Nat /\ GeoSkip \in BOOLEAN

VARIABLES
    state,      \* circuit.state
    errors,     \* Len(circuit.errors)
    age,        \* of openedAt: "hot" < cooldown <= "cooled" < 5 min <= "stale"
    request,    \* each slot: what shouldTransform answered, while streaming
    failures,   \* failures so far
    since,      \* history: failures recorded since errors was last emptied
    vanished    \* history: has a probe vanished since the last one was admitted?

circuit == <<state, errors, age, request, failures, since, vanished>>

Idle == [streaming |-> FALSE, allow |-> FALSE, probe |-> FALSE, skip |-> FALSE]

CircuitTypeOK ==
    /\ state \in {"closed", "open", "half_open"}
    /\ errors \in Nat
    /\ age \in {"hot", "cooled", "stale"}
    /\ request \in [Slots -> [streaming : BOOLEAN, allow : BOOLEAN,
                                 probe : BOOLEAN, skip : BOOLEAN]]
    /\ failures \in Nat
    /\ since \in Nat
    /\ vanished \in BOOLEAN

InitCircuit ==
    /\ state = "closed" /\ errors = 0 /\ age = "hot"
    /\ request = [r \in Slots |-> Idle]
    /\ failures = 0 /\ since = 0 /\ vanished = FALSE

-----------------------------------------------------------------------------
\* An HTML response starts: shouldTransform decides, and a cooled-down circuit
\* turns the request into the probe.  The country check comes after that.
Begin(r) ==
    LET probe == state = "open" /\ age # "hot"
    IN  /\ ~request[r].streaming
        /\ \E skip \in {FALSE, GeoSkip} :
              request' = [request EXCEPT ![r] =
                  [streaming |-> TRUE, probe |-> probe, skip |-> skip,
                   allow |-> probe \/ state = "closed"]]
        /\ state' = IF probe THEN "half_open" ELSE state
        /\ vanished' = (~probe /\ vanished)
        /\ UNCHANGED <<errors, age, failures, since>>

Finish(r) ==
    /\ request[r].streaming
    /\ request' = [request EXCEPT ![r] = Idle]

\* Mutant: the state is misspelled.
RecordSuccess_Misspelled ==
    /\ IF state = "half_open"
       THEN state' = "CLOSED" /\ errors' = 0 /\ age' = "hot" /\ since' = 0
       ELSE UNCHANGED <<state, errors, age, since>>

\* Mutant: a success never closes the circuit.
RecordSuccess_Nothing == UNCHANGED <<state, errors, age, since>>

\* recordSuccess: a success in half-open, whoever reports it, closes.
RecordSuccess ==
    /\ IF state = "half_open"
       THEN state' = "closed" /\ errors' = 0 /\ age' = "hot" /\ since' = 0
       ELSE UNCHANGED <<state, errors, age, since>>

\* Mutant: opens one failure early.
RecordFailure_Early ==
    IF state = "half_open"
    THEN /\ state' = "open" /\ age' = "hot"
         /\ UNCHANGED <<errors, since>>
    ELSE \E kept \in 0..errors :
            IF kept + 2 >= Threshold
            THEN state' = "open" /\ age' = "hot" /\ errors' = 0 /\ since' = 0
            ELSE errors' = kept + 1 /\ since' = since + 1 /\ UNCHANGED <<state, age>>

\* recordFailure: a failure in half-open reopens; otherwise, closed or open,
\* it is pushed, errors out of the window are pruned, the rest is counted.
RecordFailure ==
    IF state = "half_open"
    THEN /\ state' = "open" /\ age' = "hot"
         /\ UNCHANGED <<errors, since>>
    ELSE \E kept \in 0..errors :
            IF kept + 1 >= Threshold
            THEN state' = "open" /\ age' = "hot" /\ errors' = 0 /\ since' = 0
            ELSE errors' = kept + 1 /\ since' = since + 1 /\ UNCHANGED <<state, age>>

\* Mutant: a response skipped for its country does not report.
EndOk_SkippedSilent(r) ==
    /\ Finish(r)
    /\ IF request[r].allow /\ ~request[r].skip THEN RecordSuccess
       ELSE UNCHANGED <<state, errors, age, since>>
    /\ UNCHANGED <<failures, vanished>>

\* 'end' without an injection error; a bypassed response reports nothing.
EndOk(r) ==
    /\ Finish(r)
    /\ IF request[r].allow THEN RecordSuccess
       ELSE UNCHANGED <<state, errors, age, since>>
    /\ UNCHANGED <<failures, vanished>>

\* 'end' with injector.injectionError, or 'error' of the piped stream; neither
\* can come from a response whose transforms were skipped for its country.
EndFailed(r) ==
    /\ Finish(r)
    /\ request[r].allow /\ ~request[r].skip
    /\ failures < MaxFailures
    /\ failures' = failures + 1
    /\ RecordFailure
    /\ UNCHANGED vanished

\* The client leaves, or a stage before the last .pipe() fails: the outermost
\* stream is destroyed without 'end' or 'error', and nobody is told.
Abort(r) ==
    /\ Finish(r)
    /\ vanished' = (vanished \/ request[r].probe)
    /\ UNCHANGED <<state, errors, age, failures, since>>

Tick ==
    /\ state = "open" /\ age # "stale"
    /\ age' = IF age = "hot" THEN "cooled" ELSE "stale"
    /\ UNCHANGED <<state, errors, request, failures, since, vanished>>

\* cleanupStaleCircuits deletes the circuit; the next use creates a closed one.
\* (Deleting an error-free closed circuit changes nothing.)
Cleanup ==
    /\ state = "open" /\ age = "stale"
    /\ state' = "closed" /\ errors' = 0 /\ age' = "hot" /\ since' = 0
    /\ UNCHANGED <<request, failures, vanished>>

NextCircuit ==
    \/ \E r \in Slots : Begin(r) \/ EndOk(r) \/ EndFailed(r) \/ Abort(r)
    \/ Tick \/ Cleanup

CircuitSpec == InitCircuit /\ [][NextCircuit]_circuit

\* Requests keep arriving, streams end one way or another, time passes.
Fairness ==
    /\ \A r \in Slots : WF_circuit(Begin(r)) /\ WF_circuit(EndOk(r) \/ EndFailed(r) \/ Abort(r))
    /\ WF_circuit(Tick)

FairCircuit == CircuitSpec /\ Fairness

-----------------------------------------------------------------------------
\* The error list is always shorter than the threshold (it is emptied on
\* opening and never grows past it, although failures are also pushed while the
\* circuit is open), and it holds only failures since it was last emptied.
ErrorsBelowThreshold == errors < Threshold /\ errors <= since

\* From closed, or again from open, the cooldown starts only with the
\* Threshold-th failure since the error list was last emptied: a burst that a
\* probe or the cleanup has already answered never counts twice.
OpensAfterThreshold ==
    [][state # "half_open" /\ errors' = 0 /\ state' = "open" /\ failures' # failures
       => since + 1 >= Threshold]_circuit

\* A half-open circuit has its probe still streaming unless that stream has
\* vanished: late results of older requests and skipped probes leave the
\* half-open state, they never strand it.
HalfOpenHasProbe ==
    state = "half_open" => vanished \/ \E r \in Slots : request[r].probe

\* Once failures stop, the circuit closes and stays closed, unless a probe that
\* vanished has stranded it half-open.
Recovers == <>[](state = "closed" \/ (state = "half_open" /\ vanished))

=============================================================================
