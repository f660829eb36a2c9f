-------------------------- MODULE UpstreamRequests --------------------------
(***************************************************************************)
(* Requests on their way to IP-pinned origins: the pool of agents          *)
(* (agent-pool.js) and the part of a request between the upstream fetch    *)
(* and the end of the response (request-pipeline.js).                      *)
(*                                                                         *)
(* A request takes the agent of its origin from the pool, awaits the       *)
(* response headers, and streams the body.  Its guards - a 20 s timer and  *)
(* the listeners for a client that leaves - abort the fetch.  A timeout    *)
(* while headers are awaited destroys the origin's agent, and with it the  *)
(* other requests on it.  Agents are numbered as they are created.         *)
(***************************************************************************)
EXTENDS Naturals, FiniteSets, Sequences, SequencesExt

CONSTANTS
    Requests,
    Origins,      \* cache keys ip:hostname
    MaxEntries,   \* POOL_MAX_ENTRIES
    MaxAgents     \* bound: agents created

ASSUME PoolAssumption ==
    MaxEntries \in Nat \ {0} /\ MaxAgents \in Nat /\ IsFiniteSet(Origins)

VARIABLES
    pool,      \* pool[o]: the number of the agent cached for o, 0 if none
    recent,    \* the cached origins, the next to be displaced first
    agent,     \* the agents created: "live", "closing" (gracefully) or "destroyed"
    request    \* request[r]: where it is, its origin and agent, its guards

upstreamVars == <<pool, recent, agent, request>>
poolVars == <<pool, recent, agent>>

Streaming == {"html", "passthrough"}
Idle == [at |-> "idle", origin |-> "none", agent |-> 0, broken |-> FALSE,
         timer |-> FALSE, metrics |-> 0, end |-> "none"]
Request ==
    [at : {"idle", "headers", "done"} \cup Streaming,
     origin : Origins \cup {"none"}, agent : 0..MaxAgents,
     broken : BOOLEAN,       \* the body has failed
     timer : BOOLEAN,        \* the overall timeout is armed
     metrics : 0..1,         \* calls of recordMetric: never two
     end : {"none", "complete", "unrecorded", "error", "torn", "left"}]

TypeOK ==
    /\ pool \in [Origins -> 0..MaxAgents]
    /\ recent \in Seq(Origins)
    /\ agent \in Seq({"live", "closing", "destroyed"}) /\ Len(agent) <= MaxAgents
    /\ request \in [Requests -> Request]

Init ==
    /\ pool = [o \in Origins |-> 0] /\ recent = <<>> /\ agent = <<>>
    /\ request = [r \in Requests |-> Idle]

Cached == {o \in Origins : pool[o] # 0}
InFlight(r) == request[r].at \in {"headers"} \cup Streaming

-----------------------------------------------------------------------------
\* Mutant: the entry disappears instead of becoming empty.
RemoveEntry_Deletes(o, fate) ==
    /\ pool' = [x \in Origins \ {o} |-> pool[x]]
    /\ recent' = RemoveFirst(recent, o)
    /\ agent' = [agent EXCEPT ![pool[o]] = fate]

\* The cached entry of o is deleted; its agent becomes fate.
RemoveEntry(o, fate) ==
    /\ pool' = [pool EXCEPT ![o] = 0]
    /\ recent' = RemoveFirst(recent, o)
    /\ agent' = [agent EXCEPT ![pool[o]] = fate]

\* Mutant: the displaced agent is destroyed, not closed.
CreateAgent_Destroys(o) ==
    /\ pool[o] = 0
    /\ \/ /\ Cardinality(Cached) < MaxEntries
          /\ pool' = [pool EXCEPT ![o] = Len(agent) + 1]
          /\ recent' = Append(recent, o)
          /\ agent' = Append(agent, "live")
       \/ /\ Cardinality(Cached) >= MaxEntries
          /\ pool' = [pool EXCEPT ![Head(recent)] = 0, ![o] = Len(agent) + 1]
          /\ recent' = Append(Tail(recent), o)
          /\ agent' = Append([agent EXCEPT ![pool[Head(recent)]] = "destroyed"], "live")

\* A new agent; at the limit it displaces the least recently used, which may
\* have been used in the same millisecond as others.
CreateAgent(o) ==
    /\ pool[o] = 0
    /\ \/ /\ Cardinality(Cached) < MaxEntries
          /\ pool' = [pool EXCEPT ![o] = Len(agent) + 1]
          /\ recent' = Append(recent, o)
          /\ agent' = Append(agent, "live")
       \/ /\ Cardinality(Cached) >= MaxEntries
          /\ pool' = [pool EXCEPT ![Head(recent)] = 0, ![o] = Len(agent) + 1]
          /\ recent' = Append(Tail(recent), o)
          /\ agent' = Append([agent EXCEPT ![pool[Head(recent)]] = "closing"], "live")

\* The k-th of the cached origins is used again: it becomes the last, or stays
\* before others used in the same millisecond, among which the order is that of
\* insertion.
Touch(k) ==
    \E l \in k..Len(recent) :
       recent' = [i \in DOMAIN recent |->
                     IF i \in k..l - 1 THEN recent[i + 1] ELSE IF i = l THEN recent[k] ELSE recent[i]]

GetOrCreateAgent(o) ==
    \/ /\ pool[o] # 0
       /\ \E k \in DOMAIN recent : recent[k] = o /\ Touch(k)
       /\ UNCHANGED <<pool, agent>>
    \/ CreateAgent(o) /\ Len(agent) < MaxAgents

\* The idle cleanup closes an agent not used for five minutes, which is longer
\* than a request lives: its guards end it after twenty seconds.
IdleCleanup(o) ==
    /\ pool[o] # 0
    /\ \A r \in Requests : InFlight(r) => request[r].agent # pool[o]
    /\ RemoveEntry(o, "closing")
    /\ UNCHANGED request

\* Mutant: the destroyed agent stays in the pool.
DestroyAgent_Kept(o) ==
    /\ agent' = IF pool[o] = 0 THEN agent ELSE [agent EXCEPT ![pool[o]] = "destroyed"]
    /\ UNCHANGED <<pool, recent>>

\* destroyAgent: whichever agent the pool holds for the origin by now.
DestroyAgent(o) ==
    \/ pool[o] # 0 /\ RemoveEntry(o, "destroyed")
    \/ pool[o] = 0 /\ UNCHANGED poolVars

-----------------------------------------------------------------------------
\* The fetch begins and the guards are armed.
Start(r, o) ==
    /\ request[r].at = "idle"
    /\ GetOrCreateAgent(o)
    /\ request' = [request EXCEPT ![r] =
          [Idle EXCEPT !.at = "headers", !.origin = o, !.agent = pool'[o], !.timer = TRUE]]

\* Response headers arrive; HTML is transformed, anything else passed through.
Headers(r, kind) ==
    /\ request[r].at = "headers" /\ agent[request[r].agent] # "destroyed"
    /\ request' = [request EXCEPT ![r].at = kind]
    /\ UNCHANGED poolVars

\* A request ends: its guards are cleaned up.
Finish(r, how) ==
    request' = [request EXCEPT ![r].at = "done", ![r].timer = FALSE, ![r].end = how]

\* The same with one call of recordMetric.
FinishRecorded(r, how) ==
    request' = [request EXCEPT ![r].at = "done", ![r].timer = FALSE, ![r].end = how,
                               ![r].metrics = @ + 1]

\* The body ends.  After an internal error of the injector the handler of 'end'
\* throws (it names Sentry, which the file does not import) before it records.
BodyEnds(r) ==
    /\ request[r].at \in Streaming /\ ~request[r].broken
    /\ \/ FinishRecorded(r, "complete")
       \/ request[r].at = "html" /\ Finish(r, "unrecorded")
    /\ UNCHANGED poolVars

\* The body fails: a passthrough reply is torn down.  An error of the origin's
\* body does not travel down a chain of pipes, so an HTML reply neither ends
\* nor fails.
BodyFails(r) ==
    \/ request[r].at = "passthrough" /\ Finish(r, "torn")
    \/ request[r].at = "html" /\ request' = [request EXCEPT ![r].broken = TRUE]

\* The origin resets the connection, or its agent was destroyed.
ConnectionLost(r) ==
    /\ \/ request[r].at = "headers" /\ FinishRecorded(r, "error")
       \/ ~request[r].broken /\ BodyFails(r)
    /\ UNCHANGED poolVars

\* Mutant: the timer is cleared when the headers arrive.
TimesOut_HeadersOnly(r) ==
    /\ request[r].timer
    /\ request[r].at = "headers" /\ FinishRecorded(r, "error") /\ DestroyAgent(request[r].origin)

\* The overall timeout (or, while headers are awaited, the fetch's own): before
\* the headers it recycles the pool and answers 502; later it breaks the body;
\* after a client has left an HTML response it finds nothing to abort.
TimesOut(r) ==
    /\ request[r].timer
    /\ \/ /\ request[r].at = "headers"
          /\ FinishRecorded(r, "error") /\ DestroyAgent(request[r].origin)
       \/ /\ request[r].at = "passthrough" /\ Finish(r, "torn") /\ UNCHANGED poolVars
       \/ /\ request[r].at = "html"
          /\ request' = [request EXCEPT ![r].timer = FALSE, ![r].broken = TRUE]
          /\ UNCHANGED poolVars
       \/ /\ request[r].at = "done"
          /\ request' = [request EXCEPT ![r].timer = FALSE]
          /\ UNCHANGED poolVars

\* The client leaves: the fetch is aborted and nothing is recorded.  For HTML
\* neither 'end' nor 'error' follows, so its timer is left to run.
ClientLeaves(r) ==
    /\ \/ request[r].at \in {"headers", "passthrough"} /\ Finish(r, "left")
       \/ /\ request[r].at = "html"
          /\ request' = [request EXCEPT ![r].at = "done", ![r].end = "left"]
    /\ UNCHANGED poolVars

\* A response that has gone silent is ended by the server's connectionTimeout.
SocketTimesOut(r) == request[r].broken /\ ClientLeaves(r)

Next ==
    \/ \E r \in Requests, o \in Origins : Start(r, o)
    \/ \E r \in Requests : \E kind \in Streaming : Headers(r, kind)
    \/ \E r \in Requests :
          \/ BodyEnds(r) \/ ConnectionLost(r) \/ TimesOut(r) \/ ClientLeaves(r)
    \/ \E o \in Origins : IdleCleanup(o)

\* Timers fire.  Nothing makes an origin answer or a client leave.
Fairness ==
    \A r \in Requests : WF_upstreamVars(TimesOut(r)) /\ WF_upstreamVars(SocketTimesOut(r))

PoolSpec == Init /\ [][Next]_upstreamVars
FairSpec == PoolSpec /\ Fairness

-----------------------------------------------------------------------------
\* The pool hands out only live agents, each to one origin, and holds at most
\* MaxEntries of them however evictions, cleanups and timeouts interleave.
PoolSound ==
    /\ \A o \in Cached : agent[pool[o]] = "live"
    /\ \A o, p \in Cached : pool[o] = pool[p] => o = p
    /\ Cardinality(Cached) <= MaxEntries
    /\ ToSet(recent) = Cached /\ Len(recent) = Cardinality(Cached)

\* A fetch is cut off by its agent's destruction only when another request to
\* the same origin has timed out waiting for headers: eviction and idle cleanup
\* let the requests on an agent finish.
OnlyTimeoutsDestroy ==
    [][\A a \in DOMAIN agent :
          agent[a] # "destroyed" /\ agent'[a] = "destroyed" =>
             \E r \in Requests : /\ request[r].at = "headers" /\ request'[r].end = "error"
                                 /\ pool[request[r].origin] = a]_upstreamVars

\* Every request ends, whatever the origin does: before the headers and in a
\* passthrough by its own timer, an HTML page whose body failed by the socket's.
EveryRequestEnds == \A r \in Requests : InFlight(r) ~> ~InFlight(r)
=============================================================================
