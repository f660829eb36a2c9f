--------------------------- MODULE WebSocketRelay ---------------------------
(***************************************************************************)
(* One WebSocket connection through the proxy (websocket-handler.js).      *)
(*                                                                         *)
(* The handler listens for the client's messages from the first moment,    *)
(* then awaits the configuration and the rate limit, and only then opens   *)
(* the upstream socket and attaches the handlers that tear both sides      *)
(* down.  A client may leave, and messages may arrive, during every await. *)
(* Messages are numbered in the order the client sends them.               *)
(***************************************************************************)
EXTENDS Naturals, Sequences

CONSTANTS
    Limit,       \* WS_BUFFER_LIMIT
    MaxSends,    \* bound: messages the client sends
    MaxReplies   \* bound: messages the upstream sends

ASSUME LimitAssumption == Limit \in Nat \ {0}

VARIABLES
    handler,    \* the async handler: awaiting "config", "limit"; "ready"; "refused"
    client,     \* readyState of the client's socket: "open", "closing", "closed"
    upstream,   \* the same of the upstream's, or "none", "connecting"
    sent,       \* messages the client has sent
    queue,      \* messageQueue
    wire,       \* messages handed to the upstream socket
    replies,    \* messages the upstream has sent
    shown,      \* those handed to the client's socket
    leftEarly   \* history: the client left before its close handler was attached

relayVars ==
    <<handler, client, upstream, sent, queue, wire, replies, shown, leftEarly>>
messages == <<sent, queue, wire, replies, shown>>

TypeOK ==
    /\ handler \in {"config", "limit", "ready", "refused"}
    /\ client \in {"open", "closing", "closed"}
    /\ upstream \in {"none", "connecting", "open", "closing", "closed"}
    /\ sent \in Nat /\ replies \in Nat
    /\ queue \in Seq(Nat) /\ wire \in Seq(Nat) /\ shown \in Seq(Nat)
    /\ leftEarly \in BOOLEAN
    /\ Len(queue) <= Limit

Init ==
    /\ handler = "config" /\ client = "open" /\ upstream = "none"
    /\ sent = 0 /\ queue = <<>> /\ wire = <<>>
    /\ replies = 0 /\ shown = <<>> /\ leftEarly = FALSE

-----------------------------------------------------------------------------
\* connection.close(code): a no-op unless the socket is open.
CloseClient == client' = IF client = "open" THEN "closing" ELSE client

\* Mutant: one message too many is buffered.
ClientSends_OffByOne ==
    /\ client \in {"open", "closing"} /\ sent < MaxSends
    /\ sent' = sent + 1
    /\ \/ /\ upstream = "open"
          /\ wire' = Append(wire, sent') /\ UNCHANGED <<queue, client>>
       \/ /\ upstream # "open" /\ Len(queue) <= Limit
          /\ queue' = Append(queue, sent') /\ UNCHANGED <<wire, client>>
       \/ /\ upstream # "open" /\ Len(queue) > Limit
          /\ CloseClient /\ UNCHANGED <<queue, wire>>
    /\ UNCHANGED <<handler, upstream, replies, shown, leftEarly>>

\* The 'message' event, which still fires while the socket is closing: to the
\* upstream if it is open, else into the queue; at the limit the message is
\* dropped and the connection closed with 1013.
ClientSends ==
    /\ client \in {"open", "closing"} /\ sent < MaxSends
    /\ sent' = sent + 1
    /\ \/ /\ upstream = "open"
          /\ wire' = Append(wire, sent') /\ UNCHANGED <<queue, client>>
       \/ /\ upstream # "open" /\ Len(queue) < Limit
          /\ queue' = Append(queue, sent') /\ UNCHANGED <<wire, client>>
       \/ /\ upstream # "open" /\ Len(queue) >= Limit
          /\ CloseClient /\ UNCHANGED <<queue, wire>>
    /\ UNCHANGED <<handler, upstream, replies, shown, leftEarly>>

\* The awaits: the configuration names an origin, the rate limit allows.
ConfigFound ==
    /\ handler = "config" /\ handler' = "limit"
    /\ UNCHANGED <<client, upstream, messages, leftEarly>>

\* No configuration, a failed lookup, or no permission: close and return.
Refuse ==
    /\ handler \in {"config", "limit"} /\ handler' = "refused"
    /\ CloseClient
    /\ UNCHANGED <<upstream, messages, leftEarly>>

\* The upstream socket is created and the other handlers are attached.
Connect ==
    /\ handler = "limit" /\ handler' = "ready"
    /\ upstream' = "connecting"
    /\ UNCHANGED <<client, messages, leftEarly>>

\* Mutant: the queue is emptied from its end.
UpstreamOpens_Pops ==
    /\ upstream = "connecting" /\ upstream' = "open"
    /\ wire' = wire \o [i \in 1..Len(queue) |-> queue[Len(queue) + 1 - i]]
    /\ queue' = <<>>
    /\ UNCHANGED <<handler, client, sent, replies, shown, leftEarly>>

\* 'open' on the upstream socket: the queue is drained.
UpstreamOpens ==
    /\ upstream = "connecting" /\ upstream' = "open"
    /\ wire' = wire \o queue /\ queue' = <<>>
    /\ UNCHANGED <<handler, client, sent, replies, shown, leftEarly>>

\* 'message' on the upstream socket, shown to the client only while it is open.
UpstreamReplies ==
    /\ upstream \in {"open", "closing"} /\ replies < MaxReplies
    /\ replies' = replies + 1
    /\ shown' = IF client = "open" THEN Append(shown, replies') ELSE shown
    /\ UNCHANGED <<handler, client, upstream, sent, queue, wire, leftEarly>>

\* Mutant: the close handler leaves an upstream that is still connecting.
ClientCloses_OpenOnly ==
    /\ client # "closed" /\ client' = "closed"
    /\ leftEarly' = (handler \in {"config", "limit"})
    /\ upstream' = IF handler = "ready" /\ upstream = "open"
                   THEN "closing" ELSE upstream
    /\ UNCHANGED <<handler, messages>>

\* 'close' on the client's socket, by the client or at the end of a handshake
\* the proxy began; the handler exists only once the awaits are over.
ClientCloses ==
    /\ client # "closed" /\ client' = "closed"
    /\ leftEarly' = (handler \in {"config", "limit"})
    /\ upstream' = IF handler = "ready" /\ upstream \in {"open", "connecting"}
                   THEN "closing" ELSE upstream
    /\ UNCHANGED <<handler, messages>>

\* 'error' on the client's socket: the upstream is terminated.
ClientFails ==
    /\ client # "closed" /\ handler = "ready"
    /\ client' = "closed" /\ upstream' = "closed"
    /\ UNCHANGED <<handler, messages, leftEarly>>

\* 'close' on the upstream socket, by the upstream or at the end of a handshake.
UpstreamCloses ==
    /\ upstream \in {"open", "closing"} /\ upstream' = "closed"
    /\ CloseClient
    /\ UNCHANGED <<handler, messages, leftEarly>>

\* 'error' on the upstream socket, a refused connection included: the client's
\* socket is terminated.
UpstreamFails ==
    /\ upstream \in {"connecting", "open", "closing"}
    /\ upstream' = "closed" /\ client' = "closed"
    /\ UNCHANGED <<handler, messages, leftEarly>>

Next ==
    \/ ClientSends \/ ConfigFound \/ Refuse \/ Connect
    \/ UpstreamOpens \/ UpstreamReplies \/ UpstreamCloses \/ UpstreamFails
    \/ ClientCloses \/ ClientFails

\* Awaits end, a connection attempt ends, and a closing handshake ends (the
\* ws library destroys the socket of a peer that does not answer).
Fairness ==
    /\ WF_relayVars(ConfigFound \/ Refuse) /\ WF_relayVars(Connect \/ Refuse)
    /\ WF_relayVars(upstream = "connecting" /\ (UpstreamOpens \/ UpstreamFails))
    /\ WF_relayVars(upstream = "closing" /\ UpstreamCloses)
    /\ WF_relayVars(client = "closing" /\ ClientCloses)

RelaySpec == Init /\ [][Next]_relayVars
FairSpec == RelaySpec /\ Fairness

-----------------------------------------------------------------------------
\* The relay implements an ordered channel from the client to the upstream: no
\* message is lost, repeated or moved across the switch from the queue to the
\* open socket, in the awaits before the handlers are attached included, until
\* the client is told that its connection is over.
Channel == INSTANCE OrderedChannel WITH
    sent <- sent, waiting <- queue, received <- wire, intact <- (client = "open")
ImplementsChannel == Channel!Spec

\* Neither side is left with a dead peer: a client that leaves after the
\* handlers are attached takes the upstream connection with it, also while that
\* one is still connecting, and no client waits on an upstream that is gone or
\* was never opened.
PeersReleased ==
    /\ (client = "closed" /\ handler = "ready" /\ ~leftEarly) ~> (upstream = "closed")
    /\ (upstream = "closed" \/ handler = "refused") ~> (client = "closed")
=============================================================================
