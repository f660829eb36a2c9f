------------------------ MODULE WebSocketRelay_proof ------------------------
(***************************************************************************)
(* Proofs about WebSocketRelay for any size of the buffer and any number   *)
(* of messages: type correctness, and that the relay implements            *)
(* OrderedChannel.                                                         *)
(***************************************************************************)
EXTENDS WebSocketRelay, SequenceTheorems, TLAPS

Known == wire \o queue

\* What the channel says of the messages that have come out or wait inside.
Sound ==
    /\ Channel!Ordered(Known)
    /\ \A i \in 1..Len(Known) : Known[i] \in 1..sent
    /\ client = "open" => Len(Known) = sent

\* The inductive invariant: a message is handed straight to the upstream only
\* when nothing is left in the queue that it could overtake.
IInv == TypeOK /\ Sound /\ (upstream = "open" => queue = <<>>)

-----------------------------------------------------------------------------
\* The actions that leave the client's messages where they are.
Elsewhere ==
    \/ ConfigFound \/ Refuse \/ Connect
    \/ UpstreamReplies \/ UpstreamCloses \/ UpstreamFails
    \/ ClientCloses \/ ClientFails

LEMMA ElsewhereType == TypeOK /\ Elsewhere => TypeOK'
<1> SUFFICES ASSUME TypeOK, Elsewhere PROVE TypeOK'
  OBVIOUS
<1> USE DEF TypeOK, messages
<1>1. CASE ConfigFound \/ Refuse \/ Connect
  BY <1>1 DEF ConfigFound, Refuse, Connect, CloseClient
<1>2. CASE UpstreamReplies
  <2>1. replies' \in Nat
    BY <1>2 DEF UpstreamReplies
  <2>2. shown' \in Seq(Nat)
    BY <1>2, <2>1 DEF UpstreamReplies
  <2> QED
    BY <1>2, <2>1, <2>2 DEF UpstreamReplies
<1>3. CASE UpstreamCloses \/ UpstreamFails
  BY <1>3 DEF UpstreamCloses, UpstreamFails, CloseClient
<1>4. CASE ClientCloses
  BY <1>4 DEF ClientCloses
<1>5. CASE ClientFails
  BY <1>5 DEF ClientFails
<1> QED
  BY <1>1, <1>2, <1>3, <1>4, <1>5 DEF Elsewhere

LEMMA ElsewhereFrame ==
    Elsewhere => /\ UNCHANGED <<sent, queue, wire>>
                 /\ client' = "open" => client = "open"
                 /\ upstream' = "open" => upstream = "open"
BY DEF Elsewhere, ConfigFound, Refuse, Connect, UpstreamReplies, UpstreamCloses,
       UpstreamFails, ClientCloses, ClientFails, CloseClient, messages

LEMMA SendType == TypeOK /\ ClientSends => TypeOK'
<1> SUFFICES ASSUME TypeOK, ClientSends PROVE TypeOK'
  OBVIOUS
<1> USE LimitAssumption DEF TypeOK, ClientSends, CloseClient
<1>1. sent' \in Nat /\ client' \in {"open", "closing", "closed"}
  OBVIOUS
<1>2. wire' \in Seq(Nat) /\ queue' \in Seq(Nat) /\ Len(queue') <= Limit
  <2>1. CASE wire' = Append(wire, sent') /\ queue' = queue
    BY <1>1, <2>1
  <2>2. CASE wire' = wire /\ queue' = Append(queue, sent') /\ Len(queue) < Limit
    <3>1. Len(queue') = Len(queue) + 1
      BY <2>2
    <3> QED
      BY <1>1, <2>2, <3>1
  <2>3. CASE wire' = wire /\ queue' = queue
    BY <2>3
  <2> QED
    BY <2>1, <2>2, <2>3
<1> QED
  BY <1>1, <1>2

LEMMA OpenType == TypeOK /\ UpstreamOpens => TypeOK'
BY LimitAssumption DEF TypeOK, UpstreamOpens

-----------------------------------------------------------------------------
\* A message with the next number keeps a sequence ordered.
LEMMA OrderedAppend ==
    ASSUME NEW s \in Seq(Nat), NEW n \in Nat, Channel!Ordered(s),
           \A i \in 1..Len(s) : s[i] \in 1..n
    PROVE  /\ Channel!Ordered(Append(s, n + 1))
           /\ \A i \in 1..Len(Append(s, n + 1)) : Append(s, n + 1)[i] \in 1..n + 1
           /\ Len(Append(s, n + 1)) = Len(s) + 1
<1> DEFINE t == Append(s, n + 1)
<1>1. Len(t) = Len(s) + 1 /\ t[Len(s) + 1] = n + 1 /\ \A i \in 1..Len(s) : t[i] = s[i]
  OBVIOUS
<1>2. \A i \in 1..Len(t) : t[i] \in 1..n + 1
  BY <1>1
<1>3. \A i, j \in 1..Len(t) : i < j => t[i] < t[j]
  <2> SUFFICES ASSUME NEW i \in 1..Len(t), NEW j \in 1..Len(t), i < j
               PROVE  t[i] < t[j]
    OBVIOUS
  <2>1. i \in 1..Len(s) /\ t[i] = s[i] /\ s[i] \in 1..n
    BY <1>1
  <2>2. CASE j \in 1..Len(s)
    BY <1>1, <2>1, <2>2 DEF Channel!Ordered
  <2>3. CASE j = Len(s) + 1
    BY <1>1, <2>1, <2>3
  <2> QED
    BY <1>1, <2>2, <2>3
<1> QED
  BY <1>1, <1>2, <1>3 DEF Channel!Ordered

\* A message sent is the last of those known, or known to nobody once the
\* client is being told.
LEMMA SendSound == IInv /\ ClientSends => Sound' /\ (upstream' = "open" => queue' = <<>>)
<1> SUFFICES ASSUME IInv, ClientSends
             PROVE  Sound' /\ (upstream' = "open" => queue' = <<>>)
  OBVIOUS
<1>0. /\ wire \in Seq(Nat) /\ queue \in Seq(Nat) /\ sent \in Nat /\ sent' = sent + 1
      /\ Known \in Seq(Nat)
  BY DEF IInv, TypeOK, Known, ClientSends
<1>1. client' = "open" => client = "open"
  BY DEF ClientSends, CloseClient
<1>2. ASSUME Known' = Append(Known, sent + 1) PROVE Sound'
  BY <1>0, <1>1, <1>2, OrderedAppend DEF IInv, Sound
<1>3. CASE upstream = "open"
  <2>1. queue = <<>> /\ queue' = <<>> /\ wire' = Append(wire, sent + 1)
    BY <1>0, <1>3 DEF IInv, ClientSends
  <2>2. Known' = Append(Known, sent + 1)
    BY <1>0, <2>1 DEF Known
  <2> QED
    BY <1>2, <2>1, <2>2
<1>4. CASE upstream # "open" /\ Len(queue) < Limit
  <2>1. wire' = wire /\ queue' = Append(queue, sent + 1) /\ upstream' = upstream
    BY <1>0, <1>4, LimitAssumption DEF ClientSends
  <2>2. Known' = Append(Known, sent + 1)
    BY <1>0, <2>1 DEF Known
  <2> QED
    BY <1>2, <1>4, <2>1, <2>2
<1>5. CASE upstream # "open" /\ ~(Len(queue) < Limit)
  <2>1. wire' = wire /\ queue' = queue /\ upstream' = upstream /\ client' # "open"
    BY <1>5 DEF ClientSends, CloseClient
  <2>2. Known' = Known
    BY <2>1 DEF Known
  <2>3. \A i \in 1..Len(Known) : Known[i] \in 1..sent'
    BY <1>0 DEF IInv, Sound
  <2> QED
    BY <1>5, <2>1, <2>2, <2>3 DEF IInv, Sound
<1> QED
  BY <1>3, <1>4, <1>5

\* Draining the queue moves messages from inside to outside, in their order.
LEMMA OpenSound == IInv /\ UpstreamOpens => Sound' /\ (upstream' = "open" => queue' = <<>>)
<1> SUFFICES ASSUME IInv, UpstreamOpens
             PROVE  Sound' /\ (upstream' = "open" => queue' = <<>>)
  OBVIOUS
<1>1. queue' = <<>> /\ wire' = wire \o queue /\ sent' = sent /\ client' = client
  BY DEF UpstreamOpens
<1>2. Known' = Known
  BY <1>1 DEF Known, IInv, TypeOK
<1> QED
  BY <1>1, <1>2 DEF IInv, Sound

LEMMA ElsewhereSound == IInv /\ Elsewhere => Sound' /\ (upstream' = "open" => queue' = <<>>)
<1> SUFFICES ASSUME IInv, Elsewhere
             PROVE  Sound' /\ (upstream' = "open" => queue' = <<>>)
  OBVIOUS
<1>1. Known' = Known
  BY ElsewhereFrame DEF Known
<1> QED
  BY <1>1, ElsewhereFrame DEF IInv, Sound

LEMMA Cases == Next => ClientSends \/ UpstreamOpens \/ Elsewhere
BY DEF Next, Elsewhere

LEMMA Inductive == RelaySpec => []IInv
<1>1. Init => IInv
  <2> SUFFICES ASSUME Init PROVE IInv
    OBVIOUS
  <2>1. Known = <<>>
    BY DEF Init, Known
  <2>2. Sound
    BY <2>1 DEF Init, Sound, Channel!Ordered
  <2>3. TypeOK
    <3>1. queue \in Seq(Nat) /\ wire \in Seq(Nat) /\ shown \in Seq(Nat)
      BY DEF Init
    <3>2. Len(queue) <= Limit
      BY LimitAssumption DEF Init
    <3>3. leftEarly \in BOOLEAN
      BY DEF Init
    <3> QED
      BY <3>1, <3>2, <3>3 DEF Init, TypeOK
  <2> QED
    BY <2>2, <2>3 DEF Init, IInv
<1>2. IInv /\ [Next]_relayVars => IInv'
  <2> SUFFICES ASSUME IInv, [Next]_relayVars PROVE IInv'
    OBVIOUS
  <2>1. CASE ClientSends
    BY <2>1, SendType, SendSound DEF IInv
  <2>2. CASE UpstreamOpens
    BY <2>2, OpenType, OpenSound DEF IInv
  <2>3. CASE Elsewhere
    BY <2>3, ElsewhereType, ElsewhereSound DEF IInv
  <2>4. CASE UNCHANGED relayVars
    <3>1. UNCHANGED <<sent, queue, wire, client, upstream>> /\ TypeOK'
      BY <2>4 DEF relayVars, IInv, TypeOK
    <3>2. Known' = Known
      BY <3>1 DEF Known
    <3> QED
      BY <3>1, <3>2 DEF IInv, Sound
  <2> QED
    BY <2>1, <2>2, <2>3, <2>4, Cases
<1> QED
  BY <1>1, <1>2, PTL DEF RelaySpec

-----------------------------------------------------------------------------
\* Type correctness, the limit of the buffer included, for every limit.
THEOREM TypeCorrect == RelaySpec => []TypeOK
<1>1. IInv => TypeOK
  BY DEF IInv
<1> QED
  BY <1>1, Inductive, PTL

\* What has come out is never taken back.
LEMMA PrefixKept == TypeOK /\ [Next]_relayVars => Channel!IsPrefix(wire, wire')
<1> SUFFICES ASSUME TypeOK, [Next]_relayVars PROVE Channel!IsPrefix(wire, wire')
  OBVIOUS
<1>1. wire \in Seq(Nat) /\ queue \in Seq(Nat) /\ sent \in Nat
  BY DEF TypeOK
<1>2. CASE wire' = wire
  BY <1>1, <1>2 DEF Channel!IsPrefix
<1>3. CASE wire' = Append(wire, sent + 1)
  BY <1>1, <1>3 DEF Channel!IsPrefix
<1>4. CASE wire' = wire \o queue
  BY <1>1, <1>4 DEF Channel!IsPrefix
<1>5. wire' = wire \/ wire' = Append(wire, sent + 1) \/ wire' = wire \o queue
  BY ElsewhereFrame, Cases DEF ClientSends, UpstreamOpens, relayVars
<1> QED
  BY <1>2, <1>3, <1>4, <1>5

LEMMA StepRefines == IInv /\ IInv' /\ [Next]_relayVars => [Channel!Step]_Channel!channel
<1> SUFFICES ASSUME IInv, IInv', [Next]_relayVars PROVE Channel!Step
  OBVIOUS
<1>1. sent' \in {sent, sent + 1} /\ (client' = "open" => client = "open")
  BY ElsewhereFrame, Cases DEF ClientSends, UpstreamOpens, CloseClient, relayVars
<1>2. Channel!IsPrefix(wire, wire')
  BY PrefixKept DEF IInv
<1> QED
  BY <1>1, <1>2 DEF IInv, Sound, Known, Channel!Step

\* The relay implements the ordered channel for every size of the buffer: no
\* message is repeated or overtaken, and none is missing while the client's
\* socket is open.
THEOREM RelayIsChannel == RelaySpec => ImplementsChannel
<1>1. Init => Channel!Init
  BY DEF Init, Channel!Init
<1> QED
  BY <1>1, Inductive, StepRefines, PTL DEF RelaySpec, ImplementsChannel, Channel!Spec
=============================================================================
