--------------------------- MODULE OrderedChannel ---------------------------
(***************************************************************************)
(* What a relay of messages promises, without saying how.  The messages    *)
(* 1, 2, 3 ... put in at one end wait inside and come out at the other.    *)
(* As long as the sender has not been told that the connection is over,    *)
(* each is inside or has come out, in the order sent; afterwards messages  *)
(* may be missing, but none is repeated or overtakes another.              *)
(***************************************************************************)
EXTENDS Naturals, Sequences, SequencesExt

VARIABLES
    sent,       \* the number of messages put in
    waiting,    \* those inside the relay
    received,   \* those that have come out, in order
    intact      \* the sender has not been told that the connection is over

channel == <<sent, waiting, received, intact>>

Init == sent = 0 /\ waiting = <<>> /\ received = <<>> /\ intact = TRUE

Ordered(messages) ==
    \A i, j \in 1..Len(messages) : i < j => messages[i] < messages[j]

Step ==
    /\ sent' \in {sent, sent + 1}
    /\ intact' => intact
    /\ IsPrefix(received, received')
    /\ LET known == received' \o waiting'
       IN  /\ Ordered(known)
           /\ \A i \in 1..Len(known) : known[i] \in 1..sent'
           /\ intact' => Len(known) = sent'

Spec == Init /\ [][Step]_channel
=============================================================================
