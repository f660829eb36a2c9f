------------------------- MODULE MCUpstreamRequests -------------------------
(* Instances of UpstreamRequests for TLC. *)
EXTENDS UpstreamRequests
=============================================================================
