--------------------------- MODULE MCEdgeMetrics ---------------------------
(* Instances of EdgeMetrics for TLC. *)
EXTENDS EdgeMetrics
=============================================================================
