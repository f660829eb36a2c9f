---------------------------- MODULE MCEdgeCache ----------------------------
(* Instances of EdgeCache for TLC. *)
EXTENDS EdgeCache
=============================================================================
