-------------------------- MODULE MCWebSocketRelay --------------------------
(* Instances of WebSocketRelay for TLC. *)
EXTENDS WebSocketRelay
=============================================================================
