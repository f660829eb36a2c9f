------------------------ MODULE MCRevisionPublisher ------------------------
(* Instances of RevisionPublisher for TLC. *)
EXTENDS RevisionPublisher
=============================================================================
