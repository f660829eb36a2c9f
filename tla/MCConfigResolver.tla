-------------------------- MODULE MCConfigResolver --------------------------
(* Instances of ConfigResolver for TLC. *)
EXTENDS ConfigResolver, TLC

\* Editors are interchangeable; used in runs without liveness only.
EditorSymmetry == Permutations(Editors)
=============================================================================
