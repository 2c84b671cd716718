------------------------------- MODULE MCLok -------------------------------
(* Instances of LokEngine for TLC. *)
EXTENDS LokEngine, TLC

Symmetry == Permutations(Callers) \cup Permutations(Workers)
=============================================================================
