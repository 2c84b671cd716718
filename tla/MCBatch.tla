------------------------------ MODULE MCBatch -------------------------------
(* Instances of BatchService for TLC. *)
EXTENDS BatchService, TLC

Symmetry == Permutations(Batches) \cup Permutations(Items)
              \cup Permutations(Submitters) \cup Permutations(Downloaders)
=============================================================================
