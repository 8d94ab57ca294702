-------------------------- MODULE MCIngestionLoop --------------------------
(* Instances of IngestionLoop for TLC: model values for hashes and workers. *)
EXTENDS IngestionLoop, TLC

Symmetry == Permutations(Hash) \cup Permutations(Worker)
=============================================================================
