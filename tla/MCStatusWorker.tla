--------------------------- MODULE MCStatusWorker ---------------------------
(* Instances of StatusWorker for TLC: entries are numbers, in the order of  *)
(* the stream, and consumer names are model values.                        *)
EXTENDS StatusWorker, TLC

Symmetry == Permutations(Consumer)
=============================================================================
