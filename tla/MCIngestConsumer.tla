-------------------------- MODULE MCIngestConsumer --------------------------
(* Instances of IngestConsumer for TLC: model values for entries and       *)
(* consumer names.                                                         *)
EXTENDS IngestConsumer, TLC

Symmetry == Permutations(Entry \ Bad) \cup Permutations(Consumer)
=============================================================================
