------------------------------ MODULE MCUpload ------------------------------
(* Instances of Upload for TLC: model values for intents, contents, workers *)
(* and requests.                                                           *)
EXTENDS Upload, TLC

Symmetry == Permutations(Intent) \cup Permutations(Hash) \cup Permutations(Worker)
              \cup Permutations(Call)
=============================================================================
