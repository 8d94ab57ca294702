--------------------------- MODULE MCDocumentIndex ---------------------------
(* Instances of DocumentIndex: a document has three chunks under either    *)
(* kind of filename, and two after the configuration has changed.          *)
EXTENDS DocumentIndex, TLC

Kinds == {"md", "txt"}
Counts == [v \in Splitting |-> IF v.config = 1 THEN 3 ELSE 2]

(* Of its last job an idle process keeps the configuration alone.          *)
Relevant ==
    <<points, registry, current, history, resetting,
      [p \in Process |-> IF Active(p) THEN job[p]
                         ELSE [pc |-> "idle", config |-> job[p].splitting.config]]>>

Symmetry == Permutations(Process)
=============================================================================
