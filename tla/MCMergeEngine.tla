---------------------------- MODULE MCMergeEngine ----------------------------
(* An instance of MergeEngine: two callers with one request. *)
EXTENDS MergeEngine

CONSTANTS m1, m2

OneTarget == [r \in {"r1"} |-> "main"]
TwoCandidates == [r \in {"r1"} |-> {"c1", "c2"}]

=============================================================================
