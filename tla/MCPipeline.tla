----------------------------- MODULE MCPipeline -----------------------------
(* Instances of Pipeline for TLC. *)
EXTENDS Pipeline, TLC

Symmetry == Permutations(Workers) \cup Permutations(Cancels) \cup Permutations(Approvals)
=============================================================================
