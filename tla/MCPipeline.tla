----------------------------- MODULE MCPipeline -----------------------------
(* Pipeline on small instances; the constants are in the .cfg files. *)
EXTENDS Pipeline, TLC

Symmetry == Permutations(Clusters) \cup Permutations(Workers)
=============================================================================
