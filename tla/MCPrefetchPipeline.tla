------------------------- MODULE MCPrefetchPipeline -------------------------
(* PrefetchPipeline on a small instance.                                   *)
EXTENDS PrefetchPipeline, TLC

Symmetry == Permutations(Experts)
=============================================================================
