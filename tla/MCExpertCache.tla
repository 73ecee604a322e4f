---------------------------- MODULE MCExpertCache ----------------------------
(* ExpertCache on small instances; the experts of a layer are alike.       *)
EXTENDS ExpertCache, TLC

Symmetry == Permutations(Experts)
=============================================================================
