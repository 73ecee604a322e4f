---------------------------- MODULE MCNaiveServe ----------------------------
EXTENDS NaiveServe, TLC

MCSymmetry == Permutations(Texts)

(* a negative first, then a tie of both zeros, then one above them *)
F(neg, mag) == [neg |-> neg, mag |-> mag]
MCScorings == { [p \in 0..(Width - 1) |-> F(p < 2, IF p \in {1, 2} THEN 0 ELSE 1)] }
=============================================================================
