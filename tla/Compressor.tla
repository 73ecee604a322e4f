----------------------------- MODULE Compressor -----------------------------
(* The rolling register of a DeepSeek-V4 compressor.  A position p falls in  *)
(* row p % Ratio of the B half; a completed block pools the previous block   *)
(* (the A half) with this one and moves B to A.  The ratio-128 register is   *)
(* the B half alone.  Values stand for the tokens they were projected from;  *)
(* the softmax pool of a set of rows stands for the rows themselves.         *)
EXTENDS Integers, Sequences

CONSTANTS Ratio,   \* compress_ratio
          Empty    \* a row never written: score -inf

ASSUME CompressorAssumption == Ratio \in Nat \ {0}

EmptyHalf == [i \in 0..(Ratio - 1) |-> Empty]
EmptyRegister == [a |-> EmptyHalf, b |-> EmptyHalf]

Completes(p) == (p + 1) % Ratio = 0

(* one position: the row is replaced, in the ratio-128 register that is all *)
HalfRolled(half, p, tok) == [half EXCEPT ![p % Ratio] = tok]
Rolled(reg, p, tok) ==
    LET b == HalfRolled(reg.b, p, tok)
    IN [a |-> IF Completes(p) THEN b ELSE reg.a, b |-> b]
Pooled(reg, p, tok) == <<reg.a, HalfRolled(reg.b, p, tok)>>

(* positions p, p+1, ... in one launch: the register after each of them *)
Chain(seed, p, toks) ==
    LET reg[i \in 0..Len(toks)] ==
          IF i = 0 THEN seed ELSE Rolled(reg[i - 1], p + i - 1, toks[i])
    IN reg
=============================================================================
