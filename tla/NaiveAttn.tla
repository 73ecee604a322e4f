------------------------------ MODULE NaiveAttn ------------------------------
(* The Naive-N0.5 attention kernels as the lists of slots they read: one     *)
(* entry per key a query's softmax takes in, Sink for the per-head sink.     *)
(* The arithmetic of a key, the heads and the head dimensions are row-wise   *)
(* and left out.  Lists are what the launch passes; positions count from 0.  *)
EXTENDS Integers, FiniteSets, Sequences, SequencesExt

CONSTANTS TopK,     \* index_topk: entries of a selection
          Window,   \* sliding_window
          BlockN,   \* BLOCK_N: keys of a tile; a window decode reads half of one
          BlockT,   \* BLOCK_T: query tokens of an extend program
          NSplit,   \* NSPLIT: split-K programs of a decode
          Sink,     \* the sink's column
          NoSlot    \* -1 in a selection

ASSUME AttnAssumption ==
    /\ \A c \in {TopK, Window, BlockN, BlockT, NSplit} : c \in Nat \ {0}
    /\ TopK % BlockN = 0                    \* assert topk % 64 == 0
    /\ BlockN % 2 = 0

Smaller(a, b) == IF a <= b THEN a ELSE b
Larger(a, b) == IF a >= b THEN a ELSE b
CeilDiv(a, b) == (a + b - 1) \div b
Ascending(S) == [i \in 1..Cardinality(S) |-> CHOOSE x \in S : Cardinality({y \in S : y < x}) = i - 1]
(* the entries of a list at some of its places, in order *)
Entries(list, places) == LET at == Ascending(places) IN [i \in DOMAIN at |-> list[at[i]]]
Taken(sel) == Entries(sel, {p \in DOMAIN sel : sel[p] # NoSlot})

(* decode, stage 1: the part of a list that program sp reads, whole tiles *)
PartLen(n, tile) == CeilDiv(CeilDiv(n, NSplit), tile) * tile
Part(list, sp, tile) ==
    LET per == PartLen(Len(list), tile)
    IN SubSeq(list, sp * per + 1, Smaller((sp + 1) * per, Len(list)))
(* stage 2 merges the parts and adds the sink once *)
DecodeReads(list, tile) ==
    FlattenSeq([sp \in 1..NSplit |-> Taken(Part(list, sp - 1, tile))]) \o <<Sink>>

(* the window of a decode query at pos *)
WindowList(row, pos) == SubSeq(row, Larger(0, pos - Window + 1) + 1, Smaller(Len(row), pos + 1))

(* extend: query token tok of qLen behind a prefix; a program reads whole     *)
(* tiles for its BlockT tokens and masks them per token.  w = 0: no window.   *)
ExtendReads(row, prefix, qLen, tok, w) ==
    LET t0 == (tok \div BlockT) * BlockT
        last == prefix + Smaller(qLen, t0 + BlockT) - 1
        lo == IF w > 0 THEN (Larger(0, prefix + t0 - w + 1) \div BlockN) * BlockN ELSE 0
        allowed == {k \in lo..last : k <= prefix + tok /\ (w > 0 => k + w > prefix + tok)}
    IN <<Sink>> \o Entries(row, {k + 1 : k \in allowed})

(* sparse prefill: a token's selection, tile by tile *)
SparseReads(sel) == <<Sink>> \o Taken(sel)

(* indexer scores of n columns for a query at pos: a key is scored when it is *)
(* live and not later than the query                                          *)
Scored(keys, pos) == {j \in DOMAIN keys : j - 1 <= pos}
(* the chosen columns' slots, padded to TopK entries *)
Selection(row, S) ==
    LET chosen == Entries(row, S)
    IN [i \in 1..TopK |-> IF i <= Len(chosen) THEN chosen[i] ELSE NoSlot]
=============================================================================
