------------------------------- MODULE DsaTopk -------------------------------
(* The exact top-k over the live index scores of a decode step (class        *)
(* DsaTopk and the _tk_ kernels): a radix select over Passes digits, then a  *)
(* count, a scan and a write.  Launches run in order, the programs of a      *)
(* launch in any order; each program owns one tile of Block columns.  The    *)
(* state, counters and the selection buffer are reused by every call.        *)
EXTENDS NaiveAttn, Functions

CONSTANTS Width,    \* columns of the score row: page_width
          Block,    \* DsaTopk.BLOCK
          Passes,   \* digits of a key, most significant first
          Base,     \* values of a digit: NB
          Stale     \* a slot an earlier call selected

ASSUME TopkAssumption ==
    /\ Width \in Nat \ {0} /\ Block \in Nat /\ TopK <= Block
    /\ Passes \in Nat \ {0} /\ Base \in Nat \ {0, 1}

VARIABLE tk  \* [stage, done, pass, n, prefix, rem, hist, cnt, off, sel]

Tiles == 0..(CeilDiv(Width, Block) - 1)

(* A score is the sign and magnitude of a float, Half magnitudes wide; its   *)
(* key orders as unsigned integers do: -0 just below +0.                     *)
Power[k \in 0..Passes] == IF k = 0 THEN 1 ELSE Base * Power[k - 1]
Half == Power[Passes] \div 2
Key(x) == IF x.neg THEN Half - 1 - x.mag ELSE Half + x.mag
Floats == [neg : BOOLEAN, mag : 0..(Half - 1)]
AtLeastFloat(x, y) ==
    \/ x.mag = 0 /\ y.mag = 0
    \/ ~ x.neg /\ y.neg
    \/ ~ x.neg /\ ~ y.neg /\ x.mag >= y.mag
    \/ x.neg /\ y.neg /\ x.mag <= y.mag

(* torch.topk of k columns, in a prefill: any k of the largest, an unscored   *)
(* one standing for -inf and giving an empty entry                           *)
TopChoices(keys, pos, k) ==
    LET live == Scored(keys, pos)
    IN {S \in SUBSET live : /\ Cardinality(S) = Smaller(k, Cardinality(live))
                            /\ \A i \in S, j \in live \ S : AtLeastFloat(keys[i], keys[j])}

Columns(t) == {i \in 1..tk.n : (i - 1) \div Block = t}
Digit(key, pass) == (key \div Power[Passes - pass]) % Base
Prefix(key, pass) == key \div Power[Passes - pass]
Fast == tk.n <= TopK

(* the buffers between calls; all but sel are rewritten whole by the next    *)
TkRest == [stage |-> "idle", done |-> {}, pass |-> 1, n |-> 0, prefix |-> 0, rem |-> 0,
           hist |-> [d \in 0..(Base - 1) |-> 0],
           cnt |-> [t \in Tiles |-> [gt |-> 0, eq |-> 0]],
           off |-> [t \in Tiles |-> [gt |-> 0, eq |-> 0]],
           sel |-> [i \in 1..TopK |-> Stale]]

(* _tk_init *)
TkStarted(n) == [tk EXCEPT !.stage = "hist", !.done = {}, !.pass = 1, !.n = n, !.prefix = 0,
                           !.rem = TopK, !.hist = [d \in 0..(Base - 1) |-> 0]]

(* the last program of a launch lets the next one start *)
After(t, stage) ==
    IF tk.done \cup {t} = Tiles THEN [stage |-> stage, done |-> {}]
                                ELSE [stage |-> tk.stage, done |-> tk.done \cup {t}]
TileStep(stage, t) == tk.stage = stage /\ t \in Tiles \ tk.done

(* _tk_hist: a tile adds the digits of its keys that match the prefix *)
TkHist(score, t) ==
    /\ TileStep("hist", t)
    /\ LET Matches(d) == {i \in Columns(t) :
                            /\ Prefix(Key(score[i]), tk.pass - 1) = tk.prefix
                            /\ Digit(Key(score[i]), tk.pass) = d}
       IN tk' = [tk EXCEPT !.hist = [d \in 0..(Base - 1) |->
                                        IF Fast THEN @[d] ELSE @[d] + Cardinality(Matches(d))],
                           !.stage = After(t, "select").stage, !.done = After(t, "select").done]

(* _tk_select: the digit of the threshold, and how many keys of the larger    *)
(* digits are still to be kept                                                *)
AtOrAbove(d) == SumFunctionOnSet(tk.hist, d..(Base - 1))
\* Mutant: the histogram is not cleared for the next digit.
Cleared_Not == tk.hist
Cleared == [d \in 0..(Base - 1) |-> 0]
TkSelect ==
    /\ tk.stage = "select"
    /\ LET d == Cardinality({b \in 0..(Base - 1) : AtOrAbove(b) >= tk.rem}) - 1
           chosen == [tk EXCEPT !.prefix = @ * Base + d,
                                !.rem = @ - (AtOrAbove(d) - tk.hist[d]),
                                !.hist = Cleared]
       IN tk' = [(IF Fast THEN tk ELSE chosen) EXCEPT
                    !.pass = @ + 1, !.stage = IF tk.pass = Passes THEN "count" ELSE "hist"]

(* _tk_count and _tk_scan: how many keys of each tile lie above and at the    *)
(* threshold, and where its selections go: all those above first              *)
Above(score, t) == {i \in Columns(t) : Key(score[i]) > tk.prefix}
AtThreshold(score, t) == {i \in Columns(t) : Key(score[i]) = tk.prefix}
TkCount(score, t) ==
    /\ TileStep("count", t)
    /\ tk' = [tk EXCEPT !.cnt[t] = IF Fast THEN [gt |-> 0, eq |-> 0]
                                   ELSE [gt |-> Cardinality(Above(score, t)),
                                         eq |-> Cardinality(AtThreshold(score, t))],
                        !.stage = After(t, "scan").stage, !.done = After(t, "scan").done]

TkScan ==
    /\ tk.stage = "scan"
    /\ LET gt == [t \in Tiles |-> tk.cnt[t].gt]
           eq == [t \in Tiles |-> tk.cnt[t].eq]
           Before(t) == {u \in Tiles : u < t}
       IN tk' = [tk EXCEPT !.off = [t \in Tiles |->
                              [gt |-> SumFunctionOnSet(gt, Before(t)),
                               eq |-> SumFunction(gt) + SumFunctionOnSet(eq, Before(t))]],
                           !.stage = "write"]

(* _tk_write: a tile places its keys above the threshold, and those at it     *)
(* while some are still to be kept; short rows are copied by tile 0           *)
Rank(S, i) == Cardinality({j \in S : j < i})
Kept(place) == place - (TopK - tk.rem) < tk.rem
Written(score, row, t) ==
    LET gt == Above(score, t)
        eq == AtThreshold(score, t)
        At(i) == tk.off[t].eq + Rank(eq, i)
    IN [p \in 1..TopK |->
          IF \E i \in gt : tk.off[t].gt + Rank(gt, i) = p - 1
          THEN row[CHOOSE i \in gt : tk.off[t].gt + Rank(gt, i) = p - 1]
          ELSE IF \E i \in eq : Kept(At(i)) /\ At(i) = p - 1
          THEN row[CHOOSE i \in eq : Kept(At(i)) /\ At(i) = p - 1]
          ELSE tk.sel[p]]
Copied(row) == [p \in 1..TopK |-> IF p <= tk.n THEN row[p] ELSE NoSlot]
TkWrite(score, row, t) ==
    /\ TileStep("write", t)
    /\ tk' = [tk EXCEPT !.sel = IF Fast THEN IF t = 0 THEN Copied(row) ELSE @
                                ELSE Written(score, row, t),
                        !.stage = After(t, "done").stage, !.done = After(t, "done").done]

TkStep(score, row) ==
    \/ TkSelect \/ TkScan
    \/ \E t \in Tiles : TkHist(score, t) \/ TkCount(score, t) \/ TkWrite(score, row, t)

-----------------------------------------------------------------------------
(* When the last program has written, the selection is the exact top-k of    *)
(* the live keys whatever the order the programs ran in: no live key left    *)
(* out scores higher than one taken, none is taken twice, none is missing,   *)
(* and nothing of an earlier call is left in the buffer.                     *)
TopkExact(score, row) ==
    tk.stage = "done" =>
        LET got == {p \in 1..TopK : tk.sel[p] # NoSlot}
            cols == {i \in 1..tk.n : \E p \in got : tk.sel[p] = row[i]}
        IN /\ Cardinality(got) = Smaller(TopK, tk.n)
           /\ Cardinality(cols) = Cardinality(got)
           /\ \A i \in cols, j \in (1..tk.n) \ cols : AtLeastFloat(score[i], score[j])
=============================================================================
