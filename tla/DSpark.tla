------------------------------- MODULE DSpark -------------------------------
(* DSpark speculative decoding of DeepSeek-V4 (DsparkSpec, DsparkDraft).     *)
(* The main model predicts the greedy token exactly when the keys and the    *)
(* compressed blocks a position may attend are those of the true prefix; the *)
(* compressors carry a register per window page.  A draft token is right or  *)
(* Bad; what the draft head reads is the ring of hidden states, whose owner  *)
(* and positions are kept here.                                              *)
EXTENDS SpecEngine, Compressor

CONSTANTS Page,    \* window page: positions that share a carry
          Win      \* window_size: slots of the ring

ASSUME DSparkAssumption == Page \in Nat \ {0} /\ Win \in Nat \ {0} /\ K + 1 <= Win

VARIABLES comp,    \* per row: page -> carry, and the compressed blocks
          ring     \* [uid, last, valid, at]: the ring of hidden states

dsVars == <<comp, ring>>

Pages == 0..(MaxSeq \div Page)
Blocks == 0..(MaxSeq \div Ratio)

PoolInit == [carry |-> [g \in Pages |-> EmptyRegister], cmp |-> [j \in Blocks |-> None]]
RingInit == [uid |-> None, last |-> -1, valid |-> 0, at |-> [i \in 0..(Win - 1) |-> None]]

(* the compressors over toks at positions p.., from register seed: a page     *)
(* keeps the register of its newest position, a completed block is scattered  *)
Advanced(cs, seed, p, toks) ==
    LET reg == Chain(seed, p, toks)
        AtOf(g) == {i \in 1..Len(toks) : (p + i - 1) \div Page = g}
        EndOf(j) == {i \in 1..Len(toks) : p + i = (j + 1) * Ratio}
    IN [carry |-> [g \in Pages |-> IF AtOf(g) # {}
                                   THEN reg[CHOOSE i \in AtOf(g) : \A k \in AtOf(g) : k <= i]
                                   ELSE cs.carry[g]],
        cmp |-> [j \in Blocks |-> IF EndOf(j) # {}
                                  THEN LET i == CHOOSE i \in EndOf(j) : TRUE
                                       IN Pooled(reg[i - 1], p + i - 1, toks[i])
                                  ELSE cs.cmp[j]]]

(* the carry a step at position p starts from: that of the previous position *)
CarryAt(cs, p) == cs.carry[(p - 1) \div Page]

TrueHalf(r, j) == [i \in 0..(Ratio - 1) |-> IF j < 0 THEN Empty ELSE Tok(r, j * Ratio + i + 1)]
PredictFrom(r, p, keys, cmp) ==
    IF /\ \A i \in 0..p : keys[i] = Tok(r, i + 1)
       /\ \A j \in 0..(((p + 1) \div Ratio) - 1) : cmp[j] = <<TrueHalf(r, j - 1), TrueHalf(r, j)>>
    THEN Tok(r, p + 2) ELSE Bad

-----------------------------------------------------------------------------
(* ring_reset, and ring_write of positions first..last of r: behind a gap     *)
(* only the new run counts                                                    *)
\* Mutant: the ring is not reset for a new owner.
RingFor_Kept(r) == ring
RingFor(r) == IF ring.uid = r THEN ring ELSE [RingInit EXCEPT !.uid = r, !.at = ring.at]
\* Mutant: the count of valid entries outgrows the window.
RingWrite_Uncapped(g, r, first, last) ==
    [uid |-> g.uid, last |-> last,
     valid |-> IF g.last >= 0 /\ first = g.last + 1 THEN g.valid + last - first + 1
                                                    ELSE last - first + 1,
     at |-> [i \in 0..(Win - 1) |->
               IF \E q \in first..last : q % Win = i
               THEN <<r, CHOOSE q \in first..last : q % Win = i>> ELSE g.at[i]]]
RingWrite(g, r, first, last) ==
    LET n == last - first + 1
        In(i) == {q \in first..last : q % Win = i}
    IN [uid |-> g.uid,
        last |-> last,
        valid |-> Least(Win, IF g.last >= 0 /\ first = g.last + 1 THEN g.valid + n ELSE n),
        at |-> [i \in 0..(Win - 1) |-> IF In(i) # {} THEN <<r, CHOOSE q \in In(i) : TRUE>>
                                                     ELSE g.at[i]]]

(* draft and _trim: the confident prefix of a block for place, place + 1, ... *)
DraftBlocks(r, place) ==
    {[i \in 1..n |-> IF right[i] THEN Tok(r, place + i - 1) ELSE Bad] :
        n \in 1..K, right \in [1..K -> BOOLEAN]}

-----------------------------------------------------------------------------
DsInit ==
    /\ EngineInit
    /\ comp = [s \in Slots |-> PoolInit]
    /\ ring = RingInit

(* A prompt in a prefill batch of its own.  The compressors end with a carry  *)
(* at the tail page; the ring takes the trailing window of hidden states, and *)
(* the first block is drafted whatever the request's sampling parameters.     *)
DsPrefill(r) ==
    /\ phase[r] = "waiting"
    /\ \E s \in FreeSlots :
        LET keys == Stored(kv[s], 0, seq[r])
            cs == Advanced(comp[s], EmptyRegister, 0, seq[r])
        IN  /\ kv' = [kv EXCEPT ![s] = keys]
            /\ comp' = [comp EXCEPT ![s] = cs]
            /\ Admit(r, s, PredictFrom(r, PromptLen - 1, keys, cs.cmp))
    /\ ring' = RingWrite(RingFor(r), r, Most(0, PromptLen - Win), PromptLen - 1)
    /\ \E d \in DraftBlocks(r, PromptLen + 2) : KeyTo(r, d, <<>>)
    /\ UNCHANGED <<sampling, graph>>

(* the normal forward: each row rolls its own register by one token *)
DsForward(S) ==
    LET cs == [r \in S |-> LET p == DeviceLen(r) - 1
                           IN Advanced(comp[table[r]], CarryAt(comp[table[r]], p), p, <<Input(r)>>)]
    IN  /\ comp' = [s \in Slots |-> IF \E r \in S : table[r] = s
                                    THEN cs[CHOOSE r \in S : table[r] = s] ELSE comp[s]]
        /\ Emitted(S, [r \in S |-> PredictFrom(r, DeviceLen(r) - 1, InputKeys(r), cs[r].cmp)])
        /\ UNCHANGED graph

DsPlainStep(S) == ~ SpecEligible(S) /\ DsForward(S) /\ UNCHANGED <<sp, ring>>

(* eligible, but neither a pop nor a round: the forward leaves the hidden     *)
(* state of the position it consumed, and after_main drafts from it           *)
DsBootStep(r, a) ==
    /\ SpecEligible({r})
    /\ ~ PopGate(r) /\ ~ RoundGate(r, a)
    /\ DsForward({r})
    /\ ring' = RingWrite(RingFor(r), r, DeviceLen(r) - 1, DeviceLen(r) - 1)
    /\ \E d \in DraftBlocks(r, DeviceLen(r) + 2) : KeyTo(r, d, <<>>)

DsPopStep(r) == Pop(r) /\ UNCHANGED <<comp, ring>>

(* The compressors after a round of toks at p of which n count: all of them,  *)
(* or the archived carry of the previous position's page rolled over n.       *)
\* Mutant: the accepted tokens are chained from the carry the verify left.
Refixed_NoRestore(before, verified, p, toks, n) ==
    IF n = Len(toks) THEN verified
    ELSE Advanced(verified, CarryAt(verified, p), p, SubSeq(toks, 1, n))
Refixed(before, verified, p, toks, n) ==
    IF n = Len(toks) THEN verified
    ELSE LET back == [verified EXCEPT !.carry[(p - 1) \div Page] = CarryAt(before, p)]
         IN Advanced(back, CarryAt(back, p), p, SubSeq(toks, 1, n))

DsRoundStep(r, a) ==
    /\ SpecEligible({r})
    /\ ~ PopGate(r) /\ RoundGate(r, a)
    /\ \E outcome \in IF Len(sp.draft) = K THEN CaptureOutcomes ELSE {"eager"} :
       LET p == DeviceLen(r) - 1
           toks == <<Input(r)>> \o sp.draft
           g == IF outcome = "eager" THEN graph ELSE Staged(outcome, r, p)
           tg == Target([state |-> outcome, slot |-> g.slot, at |-> g.at], r, p)
           keys == Stored(kv[tg.slot], tg.at, toks)
           before == comp[tg.slot]
           verified == Advanced(before, CarryAt(before, tg.at), tg.at, toks)
           rows == [i \in 1..Len(toks) |-> PredictFrom(r, p + i - 1, keys, verified.cmp)]
           m == Accepted(r, rows, sp.draft)
           emitted == RoundTokens(rows, sp.draft, m)
       IN  /\ kv' = [kv EXCEPT ![tg.slot] = keys]
           /\ comp' = [comp EXCEPT ![tg.slot] = Refixed(before, verified, p, toks, m + 1)]
           /\ ring' = RingWrite(ring, r, p, p + m)
           /\ RoundDone(r, p + Len(toks), emitted)
           /\ \E d \in DraftBlocks(r, p + m + 3) : KeyTo(r, d, Tail(emitted))
           /\ graph' = g

-----------------------------------------------------------------------------
DsDecode ==
    /\ Batch # {}
    /\ \E a \in Allocated(Batch) :
        /\ alloc' = a
        /\ \/ DsPlainStep(Batch)
           \/ \E r \in Batch : /\ Batch = {r}
                               /\ DsBootStep(r, a) \/ DsPopStep(r) \/ DsRoundStep(r, a)
    /\ UNCHANGED <<phase, table, sampling>>

DsDepart(r) == (Finish(r) \/ Stop(r)) /\ UNCHANGED <<comp, ring>>

-----------------------------------------------------------------------------
(* Between steps the carry a running request continues from is the register  *)
(* of its verified tokens, its keys and completed blocks are those of the    *)
(* true prefix: no rejected draft, nothing pooled twice.                     *)
CarryInStep == \A r \in Running :
    LET n == DeviceLen(r) - 1 + Ahead(r)
        row == comp[table[r]]
    IN  /\ CarryAt(row, n) = Chain(EmptyRegister, 0, Truth(r, n))[n]
        /\ \A i \in 0..(n - 1) : kv[table[r]][i] = Tok(r, i + 1)
        /\ \A j \in Blocks : (j + 1) * Ratio <= n => row.cmp[j] = <<TrueHalf(r, j - 1), TrueHalf(r, j)>>

(* The block a round will verify was drafted from the ring of its own        *)
(* request, ended at the last position that was verified, and every entry    *)
(* the ring counts as valid is that request's hidden state of its position.  *)
RingBehindDraft ==
    /\ \A q \in (ring.last - ring.valid + 1)..ring.last : ring.at[q % Win] = <<ring.uid, q>>
    /\ sp.draft # None => /\ ring.uid = sp.uid
                          /\ ring.last = sp.expect - 2 + Len(sp.cache) - sp.pos
=============================================================================
