------------------------------ MODULE KdaState ------------------------------
(* The state a KDA layer keeps per slot of the linear state pool, and the    *)
(* branches of KdaAttention.forward that advance it.  The recurrent state is *)
(* the sequence of tokens the delta rule absorbed; the conv state holds the  *)
(* last ConvW = kernel - 1 inputs.  Gates, projections and norms are         *)
(* row-wise and carry no state: they are left out.                           *)
EXTENDS Integers, Sequences

CONSTANTS ConvW,   \* conv_kernel_size - 1
          Zeroed   \* the input a zeroed conv column stands for

ASSUME KdaAssumption == ConvW \in Nat \ {0}

Zero == [rec |-> <<>>, conv |-> [i \in 1..ConvW |-> Zeroed]]

(* the last ConvW inputs of a conv stream *)
Window(xs) == SubSeq(xs, Len(xs) - ConvW + 1, Len(xs))

(* one varlen sequence through the conv and the delta rule, from state st *)
Absorb(st, toks) == [rec |-> st.rec \o toks, conv |-> Window(st.conv \o toks)]

(* plain decode: row i reads and writes slot idx[i].  Real rows have slots of *)
(* their own; padded rows share the padding slot, where any row may be last.  *)
DecodeBranch(pool, idx, xs) ==
    [s \in DOMAIN pool |->
        IF \E i \in DOMAIN idx : idx[i] = s
        THEN Absorb(pool[s], <<xs[CHOOSE i \in DOMAIN idx : idx[i] = s]>>)
        ELSE pool[s]]

(* Prefill of requests [slot, fresh, toks, track, upto]: fresh slots are      *)
(* zeroed, the state at the tracked boundary goes to the snapshot slot before *)
(* the batch's final states are scattered.                                    *)
Filled(pool, reqs) ==
    [s \in DOMAIN pool |->
        IF \E i \in DOMAIN reqs : reqs[i].slot = s /\ reqs[i].fresh THEN Zero ELSE pool[s]]

Snapshot(start, r) ==
    [rec |-> start.rec \o SubSeq(r.toks, 1, r.upto),
     conv |-> SubSeq(r.toks, r.upto - ConvW + 1, r.upto)]

PrefillBranch(pool, reqs) ==
    LET start == Filled(pool, reqs)
        OwnerOf(s) == {i \in DOMAIN reqs : reqs[i].slot = s}
        TrackOf(s) == {i \in DOMAIN reqs : reqs[i].upto > 0 /\ reqs[i].track = s}
    IN [s \in DOMAIN pool |->
         IF OwnerOf(s) # {}
         THEN LET r == reqs[CHOOSE i \in OwnerOf(s) : TRUE] IN Absorb(start[s], r.toks)
         ELSE IF TrackOf(s) # {}
         THEN LET r == reqs[CHOOSE i \in TrackOf(s) : TRUE] IN Snapshot(start[r.slot], r)
         ELSE start[s]]

(* Speculative verify: the rows of one request as one sequence; the state     *)
(* before it and its inputs are archived in the stash.                        *)
VerifyStash(pool, slot, toks) == [before |-> pool[slot], toks |-> toks]
VerifyBranch(pool, slot, toks) == [pool EXCEPT ![slot] = Absorb(@, toks)]

SpecRestore(pool, slot, stash) == [pool EXCEPT ![slot] = stash.before]
\* Mutant: the conv state is left where the rejected drafts put it.
SpecCommit_KeepConv(pool, slot, stash, keep) ==
    [pool EXCEPT ![slot].rec = stash.before.rec \o SubSeq(stash.toks, 1, keep)]
SpecCommit(pool, slot, stash, keep) ==
    [pool EXCEPT ![slot] =
        [rec |-> stash.before.rec \o SubSeq(stash.toks, 1, keep),
         conv |-> Window(stash.before.conv \o SubSeq(stash.toks, 1, keep))]]
=============================================================================
