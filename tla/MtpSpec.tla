------------------------------- MODULE MtpSpec -------------------------------
(* MTP self-speculative decoding of GLM5-Next (Glm5MtpSpec) over the         *)
(* recurrent layers it speculates on (KdaState).  The paged KV of a row maps *)
(* a position to the token whose key is stored there.  The main model        *)
(* predicts the greedy token exactly when both hold the true prefix.  A      *)
(* draft is right or Bad; the MTP layer's own KV only steers the drafts and  *)
(* is left out.  One Decode is one engine step (Engine.forward_batch).       *)
EXTENDS SpecEngine, KdaState

VARIABLES rec,      \* per slot: the state of the KDA layers
          klMode    \* FREETOKEN_GLM5_SPEC_KL

mtpVars == <<rec, klMode>>

Predict(r, p, state, keys) ==
    IF /\ state = Absorb(Zero, Truth(r, p + 1))
       /\ \A i \in 0..p : keys[i] = Tok(r, i + 1)
    THEN Tok(r, p + 2) ELSE Bad

Drafts(r, place) == {Tok(r, place), Bad}

MtpInit ==
    /\ EngineInit
    /\ rec = [s \in Slots \cup {Dummy} |-> Zero]
    /\ klMode \in BOOLEAN
    /\ klMode => graph.state = "failed"

(* Prefill of a fresh request in one batch; whatever an earlier request left  *)
(* in the row and the slot is still there.                                    *)
MtpPrefill(r) ==
    /\ phase[r] = "waiting"
    /\ \E s \in FreeSlots :
        LET keys == Stored(kv[s], 0, seq[r])
            pool == PrefillBranch(rec, <<[slot |-> s, fresh |-> TRUE, toks |-> seq[r],
                                          track |-> None, upto |-> 0]>>)
        IN  /\ rec' = pool
            /\ kv' = [kv EXCEPT ![s] = keys]
            /\ Admit(r, s, Predict(r, DeviceLen(r) - 1, pool[s], keys))
    /\ UNCHANGED <<sampling, sp, graph, klMode>>

(* the normal forward: each row's slot absorbs its input *)
Rows(S) == SetToSeq(S)
States(S) == DecodeBranch(rec, [i \in 1..Cardinality(S) |-> table[Rows(S)[i]]],
                               [i \in 1..Cardinality(S) |-> Input(Rows(S)[i])])

Forward(S) ==
    /\ rec' = States(S)
    /\ Emitted(S, [r \in S |-> Predict(r, DeviceLen(r) - 1, States(S)[table[r]], InputKeys(r))])
    /\ UNCHANGED graph

(* no eligible request: after_main finds nothing pending *)
PlainStep(S) == ~ SpecEligible(S) /\ Forward(S) /\ UNCHANGED sp

(* eligible, but neither a pop nor a round: the forward, then after_main      *)
(* drafts d1 and keys the speculative state to this request and length        *)
BootStep(r, a) ==
    /\ SpecEligible({r})
    /\ ~ PopGate(r) /\ ~ RoundGate(r, a)
    /\ Forward({r})
    /\ \E d \in Drafts(r, DeviceLen(r) + 2) : KeyTo(r, d, <<>>)

PopStep(r) == Pop(r) /\ UNCHANGED rec

-----------------------------------------------------------------------------
(* the capture's warmup runs the forward on the dummy slot *)
OnDummy(pool) == VerifyBranch(pool, Dummy, [i \in 1..(K + 1) |-> Bad])

(* the K+1 rows of the verify forward: row i sees the staggered prefix *)
VerifyRows(r, p, before, keys, toks) ==
    [i \in 1..(K + 1) |-> Predict(r, p + i - 1, Absorb(before, SubSeq(toks, 1, i)), keys)]

(* The recurrent state after a round that accepted m drafts: the KL mode      *)
(* replays the kept tokens one by one from the restored state, otherwise the  *)
(* state is recommitted only when a draft was rejected.                       *)
Settled(pool, slot, stash, m) ==
    IF klMode
    THEN LET back == SpecRestore(pool, slot, stash)
         IN [back EXCEPT ![slot] = Absorb(@, SubSeq(stash.toks, 1, m + 1))]
    ELSE IF m < K THEN SpecCommit(pool, slot, stash, m + 1) ELSE pool

(* the drafts of a round: d1 is carried, the chain adds K - 1 more *)
Chained(r, p) == {<<sp.draft>> \o [j \in 1..(K - 1) |->
                      IF right[j] THEN Tok(r, p + 2 + j) ELSE Bad] :
                  right \in [1..(K - 1) -> BOOLEAN]}

RoundStep(r, a) ==
    /\ SpecEligible({r})
    /\ ~ PopGate(r) /\ RoundGate(r, a)
    /\ \E outcome \in CaptureOutcomes, ds \in Chained(r, DeviceLen(r) - 1) :
       LET p == DeviceLen(r) - 1
           toks == <<Input(r)>> \o ds
           g == Staged(outcome, r, p)
           tg == Target(g, r, p)
           pool == IF graph.state = "none" /\ outcome = "captured" THEN OnDummy(rec) ELSE rec
           keys == Stored(kv[tg.slot], tg.at, toks)
           rows == VerifyRows(r, p, pool[tg.slot], keys, toks)
           m == Accepted(r, rows, ds)
           emitted == RoundTokens(rows, ds, m)
       IN  /\ kv' = [kv EXCEPT ![tg.slot] = keys]
           /\ rec' = Settled(VerifyBranch(pool, tg.slot, toks), table[r],
                             VerifyStash(pool, tg.slot, toks), m)
           /\ RoundDone(r, p + K + 1, emitted)
           /\ \E d \in Drafts(r, p + m + 3) : KeyTo(r, d, Tail(emitted))
           /\ graph' = g

-----------------------------------------------------------------------------
MtpDecode ==
    /\ Batch # {}
    /\ \E a \in Allocated(Batch) :
        /\ alloc' = a
        /\ \/ PlainStep(Batch)
           \/ \E r \in Batch : Batch = {r} /\ (BootStep(r, a) \/ PopStep(r) \/ RoundStep(r, a))
    /\ UNCHANGED <<phase, table, sampling, klMode>>

MtpDepart(r) == (Finish(r) \/ Stop(r)) /\ UNCHANGED <<rec, klMode>>

-----------------------------------------------------------------------------
(* Between steps the recurrent state and the keys of a running request stand *)
(* at the last verified token: no rejected draft in them, no token absorbed  *)
(* twice, nothing of the slot's previous request.                            *)
StateInStep == \A r \in Running :
    LET n == DeviceLen(r) - 1 + Ahead(r)
    IN  /\ rec[table[r]] = Absorb(Zero, Truth(r, n))
        /\ \A i \in 0..(n - 1) : kv[table[r]][i] = Tok(r, i + 1)
=============================================================================
