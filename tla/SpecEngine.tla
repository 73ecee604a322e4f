----------------------------- MODULE SpecEngine -----------------------------
(* What the two speculative decoders (Glm5MtpSpec, DsparkSpec) share: the    *)
(* requests as the scheduler sees them (one token per step), the horizon of  *)
(* preallocated pages, and the single-slot speculative state keyed by        *)
(* (uid, device_len) with its cache of verified tokens.  A token is named by *)
(* its request and its place; Bad is any token that is not the greedy one.   *)
EXTENDS Integers, Sequences, FiniteSets, SequencesExt

CONSTANTS Reqs, PromptLen, MaxLen,   \* as in GreedyDecode
          K,           \* draft tokens per round: k, or the draft block
          MaxSeq,      \* engine max_seq_len: columns of a page table row
          Slots,       \* table rows, and the slots of per-request state
          Dummy,       \* the scratch row of eng.dummy_req
          None

ASSUME SpecAssumption ==
    /\ PromptLen \in Nat \ {0} /\ MaxLen \in Nat /\ MaxSeq \in Nat /\ K \in Nat \ {0}
    /\ PromptLen < MaxLen /\ MaxLen <= MaxSeq
    /\ None \notin Slots /\ Dummy \notin Slots

VARIABLES seq,      \* per request: the tokens it has, prompt first
          phase,    \* per request: "waiting", "running", "over"
          table,    \* per request: its table row, or None
          alloc,    \* per request: spec_alloc_len
          wrote,    \* per request: positions below it have been written
          sampling, \* requests whose sampling parameters are not greedy
          sp,       \* [uid, expect, draft, cache, pos]: the speculative state
          kv,       \* per row: position -> token whose key is stored, or None
          graph     \* the captured verify graph and what is staged in it

engineVars == <<seq, phase, table, alloc, wrote, sampling, sp, kv, graph>>

Bad == <<>>
Tok(r, i) == <<r, i>>
Truth(r, n) == [i \in 1..n |-> Tok(r, i)]
Positions == 0..(MaxSeq - 1)
Least(a, b) == IF a <= b THEN a ELSE b
Most(a, b) == IF a >= b THEN a ELSE b

DeviceLen(r) == Len(seq[r])
RemainLen(r) == MaxLen - DeviceLen(r)
CanDecode(r) == RemainLen(r) > 0
Input(r) == seq[r][DeviceLen(r)]
Running == {r \in Reqs : phase[r] = "running"}
Batch == {r \in Running : CanDecode(r)}     \* the scheduler's decode batch
FreeSlots == Slots \ {table[r] : r \in Running}

(* stores toks at positions p, p+1, ...: the out_loc of a batch *)
Stored(keys, p, toks) ==
    [i \in Positions |-> IF i \in p..(p + Len(toks) - 1) THEN toks[i - p + 1] ELSE keys[i]]

EngineInit ==
    /\ seq = [r \in Reqs |-> Truth(r, PromptLen)]
    /\ phase = [r \in Reqs |-> "waiting"]
    /\ table = [r \in Reqs |-> None]
    /\ alloc = [r \in Reqs |-> 0]
    /\ wrote = [r \in Reqs |-> 0]
    /\ sampling \in SUBSET Reqs
    /\ sp = [uid |-> None, expect |-> -1, draft |-> None, cache |-> <<>>, pos |-> 0]
    /\ kv = [s \in Slots |-> [i \in Positions |-> None]]
    /\ graph \in [state : {"none", "failed"}, slot : {None}, at : {0}]

(* a request is admitted into row s; first is the token its prefill sampled *)
Admit(r, s, first) ==
    /\ seq' = [seq EXCEPT ![r] = Append(@, first)]
    /\ table' = [table EXCEPT ![r] = s]
    /\ phase' = [phase EXCEPT ![r] = "running"]
    /\ wrote' = [wrote EXCEPT ![r] = PromptLen]
    /\ alloc' = [alloc EXCEPT ![r] = PromptLen]

(* allocate_paged before a decode step: every request of the batch gets the  *)
(* page of its next position and, in a comfortable pool, the K-token horizon *)
Allocated(S) ==
    {[r \in Reqs |-> IF r \in S THEN Most(alloc[r], DeviceLen(r) + (IF roomy[r] THEN K ELSE 0))
                                ELSE alloc[r]] : roomy \in [S -> BOOLEAN]}

(* a normal forward of S stores its inputs' keys and samples next[r] *)
InputKeys(r) == Stored(kv[table[r]], DeviceLen(r) - 1, <<Input(r)>>)
Emitted(S, next) ==
    /\ kv' = [s \in Slots |-> IF \E r \in S : table[r] = s
                              THEN InputKeys(CHOOSE r \in S : table[r] = s) ELSE kv[s]]
    /\ seq' = [r \in Reqs |-> IF r \in S THEN Append(seq[r], next[r]) ELSE seq[r]]
    /\ wrote' = [r \in Reqs |-> IF r \in S THEN Most(wrote[r], DeviceLen(r)) ELSE wrote[r]]

(* the gates of try_step, in its order *)
SpecEligible(S) == Cardinality(S) = 1 /\ S \cap sampling = {}
Keyed(r) == sp.uid = r /\ sp.expect = DeviceLen(r)
PopGate(r) == Keyed(r) /\ sp.pos < Len(sp.cache)
\* Mutant: the horizon gate forgets the input's own position.
RoundGate_Short(r, a) ==
    /\ Keyed(r)
    /\ sp.draft # None
    /\ sp.pos >= Len(sp.cache)
    /\ a[r] >= DeviceLen(r) + K - 1
    /\ DeviceLen(r) + K <= MaxSeq
RoundGate(r, a) ==
    /\ Keyed(r)
    /\ sp.draft # None
    /\ sp.pos >= Len(sp.cache)
    /\ a[r] >= DeviceLen(r) + K
    /\ DeviceLen(r) + K <= MaxSeq

(* a verified token is emitted without a forward *)
Pop(r) ==
    /\ SpecEligible({r})
    /\ PopGate(r)
    /\ seq' = [seq EXCEPT ![r] = Append(@, sp.cache[sp.pos + 1])]
    /\ sp' = [sp EXCEPT !.pos = @ + 1, !.expect = @ + 1]
    /\ UNCHANGED <<wrote, kv, graph>>

(* the key and the draft a bootstrap or a round leaves behind *)
KeyTo(r, draft, cache) ==
    sp' = [uid |-> r, expect |-> DeviceLen(r) + 1, draft |-> draft, cache |-> cache, pos |-> 0]

(* drafts match the verify rows up to, not including, the first difference;  *)
(* the output budget caps what a round accepts                               *)
Matched(rows, ds) ==
    CHOOSE m \in 0..Len(ds) : /\ \A i \in 1..m : rows[i] = ds[i]
                              /\ m < Len(ds) => rows[m + 1] # ds[m + 1]
\* Mutant: the output budget does not cap a round.
Accepted_Uncapped(r, rows, ds) == Matched(rows, ds)
Accepted(r, rows, ds) == Least(Matched(rows, ds), RemainLen(r) - 1)
RoundTokens(rows, ds, m) == SubSeq(ds, 1, m) \o <<rows[m + 1]>>

(* _try_capture_verify runs once, on the dummy row, and may fail for good.  A *)
(* replay addresses what was staged into its buffers, an eager verify the     *)
(* request itself.                                                            *)
CaptureOutcomes == IF graph.state = "none" THEN {"captured", "failed"} ELSE {graph.state}
Staged(outcome, r, p) ==
    IF outcome = "captured" THEN [state |-> outcome, slot |-> table[r], at |-> p]
                            ELSE [graph EXCEPT !.state = outcome]
Target(g, r, p) == IF g.state = "captured" THEN [slot |-> g.slot, at |-> g.at]
                                           ELSE [slot |-> table[r], at |-> p]

(* the tokens of a round that accepted m drafts: the first is emitted, the    *)
(* others are cached                                                          *)
RoundDone(r, n, emitted) ==
    /\ wrote' = [wrote EXCEPT ![r] = Most(@, n)]
    /\ seq' = [seq EXCEPT ![r] = Append(@, emitted[1])]

(* The scheduler finishes a request at its budget; a stop token or an abort   *)
(* finishes it earlier, verified tokens cached for it or not.                 *)
Leave(r) ==
    /\ phase' = [phase EXCEPT ![r] = "over"]
    /\ table' = [table EXCEPT ![r] = None]
    /\ alloc' = [alloc EXCEPT ![r] = 0]
    /\ wrote' = [wrote EXCEPT ![r] = 0]
    /\ UNCHANGED <<seq, sampling, sp, kv, graph>>

Finish(r) == phase[r] = "running" /\ ~ CanDecode(r) /\ Leave(r)
Stop(r) == phase[r] = "running" /\ CanDecode(r) /\ Leave(r)
AllOver == \A r \in Reqs : phase[r] = "over"

-----------------------------------------------------------------------------
(* verified tokens of r that are not emitted yet *)
Ahead(r) == IF Keyed(r) THEN Len(sp.cache) - sp.pos ELSE 0

(* Never more output than the budget: a running request never holds verified *)
(* tokens past max_device_len (the cap of a round by remain_len - 1).        *)
BudgetKept == \A r \in Running : DeviceLen(r) + Ahead(r) <= MaxLen

(* Every position a forward, a verify or a replay stored to was allocated to *)
(* the request when it did (the horizon gate of a round).                    *)
WritesOwned == \A r \in Reqs : wrote[r] <= alloc[r]

(* One right token per request and step, and all of them in the end: the     *)
(* abstract specification, a request cut short being over there as well.     *)
Promise == INSTANCE GreedyDecode WITH
              over <- {r \in Reqs : phase[r] = "over" /\ Len(seq[r]) < MaxLen}
Implements == Promise!LiveSpec
EmitsGreedy == \A r \in Reqs : seq[r] = Truth(r, DeviceLen(r))
=============================================================================
