-------------------------- MODULE SpecDecodeProofs --------------------------
(* Theorems about SpecDecode that hold for any number of table rows,        *)
(* requests, drafts and positions, whatever the models predict: types, the  *)
(* output budget, the ownership of the positions written, and the place a   *)
(* DSpark draft comes from.                                                 *)
(*                                                                          *)
(* First what both speculative decoders share: the least element of a set   *)
(* of naturals, which stands for induction, and the facts about             *)
(* SpecEngine's operators: what is stored, what a round accepts and emits,  *)
(* and what the requests' bookkeeping keeps whatever the models predict.    *)
(* The last of them are about one decode row: what is emitted and cached    *)
(* is then greedy, and SharedRight says so of the keys both models page.    *)
EXTENDS SpecDecode, SequenceTheorems, WellFoundedInduction, TLAPS

Tokens == (Reqs \X Nat) \cup {Bad}

-----------------------------------------------------------------------------
(* Induction: a set of naturals that is not empty has a least element.      *)

NatLess == {ss \in Nat \X Nat : ss[1] < ss[2]}

LEMMA NatLeast ==
  ASSUME NEW T \in SUBSET Nat, T # {}
  PROVE  \E n \in T : \A m \in T : n <= m
<1>1. IsWellFoundedOn(OpToRel(<, Nat), Nat)
  BY NatLessThanWellFounded
<1>2. OpToRel(<, Nat) = NatLess
  BY Zenon DEF OpToRel, NatLess
<1>3. \E x \in T : \A y \in T : <<y, x>> \notin NatLess
  BY <1>1, <1>2, WFMin
<1>4. ASSUME NEW a \in Nat, NEW b \in Nat, <<a, b>> \notin NatLess
      PROVE  b <= a
  <2>1. <<a, b>> \in Nat \X Nat /\ <<a, b>>[1] = a /\ <<a, b>>[2] = b
    OBVIOUS
  <2>2. ~(a < b)
    BY <1>4, <2>1, Zenon DEF NatLess
  <2>3. QED
    BY <2>2
<1>5. QED
  BY <1>3, <1>4

(* A set that holds 0 and every successor of a member below k reaches k.    *)
LEMMA UpTo ==
  ASSUME NEW T, NEW k \in Nat, 0 \in T, \A n \in 0..(k - 1) : n \in T => n + 1 \in T
  PROVE  \A n \in 0..k : n \in T
<1> SUFFICES ASSUME NEW q \in 0..k, q \notin T
             PROVE  FALSE
  OBVIOUS
<1> DEFINE U == {n \in 0..k : n \notin T}
<1>1. U \in SUBSET Nat /\ U # {}
  OBVIOUS
<1>2. PICK n \in U : \A m \in U : n <= m
  BY <1>1, NatLeast
<1>3. n # 0 /\ n - 1 \in 0..(k - 1) /\ n - 1 \notin U
  BY <1>2
<1>4. QED
  BY <1>2, <1>3

-----------------------------------------------------------------------------
(* Tokens, prefixes and keys.                                               *)

LEMMA TokenTypes ==
  /\ Bad \in Tokens
  /\ \A r \in Reqs, i \in Nat : Tok(r, i) \in Tokens
  BY DEF Tokens, Bad, Tok

(* A prefix of the greedy continuation, and the prefix one token longer.    *)
LEMMA TruthIs ==
  ASSUME NEW r \in Reqs, NEW n \in Nat
  PROVE  /\ Truth(r, n) \in Seq(Tokens)
         /\ Len(Truth(r, n)) = n
         /\ \A i \in 1..n : Truth(r, n)[i] = Tok(r, i)
         /\ Append(Truth(r, n), Tok(r, n + 1)) = Truth(r, n + 1)
<1>1. Truth(r, n) \in Seq(Tokens) /\ Len(Truth(r, n)) = n
  <2>1. \A i \in 1..n : Tok(r, i) \in Tokens
    BY TokenTypes
  <2>2. QED
    BY <2>1 DEF Truth
<1>2. \A i \in 1..n : Truth(r, n)[i] = Tok(r, i)
  BY DEF Truth
<1>3. Append(Truth(r, n), Tok(r, n + 1)) = Truth(r, n + 1)
  <2>1. Truth(r, n + 1) \in Seq(Tokens) /\ Len(Truth(r, n + 1)) = n + 1
    <3>1. \A i \in 1..(n + 1) : Tok(r, i) \in Tokens
      BY TokenTypes
    <3>2. QED
      BY <3>1 DEF Truth
  <2>2. Append(Truth(r, n), Tok(r, n + 1)) \in Seq(Tokens)
    BY <1>1, TokenTypes, AppendProperties
  <2>3. Len(Append(Truth(r, n), Tok(r, n + 1))) = n + 1
    BY <1>1, TokenTypes, AppendProperties
  <2>4. \A i \in 1..(n + 1) : Append(Truth(r, n), Tok(r, n + 1))[i] = Truth(r, n + 1)[i]
    BY <1>1, TokenTypes, AppendProperties DEF Truth
  <2>5. QED
    BY <2>1, <2>2, <2>3, <2>4, SeqEqual
<1>4. QED
  BY <1>1, <1>2, <1>3

(* Two sequences of tokens of one length and with the same tokens.          *)
LEMMA IsTruth ==
  ASSUME NEW r \in Reqs, NEW n \in Nat, NEW s \in Seq(Tokens), Len(s) = n,
         \A i \in 1..n : s[i] = Tok(r, i)
  PROVE  s = Truth(r, n)
<1>1. Truth(r, n) \in Seq(Tokens) /\ Len(Truth(r, n)) = Len(s)
  BY TruthIs
<1>2. \A i \in 1..Len(s) : s[i] = Truth(r, n)[i]
  BY TruthIs
<1>3. QED
  BY <1>1, <1>2, SeqEqual

LEMMA StoredIs ==
  ASSUME NEW keys, NEW p \in Nat, NEW toks, Len(toks) \in Nat,
         NEW i \in Positions
  PROVE  Stored(keys, p, toks)[i] =
           IF i \in p..(p + Len(toks) - 1) THEN toks[i - p + 1] ELSE keys[i]
  BY DEF Stored

-----------------------------------------------------------------------------
(* A round.  Drafts match up to the first difference, which exists.         *)
LEMMA MatchedIs ==
  ASSUME NEW rows, NEW ds, Len(ds) \in Nat
  PROVE  /\ Matched(rows, ds) \in 0..Len(ds)
         /\ \A i \in 1..Matched(rows, ds) : rows[i] = ds[i]
         /\ Matched(rows, ds) < Len(ds) =>
              rows[Matched(rows, ds) + 1] # ds[Matched(rows, ds) + 1]
<1> DEFINE U == {i \in 1..Len(ds) : rows[i] # ds[i]}
           OK(m) == /\ \A i \in 1..m : rows[i] = ds[i]
                    /\ m < Len(ds) => rows[m + 1] # ds[m + 1]
<1>1. \E m \in 0..Len(ds) : OK(m)
  <2>1. CASE U = {}
    <3>1. OK(Len(ds)) /\ Len(ds) \in 0..Len(ds)
      BY <2>1
    <3>2. QED
      BY <3>1
  <2>2. CASE U # {}
    <3>6. U \in SUBSET Nat
      OBVIOUS
    <3>1. PICK n \in U : \A m \in U : n <= m
      BY <2>2, <3>6, NatLeast
    <3>2. n - 1 \in 0..Len(ds) /\ n - 1 < Len(ds) /\ (n - 1) + 1 = n
      BY <3>1
    <3>3. \A i \in 1..(n - 1) : rows[i] = ds[i]
      BY <3>1
    <3>4. rows[(n - 1) + 1] # ds[(n - 1) + 1]
      BY <3>1, <3>2
    <3>5. QED
      BY <3>2, <3>3, <3>4
  <2>3. QED
    BY <2>1, <2>2
<1>2. Matched(rows, ds) = CHOOSE m \in 0..Len(ds) : OK(m)
  BY DEF Matched
<1>3. QED
  BY <1>1, <1>2

(* What a round accepts is within the drafts and within the output budget.  *)
LEMMA AcceptedIs ==
  ASSUME NEW r \in Reqs, NEW rows, NEW ds, Len(ds) \in Nat, RemainLen(r) \in Nat \ {0}
  PROVE  /\ Accepted(r, rows, ds) \in 0..Len(ds)
         /\ Accepted(r, rows, ds) <= RemainLen(r) - 1
         /\ \A i \in 1..Accepted(r, rows, ds) : rows[i] = ds[i]
<1>1. /\ Matched(rows, ds) \in 0..Len(ds)
      /\ \A i \in 1..Matched(rows, ds) : rows[i] = ds[i]
  BY MatchedIs
<1>2. Accepted(r, rows, ds) \in 0..Matched(rows, ds) /\ Accepted(r, rows, ds) <= RemainLen(r) - 1
  BY <1>1 DEF Accepted, Least
<1>3. QED
  BY <1>1, <1>2

(* The tokens of a round: the accepted drafts and one row more.             *)
LEMMA RoundTokensIs ==
  ASSUME NEW ds \in Seq(Tokens), NEW m \in 0..Len(ds), NEW rows, rows[m + 1] \in Tokens
  PROVE  /\ RoundTokens(rows, ds, m) \in Seq(Tokens)
         /\ Len(RoundTokens(rows, ds, m)) = m + 1
         /\ \A i \in 1..m : RoundTokens(rows, ds, m)[i] = ds[i]
         /\ RoundTokens(rows, ds, m)[m + 1] = rows[m + 1]
         /\ Tail(RoundTokens(rows, ds, m)) \in Seq(Tokens)
         /\ Len(Tail(RoundTokens(rows, ds, m))) = m
         /\ \A i \in 1..m : Tail(RoundTokens(rows, ds, m))[i] = RoundTokens(rows, ds, m)[i + 1]
<1> DEFINE kept == SubSeq(ds, 1, m)
           one == <<rows[m + 1]>>
<1>1. kept \in Seq(Tokens) /\ Len(kept) = m /\ \A i \in 1..m : kept[i] = ds[i]
  <2>1. \A i \in 1..m : ds[i] \in Tokens
    BY ElementOfSeq
  <2>2. QED
    BY <2>1, SubSeqProperties
<1>2. one \in Seq(Tokens) /\ Len(one) = 1 /\ one[1] = rows[m + 1]
  OBVIOUS
<1> HIDE DEF kept, one
<1>3. /\ kept \o one \in Seq(Tokens) /\ Len(kept \o one) = m + 1
      /\ \A i \in 1..m : (kept \o one)[i] = ds[i]
      /\ (kept \o one)[m + 1] = rows[m + 1]
  <2>1. /\ kept \o one \in Seq(Tokens) /\ Len(kept \o one) = Len(kept) + Len(one)
        /\ \A i \in 1..(Len(kept) + Len(one)) :
             (kept \o one)[i] = IF i <= Len(kept) THEN kept[i] ELSE one[i - Len(kept)]
    BY <1>1, <1>2, ConcatProperties
  <2>2. QED
    BY <1>1, <1>2, <2>1
<1>4. RoundTokens(rows, ds, m) = kept \o one
  BY DEF RoundTokens, kept, one
<1>5. kept \o one # <<>>
  BY <1>3
<1>6. /\ Tail(kept \o one) \in Seq(Tokens) /\ Len(Tail(kept \o one)) = m
      /\ \A i \in 1..m : Tail(kept \o one)[i] = (kept \o one)[i + 1]
  BY <1>3, <1>5, HeadTailProperties
<1>7. QED
  BY <1>3, <1>4, <1>6

-----------------------------------------------------------------------------
(* What the bookkeeping keeps, for any number of rows, whatever the models  *)
(* predict.                                                                 *)

AnyDraft == Tokens \cup Seq(Tokens) \cup {None}
Graphs == [state : {"none", "captured", "failed"}, slot : Slots \cup {None}, at : Nat]

EngineTypes ==
  /\ seq \in [Reqs -> Seq(Tokens)]
  /\ phase \in [Reqs -> {"waiting", "running", "over"}]
  /\ table \in [Reqs -> Slots \cup {None}]
  /\ alloc \in [Reqs -> Nat]
  /\ wrote \in [Reqs -> Nat]
  /\ sampling \in SUBSET Reqs
  /\ sp \in [uid : Reqs \cup {None}, expect : Int, draft : AnyDraft,
             cache : Seq(Tokens), pos : Nat]
  /\ Len(sp.cache) <= K /\ sp.pos <= Len(sp.cache)
  /\ graph \in Graphs

(* A waiting request has its prompt, a running one a row.                   *)
Seated ==
  \A r \in Reqs :
    /\ phase[r] = "waiting" => seq[r] = Truth(r, PromptLen)
    /\ phase[r] = "running" => table[r] \in Slots
    /\ DeviceLen(r) >= PromptLen

(* The key of the speculative state never names a length its request has    *)
(* not reached: a step that leaves the state alone can only make it stale,  *)
(* never valid again.                                                       *)
KeyBehind == \A r \in Reqs : sp.uid = r => sp.expect <= DeviceLen(r)

(* A request the decoders are not eligible for has no verified tokens.      *)
NoneCached == sp.uid \in sampling => sp.cache = <<>>

EngineInv == EngineTypes /\ Seated /\ KeyBehind /\ NoneCached /\ BudgetKept /\ WritesOwned

(* Verified tokens ahead of a request, before and after a step.             *)
LEMMA AheadIs == ASSUME EngineTypes, NEW r \in Reqs PROVE Ahead(r) \in Nat
<1>1. Len(sp.cache) \in Nat /\ sp.pos \in Nat /\ sp.pos <= Len(sp.cache)
  BY DEF EngineTypes
<1>2. QED
  BY <1>1 DEF Ahead
LEMMA AheadNext == ASSUME EngineTypes', NEW r \in Reqs PROVE Ahead(r)' \in Nat
<1>1. Len(sp'.cache) \in Nat /\ sp'.pos \in Nat /\ sp'.pos <= Len(sp'.cache)
  BY DEF EngineTypes
<1>2. QED
  BY <1>1 DEF Ahead

LEMMA EngineInitial == EngineInit => EngineInv
<1> SUFFICES ASSUME EngineInit
             PROVE  EngineInv
  OBVIOUS
<1> USE SpecAssumption
<1>1. \A r \in Reqs : Truth(r, PromptLen) \in Seq(Tokens) /\ Len(Truth(r, PromptLen)) = PromptLen
  BY TruthIs
<1>2. EngineTypes
  BY <1>1 DEF EngineInit, EngineTypes, AnyDraft, Graphs
<1>3. Seated
  BY <1>1 DEF EngineInit, Seated, DeviceLen
<1>4. KeyBehind
  BY <1>1 DEF EngineInit, KeyBehind, DeviceLen
<1>5. QED
  BY <1>2, <1>3, <1>4 DEF EngineInv, EngineInit, NoneCached, BudgetKept, WritesOwned, Running

(* A prefill, with or without the draft it may leave.                       *)
Admitted(r, first) ==
  /\ phase[r] = "waiting"
  /\ \E s \in Slots : Admit(r, s, first)
  /\ \/ sp' = sp
     \/ \E d \in AnyDraft : KeyTo(r, d, <<>>)
  /\ UNCHANGED <<sampling, graph>>

LEMMA AdmitKeeps ==
  ASSUME EngineInv, NEW r \in Reqs, NEW first \in Tokens, Admitted(r, first)
  PROVE  EngineInv'
<1> USE SpecAssumption
<1>1. PICK s \in Slots : Admit(r, s, first)
  BY DEF Admitted
<1>2. /\ seq[r] = Truth(r, PromptLen) /\ DeviceLen(r) = PromptLen
      /\ seq' = [seq EXCEPT ![r] = Append(@, first)]
      /\ Append(seq[r], first) \in Seq(Tokens)
      /\ Len(Append(seq[r], first)) = PromptLen + 1
  <2>1. seq[r] = Truth(r, PromptLen)
    BY DEF Admitted, EngineInv, Seated
  <2>2. Truth(r, PromptLen) \in Seq(Tokens) /\ Len(Truth(r, PromptLen)) = PromptLen
    BY TruthIs
  <2>3. /\ Append(seq[r], first) \in Seq(Tokens)
        /\ Len(Append(seq[r], first)) = PromptLen + 1
    BY <2>1, <2>2, AppendProperties
  <2>4. QED
    BY <1>1, <2>1, <2>2, <2>3 DEF Admit, DeviceLen
<1>3. /\ seq' \in [Reqs -> Seq(Tokens)]
      /\ DeviceLen(r)' = PromptLen + 1
      /\ \A q \in Reqs : q # r => seq'[q] = seq[q] /\ DeviceLen(q)' = DeviceLen(q)
      /\ \A q \in Reqs : DeviceLen(q) \in Nat /\ DeviceLen(q)' >= DeviceLen(q)
  BY <1>2 DEF EngineInv, EngineTypes, DeviceLen
<1>4. EngineTypes'
  <2>1. /\ sp' \in [uid : Reqs \cup {None}, expect : Int, draft : AnyDraft,
                    cache : Seq(Tokens), pos : Nat]
        /\ Len(sp'.cache) <= K /\ sp'.pos <= Len(sp'.cache)
    <3>1. CASE sp' = sp
      BY <3>1 DEF EngineInv, EngineTypes
    <3>2. ASSUME NEW d \in AnyDraft, KeyTo(r, d, <<>>)
          PROVE  /\ sp' \in [uid : Reqs \cup {None}, expect : Int, draft : AnyDraft,
                             cache : Seq(Tokens), pos : Nat]
                 /\ Len(sp'.cache) <= K /\ sp'.pos <= Len(sp'.cache)
      <4>1. <<>> \in Seq(Tokens) /\ Len(<<>>) = 0
        OBVIOUS
      <4>2. QED
        BY <1>2, <3>2, <4>1 DEF KeyTo
    <3>3. QED
      BY <3>1, <3>2 DEF Admitted
  <2>2. QED
    BY <1>1, <1>3, <2>1, SMTT(30) DEF Admitted, Admit, EngineInv, EngineTypes
<1>5. Seated'
  <2>1. /\ table' = [table EXCEPT ![r] = s] /\ phase' = [phase EXCEPT ![r] = "running"]
        /\ DOMAIN table = Reqs /\ DOMAIN phase = Reqs /\ Seated
    BY <1>1 DEF Admit, EngineInv, EngineTypes
  <2>2. ASSUME NEW q \in Reqs, q # r
        PROVE  /\ phase'[q] = phase[q] /\ table'[q] = table[q] /\ seq'[q] = seq[q]
               /\ DeviceLen(q)' = DeviceLen(q)
    BY <1>3, <2>1, <2>2
  <2>3. ASSUME NEW q \in Reqs
        PROVE  /\ phase'[q] = "waiting" => seq'[q] = Truth(q, PromptLen)
               /\ phase'[q] = "running" => table'[q] \in Slots
               /\ DeviceLen(q)' >= PromptLen
    <3>1. CASE q = r
      BY <1>3, <2>1, <3>1
    <3>2. CASE q # r
      BY <2>1, <2>2, <3>2 DEF Seated
    <3>3. QED
      BY <3>1, <3>2
  <2>4. QED
    BY <2>3 DEF Seated
<1>6. /\ sp' = sp \/ (sp'.uid = r /\ sp'.expect = PromptLen + 1 /\ sp'.cache = <<>> /\ sp'.pos = 0)
  BY <1>2 DEF Admitted, KeyTo
<1>7. KeyBehind'
  BY <1>3, <1>6 DEF EngineInv, EngineTypes, KeyBehind
<1>8. NoneCached'
  BY <1>6 DEF EngineInv, NoneCached, Admitted
<1>9. BudgetKept'
  <2> SUFFICES ASSUME NEW q \in Reqs, phase'[q] = "running"
               PROVE  DeviceLen(q)' + Ahead(q)' <= MaxLen
    BY DEF BudgetKept, Running
  <2>1. CASE q = r
    <3>1. Ahead(r)' = 0
      <4>1. CASE sp' = sp
        <5>1. sp.uid = r => sp.expect \in Int /\ sp.expect <= PromptLen
          BY <1>2 DEF EngineInv, EngineTypes, KeyBehind
        <5>2. ~ Keyed(r)'
          BY <1>3, <4>1, <5>1 DEF Keyed
        <5>3. QED
          BY <5>2 DEF Ahead
      <4>2. CASE sp' # sp
        BY <1>6, <4>2 DEF Ahead
      <4>3. QED
        BY <4>1, <4>2
    <3>2. QED
      BY <1>3, <2>1, <3>1
  <2>2. CASE q # r
    <3>1. phase[q] = "running"
      BY <1>1, <2>2 DEF Admit, EngineInv, EngineTypes
    <3>2. DeviceLen(q) + Ahead(q) <= MaxLen
      BY <3>1 DEF EngineInv, BudgetKept, Running
    <3>3. Ahead(q)' <= Ahead(q)
      <4>1. CASE sp' = sp
        BY <1>3, <2>2, <4>1, AheadIs DEF Ahead, Keyed, EngineInv
      <4>2. CASE sp'.uid = r
        <5>1. Ahead(q)' = 0
          BY <2>2, <4>2 DEF Ahead, Keyed
        <5>2. QED
          BY <5>1, AheadIs DEF EngineInv
      <4>3. QED
        BY <1>6, <4>1, <4>2
    <3>4. Ahead(q)' \in Nat /\ Ahead(q) \in Nat
      BY <1>4, AheadIs, AheadNext DEF EngineInv
    <3>5. QED
      BY <1>3, <2>2, <3>2, <3>3, <3>4
  <2>3. QED
    BY <2>1, <2>2
<1>10. WritesOwned'
  BY <1>1 DEF Admit, EngineInv, EngineTypes, WritesOwned
<1>11. QED
  BY <1>4, <1>5, <1>7, <1>8, <1>9, <1>10 DEF EngineInv

LEMMA AllocatedIs ==
  ASSUME EngineTypes, NEW S \in SUBSET Reqs, NEW a \in Allocated(S)
  PROVE  /\ a \in [Reqs -> Nat]
         /\ \A r \in Reqs : alloc[r] <= a[r]
         /\ \A r \in S : DeviceLen(r) <= a[r]
<1> USE SpecAssumption
<1>1. \A r \in Reqs : DeviceLen(r) \in Nat /\ alloc[r] \in Nat
  BY DEF EngineTypes, DeviceLen
<1>2. PICK roomy \in [S -> BOOLEAN] :
        a = [r \in Reqs |-> IF r \in S THEN Most(alloc[r], DeviceLen(r) + (IF roomy[r] THEN K ELSE 0))
                                       ELSE alloc[r]]
  BY DEF Allocated
<1>3. QED
  BY <1>1, <1>2 DEF Most

LEMMA BatchIs ==
  ASSUME EngineInv, NEW r \in Batch
  PROVE  /\ r \in Reqs /\ phase[r] = "running" /\ table[r] \in Slots
         /\ DeviceLen(r) \in Nat /\ DeviceLen(r) >= PromptLen
         /\ DeviceLen(r) < MaxLen /\ RemainLen(r) \in Nat \ {0}
         /\ Input(r) \in Tokens
<1> USE SpecAssumption
<1>1. r \in Reqs /\ phase[r] = "running" /\ RemainLen(r) > 0
  BY DEF Batch, Running, CanDecode
<1>2. /\ table[r] \in Slots /\ seq[r] \in Seq(Tokens)
      /\ DeviceLen(r) \in Nat /\ DeviceLen(r) >= PromptLen
  BY <1>1 DEF EngineInv, EngineTypes, Seated, DeviceLen
<1>3. Input(r) \in Tokens
  BY <1>2, ElementOfSeq DEF Input, DeviceLen
<1>4. QED
  BY <1>1, <1>2, <1>3 DEF RemainLen

(* A normal forward of the whole batch, with or without the draft a         *)
(* bootstrap leaves.                                                        *)
Forwarded(a, next) ==
  /\ a \in Allocated(Batch) /\ alloc' = a
  /\ Emitted(Batch, next)
  /\ next \in [Batch -> Tokens]
  /\ \/ sp' = sp
     \/ \E r \in Batch : /\ r \notin sampling
                          /\ \E d \in AnyDraft : KeyTo(r, d, <<>>)
  /\ UNCHANGED <<phase, table, sampling, graph>>

LEMMA ForwardKeeps ==
  ASSUME EngineInv, NEW a, NEW next, Forwarded(a, next)
  PROVE  EngineInv'
<1> USE SpecAssumption
<1>1. Batch \in SUBSET Reqs /\ EngineTypes
  BY DEF Batch, Running, EngineInv
<1>2. /\ a \in [Reqs -> Nat]
      /\ \A r \in Reqs : alloc[r] <= a[r]
      /\ \A r \in Batch : DeviceLen(r) <= a[r]
  BY <1>1, AllocatedIs DEF Forwarded
<1>3. /\ \A r \in Batch : /\ seq'[r] = Append(seq[r], next[r]) /\ seq'[r] \in Seq(Tokens)
                           /\ DeviceLen(r)' = DeviceLen(r) + 1
      /\ \A r \in Reqs \ Batch : seq'[r] = seq[r] /\ DeviceLen(r)' = DeviceLen(r)
      /\ seq' \in [Reqs -> Seq(Tokens)]
      /\ \A r \in Reqs : DeviceLen(r) \in Nat
  <2>1. \A r \in Reqs : seq[r] \in Seq(Tokens) /\ DeviceLen(r) \in Nat
    BY DEF EngineInv, EngineTypes, DeviceLen
  <2>2. \A r \in Batch : next[r] \in Tokens
    BY DEF Forwarded
  <2>3. seq' = [r \in Reqs |-> IF r \in Batch THEN Append(seq[r], next[r]) ELSE seq[r]]
    BY DEF Forwarded, Emitted
  <2>4. \A r \in Batch : /\ Append(seq[r], next[r]) \in Seq(Tokens)
                         /\ Len(Append(seq[r], next[r])) = Len(seq[r]) + 1
    BY <1>1, <2>1, <2>2, AppendProperties
  <2>5. QED
    BY <1>1, <2>1, <2>3, <2>4 DEF DeviceLen
<1>4. \/ sp' = sp
      \/ \E r \in Batch : /\ sp'.uid = r /\ sp'.expect = DeviceLen(r) + 1
                           /\ sp'.cache = <<>> /\ sp'.pos = 0 /\ r \notin sampling
  BY DEF Forwarded, KeyTo
<1>5. EngineTypes'
  <2>1. /\ sp' \in [uid : Reqs \cup {None}, expect : Int, draft : AnyDraft,
                    cache : Seq(Tokens), pos : Nat]
        /\ Len(sp'.cache) <= K /\ sp'.pos <= Len(sp'.cache)
    <3>1. CASE sp' = sp
      BY <3>1 DEF EngineInv, EngineTypes
    <3>2. ASSUME NEW r \in Batch, NEW d \in AnyDraft, KeyTo(r, d, <<>>)
          PROVE  /\ sp' \in [uid : Reqs \cup {None}, expect : Int, draft : AnyDraft,
                             cache : Seq(Tokens), pos : Nat]
                 /\ Len(sp'.cache) <= K /\ sp'.pos <= Len(sp'.cache)
      <4>1. <<>> \in Seq(Tokens) /\ Len(<<>>) = 0
        OBVIOUS
      <4>2. QED
        BY <1>1, <1>3, <3>2, <4>1 DEF KeyTo
    <3>3. QED
      BY <3>1, <3>2 DEF Forwarded
  <2>2. wrote' \in [Reqs -> Nat]
    BY <1>1, <1>3 DEF Forwarded, Emitted, EngineInv, EngineTypes, Most
  <2>3. QED
    BY <1>2, <1>3, <2>1, <2>2 DEF Forwarded, EngineInv, EngineTypes
<1>6. Seated'
  <2>1. ASSUME NEW r \in Reqs
        PROVE  /\ phase'[r] = "waiting" => seq'[r] = Truth(r, PromptLen)
               /\ phase'[r] = "running" => table'[r] \in Slots
               /\ DeviceLen(r)' >= PromptLen
    <3>1. phase' = phase /\ table' = table
      BY DEF Forwarded
    <3>2. phase[r] = "waiting" => r \notin Batch
      BY DEF Batch, Running
    <3>3. QED
      BY <1>1, <1>3, <3>1, <3>2 DEF EngineInv, Seated
  <2>2. QED
    BY <2>1 DEF Seated
<1>7. KeyBehind'
  BY <1>1, <1>3, <1>4 DEF EngineInv, EngineTypes, KeyBehind
<1>8. NoneCached'
  BY <1>4 DEF EngineInv, NoneCached, Forwarded
<1>9. BudgetKept'
  <2> SUFFICES ASSUME NEW q \in Reqs, phase'[q] = "running"
               PROVE  DeviceLen(q)' + Ahead(q)' <= MaxLen
    BY DEF BudgetKept, Running
  <2>1. Ahead(q) \in Nat /\ Ahead(q)' \in Nat /\ DeviceLen(q) \in Nat
    BY <1>3, <1>5, AheadIs, AheadNext DEF EngineInv
  <2>2. phase[q] = "running" /\ DeviceLen(q) + Ahead(q) <= MaxLen
    BY DEF EngineInv, BudgetKept, Running, Forwarded
  <2>3. CASE q \in Batch
    <3>1. Ahead(q)' = 0
      <4>1. CASE sp' = sp
        <5>1. sp.uid = q => sp.expect \in Int /\ sp.expect <= DeviceLen(q)
          BY DEF EngineInv, EngineTypes, KeyBehind
        <5>2. ~ Keyed(q)'
          BY <1>3, <2>3, <4>1, <5>1 DEF Keyed
        <5>3. QED
          BY <5>2 DEF Ahead
      <4>2. CASE sp'.cache = <<>> /\ sp'.pos = 0
        BY <4>2 DEF Ahead
      <4>3. QED
        BY <1>4, <4>1, <4>2
    <3>2. DeviceLen(q) < MaxLen
      BY <2>3, BatchIs
    <3>3. QED
      BY <1>3, <2>1, <2>3, <3>1, <3>2
  <2>4. CASE q \notin Batch
    <3>1. DeviceLen(q)' = DeviceLen(q)
      BY <1>3, <2>4
    <3>2. Ahead(q)' = Ahead(q) \/ Ahead(q)' = 0
      <4>1. CASE sp' = sp
        BY <3>1, <4>1 DEF Ahead, Keyed
      <4>2. CASE sp'.cache = <<>> /\ sp'.pos = 0
        BY <4>2 DEF Ahead
      <4>3. QED
        BY <1>4, <4>1, <4>2
    <3>3. QED
      BY <2>1, <2>2, <3>1, <3>2
  <2>5. QED
    BY <2>3, <2>4
<1>10. WritesOwned'
  BY <1>1, <1>2, <1>3 DEF Forwarded, Emitted, EngineInv, EngineTypes, WritesOwned, Most
<1>11. QED
  BY <1>5, <1>6, <1>7, <1>8, <1>9, <1>10 DEF EngineInv

(* A pop: one verified token less ahead, one more in the request.           *)
LEMMA PopKeeps ==
  ASSUME EngineInv, NEW r, Batch = {r}, NEW a \in Allocated(Batch), alloc' = a,
         Pop(r), UNCHANGED <<phase, table, sampling>>
  PROVE  EngineInv'
<1> USE SpecAssumption
<1>1. /\ r \in Batch /\ r \in Reqs /\ Batch \in SUBSET Reqs /\ EngineTypes
      /\ phase[r] = "running" /\ DeviceLen(r) \in Nat /\ DeviceLen(r) < MaxLen
  BY BatchIs DEF EngineInv
<1>2. a \in [Reqs -> Nat] /\ \A q \in Reqs : alloc[q] <= a[q]
  BY <1>1, AllocatedIs
<1>3. /\ sp.uid = r /\ sp.expect = DeviceLen(r)
      /\ Len(sp.cache) \in Nat /\ sp.pos \in Nat /\ sp.pos < Len(sp.cache)
      /\ r \notin sampling
  BY <1>1 DEF EngineTypes, Pop, PopGate, Keyed, SpecEligible
<1>4. /\ sp'.uid = r /\ sp'.expect = DeviceLen(r) + 1 /\ sp'.cache = sp.cache
      /\ sp'.pos = sp.pos + 1 /\ sp'.draft = sp.draft
      /\ sp' \in [uid : Reqs \cup {None}, expect : Int, draft : AnyDraft,
                  cache : Seq(Tokens), pos : Nat]
  <2>1. sp \in [uid : Reqs \cup {None}, expect : Int, draft : AnyDraft,
               cache : Seq(Tokens), pos : Nat]
    BY <1>1 DEF EngineTypes
  <2>2. sp' = [sp EXCEPT !.pos = sp.pos + 1, !.expect = sp.expect + 1]
    BY DEF Pop
  <2>3. sp' = [uid |-> sp.uid, expect |-> sp.expect + 1, draft |-> sp.draft,
               cache |-> sp.cache, pos |-> sp.pos + 1]
    BY <2>1, <2>2
  <2>4. sp.uid \in Reqs /\ sp.draft \in AnyDraft /\ sp.cache \in Seq(Tokens)
    BY <1>1, <1>3, <2>1
  <2>5. QED
    BY <1>1, <1>3, <2>3, <2>4
<1>5. /\ seq' = [seq EXCEPT ![r] = Append(@, sp.cache[sp.pos + 1])]
      /\ sp.cache[sp.pos + 1] \in Tokens
  BY <1>1, <1>3, ElementOfSeq DEF EngineTypes, Pop
<1>6. /\ seq' \in [Reqs -> Seq(Tokens)]
      /\ DeviceLen(r)' = DeviceLen(r) + 1
      /\ \A q \in Reqs : q # r => seq'[q] = seq[q] /\ DeviceLen(q)' = DeviceLen(q)
  <2>1. seq[r] \in Seq(Tokens)
    BY <1>1 DEF EngineTypes
  <2>2. /\ Append(seq[r], sp.cache[sp.pos + 1]) \in Seq(Tokens)
        /\ Len(Append(seq[r], sp.cache[sp.pos + 1])) = Len(seq[r]) + 1
    BY <1>5, <2>1, AppendProperties
  <2>3. QED
    BY <1>1, <1>5, <2>2 DEF EngineTypes, DeviceLen
<1>7. EngineTypes'
  <2>1. Len(sp'.cache) <= K /\ sp'.pos <= Len(sp'.cache)
    BY <1>1, <1>3, <1>4 DEF EngineTypes
  <2>2. QED
    BY <1>1, <1>2, <1>4, <1>6, <2>1 DEF EngineTypes, Pop
<1>8. Seated'
  BY <1>1, <1>6 DEF EngineInv, Seated
<1>9. KeyBehind'
  BY <1>1, <1>4, <1>6 DEF KeyBehind
<1>10. NoneCached'
  BY <1>3, <1>4 DEF NoneCached
<1>11. BudgetKept'
  <2> SUFFICES ASSUME NEW q \in Reqs, phase'[q] = "running"
               PROVE  DeviceLen(q)' + Ahead(q)' <= MaxLen
    BY DEF BudgetKept, Running
  <2>1. DeviceLen(q) \in Nat /\ Ahead(q) \in Nat /\ DeviceLen(q) + Ahead(q) <= MaxLen
    BY <1>1, AheadIs DEF EngineInv, EngineTypes, BudgetKept, Running, DeviceLen
  <2>2. CASE q = r
    <3>1. Ahead(q) = Len(sp.cache) - sp.pos /\ Ahead(q)' = Len(sp.cache) - (sp.pos + 1)
      BY <1>3, <1>4, <1>6, <2>2 DEF Ahead, Keyed
    <3>2. DeviceLen(q)' = DeviceLen(q) + 1
      BY <1>6, <2>2
    <3>3. Ahead(q)' = Ahead(q) - 1
      BY <1>3, <3>1
    <3>4. QED
      BY <2>1, <3>2, <3>3, SpecAssumption
  <2>3. CASE q # r
    BY <1>3, <1>4, <1>6, <2>1, <2>3 DEF Ahead, Keyed
  <2>4. QED
    BY <2>2, <2>3
<1>12. WritesOwned'
  BY <1>1, <1>2, SMTT(30) DEF Pop, EngineInv, EngineTypes, WritesOwned
<1>13. QED
  BY <1>7, <1>8, <1>9, <1>10, <1>11, <1>12 DEF EngineInv

(* A round that accepted m drafts: its first token is emitted, m are cached.*)
RoundEnds(r, a, n, emitted, d) ==
  /\ RoundGate(r, a)
  /\ RoundDone(r, n, emitted)
  /\ KeyTo(r, d, Tail(emitted))
  /\ n \in Nat /\ n <= DeviceLen(r) + K
  /\ emitted \in Seq(Tokens)
  /\ Len(emitted) \in 1..(K + 1) /\ Len(emitted) <= RemainLen(r)
  /\ d \in AnyDraft

LEMMA RoundKeeps ==
  ASSUME EngineInv, NEW r, Batch = {r}, r \notin sampling,
         NEW a \in Allocated(Batch), alloc' = a,
         NEW n, NEW emitted, NEW d, RoundEnds(r, a, n, emitted, d),
         graph' \in Graphs, UNCHANGED <<phase, table, sampling>>
  PROVE  EngineInv'
<1> USE SpecAssumption
<1>1. /\ r \in Batch /\ r \in Reqs /\ Batch \in SUBSET Reqs /\ EngineTypes
      /\ phase[r] = "running" /\ DeviceLen(r) \in Nat /\ DeviceLen(r) < MaxLen
  BY BatchIs DEF EngineInv
<1>2. a \in [Reqs -> Nat] /\ \A q \in Reqs : alloc[q] <= a[q]
  BY <1>1, AllocatedIs
<1>3. a[r] >= DeviceLen(r) + K
  BY DEF RoundEnds, RoundGate
<1>4. /\ Tail(emitted) \in Seq(Tokens) /\ Len(Tail(emitted)) = Len(emitted) - 1
      /\ emitted[1] \in Tokens
  <2>1. emitted \in Seq(Tokens) /\ Len(emitted) \in Nat \ {0} /\ emitted # <<>>
    BY DEF RoundEnds
  <2>2. QED
    BY <2>1, HeadTailProperties, ElementOfSeq
<1>5. /\ sp'.uid = r /\ sp'.expect = DeviceLen(r) + 1 /\ sp'.cache = Tail(emitted)
      /\ sp'.pos = 0
      /\ sp' \in [uid : Reqs \cup {None}, expect : Int, draft : AnyDraft,
                  cache : Seq(Tokens), pos : Nat]
  BY <1>1, <1>4 DEF RoundEnds, KeyTo
<1>6. /\ seq' \in [Reqs -> Seq(Tokens)]
      /\ DeviceLen(r)' = DeviceLen(r) + 1
      /\ \A q \in Reqs : q # r => seq'[q] = seq[q] /\ DeviceLen(q)' = DeviceLen(q)
  <2>1. seq[r] \in Seq(Tokens)
    BY <1>1 DEF EngineTypes
  <2>2. /\ Append(seq[r], emitted[1]) \in Seq(Tokens)
        /\ Len(Append(seq[r], emitted[1])) = Len(seq[r]) + 1
    BY <1>4, <2>1, AppendProperties
  <2>3. seq' = [seq EXCEPT ![r] = Append(seq[r], emitted[1])]
    BY DEF RoundEnds, RoundDone
  <2>4. QED
    BY <1>1, <2>2, <2>3 DEF EngineTypes, DeviceLen
<1>7. wrote' = [wrote EXCEPT ![r] = Most(wrote[r], n)]
  BY DEF RoundEnds, RoundDone
<1>8. EngineTypes'
  <2>1. Len(sp'.cache) <= K /\ sp'.pos <= Len(sp'.cache)
    BY <1>4, <1>5 DEF RoundEnds
  <2>2. wrote' \in [Reqs -> Nat]
    BY <1>1, <1>7 DEF EngineTypes, RoundEnds, Most
  <2>3. QED
    BY <1>1, <1>2, <1>5, <1>6, <2>1, <2>2 DEF EngineTypes
<1>9. Seated'
  BY <1>1, <1>6 DEF EngineInv, Seated
<1>10. KeyBehind'
  BY <1>1, <1>5, <1>6 DEF KeyBehind
<1>11. NoneCached'
  BY <1>5 DEF NoneCached
<1>12. BudgetKept'
  <2> SUFFICES ASSUME NEW q \in Reqs, phase'[q] = "running"
               PROVE  DeviceLen(q)' + Ahead(q)' <= MaxLen
    BY DEF BudgetKept, Running
  <2>1. DeviceLen(q) \in Nat /\ Ahead(q) \in Nat /\ DeviceLen(q) + Ahead(q) <= MaxLen
    <3>1. q \in Running /\ BudgetKept
      BY DEF EngineInv, Running
    <3>2. DeviceLen(q) \in Nat
      BY <1>1 DEF EngineTypes, DeviceLen
    <3>3. QED
      BY <1>1, <3>1, <3>2, AheadIs DEF BudgetKept
  <2>2. CASE q = r
    <3>1. Ahead(q)' = Len(emitted) - 1
      BY <1>4, <1>5, <1>6, <2>2 DEF Ahead, Keyed, RoundEnds
    <3>2. Len(emitted) <= MaxLen - DeviceLen(r) /\ Len(emitted) \in Nat
      BY DEF RoundEnds, RemainLen
    <3>3. QED
      BY <1>1, <1>6, <2>1, <2>2, <3>1, <3>2
  <2>3. CASE q # r
    <3>1. Ahead(q)' = 0
      BY <1>5, <2>3 DEF Ahead, Keyed
    <3>2. QED
      BY <1>6, <2>1, <2>3, <3>1
  <2>4. QED
    BY <2>2, <2>3
<1>13. WritesOwned'
  BY <1>1, <1>2, <1>3, <1>7, SMTT(30) DEF RoundEnds, EngineInv, EngineTypes, WritesOwned, Most
<1>14. QED
  BY <1>8, <1>9, <1>10, <1>11, <1>12, <1>13 DEF EngineInv

LEMMA LeaveKeeps ==
  ASSUME EngineInv, NEW r \in Reqs, Leave(r)
  PROVE  EngineInv'
<1>1. EngineTypes'
  BY DEF EngineInv, EngineTypes, Leave
<1>2. Seated'
  BY DEF EngineInv, EngineTypes, Seated, Leave, DeviceLen
<1>3. KeyBehind'
  BY DEF EngineInv, KeyBehind, Leave, DeviceLen
<1>4. NoneCached'
  BY DEF EngineInv, NoneCached, Leave
<1>5. BudgetKept'
  <2>1. \A q \in Running' : q \in Running
    BY DEF Running, Leave, EngineInv, EngineTypes
  <2>2. \A q \in Reqs : DeviceLen(q)' = DeviceLen(q) /\ Ahead(q)' = Ahead(q)
    BY DEF Leave, DeviceLen, Ahead, Keyed
  <2>3. QED
    BY <2>1, <2>2 DEF EngineInv, BudgetKept, Running
<1>6. WritesOwned'
  BY DEF EngineInv, EngineTypes, WritesOwned, Leave
<1>7. QED
  BY <1>1, <1>2, <1>3, <1>4, <1>5, <1>6 DEF EngineInv

(* The verify graph, captured, failed or staged for this request.           *)
LEMMA StagedIs ==
  ASSUME EngineTypes, NEW r \in Reqs, table[r] \in Slots, NEW p \in Nat,
         NEW outcome \in CaptureOutcomes
  PROVE  /\ Staged(outcome, r, p) \in Graphs
         /\ Target(Staged(outcome, r, p), r, p) = [slot |-> table[r], at |-> p]
<1>1. outcome \in {"captured", "failed"}
  BY DEF EngineTypes, CaptureOutcomes, Graphs
<1>2. CASE outcome = "captured"
  BY <1>2 DEF Staged, Graphs, Target
<1>3. CASE outcome = "failed"
  <2>1. Staged(outcome, r, p) = [graph EXCEPT !.state = outcome]
    BY <1>3 DEF Staged
  <2>2. QED
    BY <1>3, <2>1 DEF Graphs, Target, EngineTypes
<1>4. QED
  BY <1>1, <1>2, <1>3

-----------------------------------------------------------------------------
(* With one row the requests are served greedily: what either decoder keeps *)
(* of it, given that its model sees the true prefix.                        *)

OneRow == \E s : Slots = {s}

(* The positions of a running request whose tokens are verified and whose   *)
(* state has been computed.                                                 *)
Verified(r) == DeviceLen(r) - 1 + Ahead(r)

OwnRow == \A q, r \in Running : table[q] = table[r] => q = r
CacheRight ==
  \A r \in Running : Keyed(r) =>
    \A j \in (sp.pos + 1)..Len(sp.cache) : sp.cache[j] = Tok(r, DeviceLen(r) + j - sp.pos)
KeysRight ==
  /\ kv = [s \in Slots |-> kv[s]]
  /\ \A r \in Running : \A i \in 0..(Verified(r) - 1) : kv[table[r]][i] = Tok(r, i + 1)
SharedRight == EmitsGreedy /\ OwnRow /\ CacheRight /\ KeysRight

(* One row serves one request at a time.                                    *)
LEMMA OnlyOne ==
  ASSUME OneRow, EngineInv, SharedRight, NEW r \in Running
  PROVE  /\ Running = {r} /\ Slots = {table[r]} /\ FreeSlots = {}
         /\ Batch # {} => Batch = {r}
<1>1. PICK s : Slots = {s}
  BY DEF OneRow
<1>2. \A q \in Running : q \in Reqs /\ table[q] = s
  BY <1>1 DEF Running, EngineInv, Seated
<1>3. Running = {r}
  BY <1>2 DEF SharedRight, OwnRow
<1>4. QED
  BY <1>1, <1>2, <1>3 DEF FreeSlots, Batch

LEMMA InputRight ==
  ASSUME EngineInv, SharedRight, NEW r \in Batch
  PROVE  /\ Input(r) = Tok(r, DeviceLen(r)) /\ DeviceLen(r) \in Nat \ {0}
         /\ seq[r] = Truth(r, DeviceLen(r)) /\ seq[r] \in Seq(Tokens)
<1>1. r \in Reqs /\ DeviceLen(r) \in Nat \ {0}
  BY BatchIs, SpecAssumption
<1>2. seq[r] = Truth(r, DeviceLen(r)) /\ seq[r] \in Seq(Tokens)
  BY <1>1 DEF SharedRight, EmitsGreedy, EngineInv, EngineTypes
<1>3. ASSUME NEW n \in Nat \ {0}
      PROVE  Truth(r, n)[n] = Tok(r, n)
  <2>1. n \in Nat /\ n \in 1..n
    OBVIOUS
  <2>2. QED
    BY <1>1, <2>1, TruthIs
<1>4. QED
  BY <1>1, <1>2, <1>3 DEF Input

(* Keys of the first n tokens; tokens 1..k of toks the next ones.           *)
KeysOf(keys, r, n) == \A i \in 0..(n - 1) : keys[i] = Tok(r, i + 1)
NextOnes(toks, r, n, k) == \A i \in 1..k : toks[i] = Tok(r, n + i)

(* The keys of a prefix with the next tokens stored behind it.              *)
LEMMA StoredRight ==
  ASSUME NEW r \in Reqs, NEW n \in Nat, NEW keys, NEW toks \in Seq(Tokens),
         NEW k \in 0..Len(toks), n + k <= MaxSeq,
         KeysOf(keys, r, n), NextOnes(toks, r, n, k)
  PROVE  KeysOf(Stored(keys, n, toks), r, n + k)
<1> USE SpecAssumption
<1>1. SUFFICES ASSUME NEW i \in 0..(n + k - 1)
               PROVE  Stored(keys, n, toks)[i] = Tok(r, i + 1)
  BY DEF KeysOf
<1>2. Len(toks) \in Nat /\ k <= Len(toks) /\ k \in Nat /\ i \in Int /\ 0 <= i /\ i < n + k
  <2>1. Len(toks) \in Nat
    BY LenProperties
  <2>2. QED
    BY <1>1, <2>1
<1>3. i \in Positions
  BY <1>2 DEF Positions
<1>4. Stored(keys, n, toks)[i] =
        IF i \in n..(n + Len(toks) - 1) THEN toks[i - n + 1] ELSE keys[i]
  BY <1>3, Zenon DEF Stored
<1>5. CASE i < n
  <2>1. ~(i \in n..(n + Len(toks) - 1)) /\ i \in 0..(n - 1)
    BY <1>2, <1>5
  <2>2. keys[i] = Tok(r, i + 1)
    BY <2>1 DEF KeysOf
  <2>3. Stored(keys, n, toks)[i] = keys[i]
    BY <1>4, <2>1
  <2>4. QED
    BY <2>2, <2>3, Zenon
<1>6. CASE ~(i < n)
  <2>1. i - n + 1 \in 1..k /\ n + (i - n + 1) = i + 1 /\ i \in n..(n + Len(toks) - 1)
    BY <1>2, <1>6
  <2>2. toks[i - n + 1] = Tok(r, i + 1)
    BY <2>1 DEF NextOnes
  <2>3. QED
    BY <1>4, <2>1, <2>2, Zenon
<1>7. QED
  BY <1>5, <1>6

(* The keys of a whole prompt.                                              *)
LEMMA PromptStored ==
  ASSUME NEW r \in Reqs, NEW n \in Nat, n <= MaxSeq, NEW keys
  PROVE  \A i \in 0..(n - 1) : Stored(keys, 0, Truth(r, n))[i] = Tok(r, i + 1)
<1> USE SpecAssumption
<1>1. SUFFICES ASSUME NEW i \in 0..(n - 1)
               PROVE  Stored(keys, 0, Truth(r, n))[i] = Tok(r, i + 1)
  OBVIOUS
<1>2. /\ i \in Positions /\ i \in 0..(0 + n - 1)
      /\ i - 0 + 1 = i + 1 /\ i + 1 \in 1..n
  BY DEF Positions
<1>3. Len(Truth(r, n)) = n /\ Truth(r, n)[i + 1] = Tok(r, i + 1)
  BY <1>2, TruthIs
<1>4. Stored(keys, 0, Truth(r, n))[i] =
        IF i \in 0..(0 + Len(Truth(r, n)) - 1) THEN Truth(r, n)[i - 0 + 1] ELSE keys[i]
  BY <1>2, Zenon DEF Stored
<1>5. QED
  BY <1>2, <1>3, <1>4

(* The key of one token more behind the others.                             *)
LEMMA OneMoreKey ==
  ASSUME NEW r \in Reqs, NEW n \in Nat \ {0}, n <= MaxSeq,
         NEW keys, \A i \in 0..(n - 2) : keys[i] = Tok(r, i + 1)
  PROVE  \A i \in 0..(n - 1) : Stored(keys, n - 1, <<Tok(r, n)>>)[i] = Tok(r, i + 1)
<1>1. PICK p \in Nat : p = n - 1
  OBVIOUS
<1>2. n = p + 1 /\ 1 \in Nat
  BY <1>1
<1> DEFINE toks == <<Tok(r, n)>>
<1>3. toks \in Seq(Tokens) /\ Len(toks) = 1 /\ \A i \in 1..1 : toks[i] = Tok(r, p + i)
  BY <1>1, TokenTypes
<1> HIDE DEF toks
<1>4. ASSUME NEW i \in 0..(n - 1)
      PROVE  Stored(keys, p, toks)[i] = Tok(r, i + 1)
  <2>1. i \in Positions
    BY <1>1, SpecAssumption DEF Positions
  <2>2. Stored(keys, p, toks)[i] = IF i \in p..(p + Len(toks) - 1) THEN toks[i - p + 1] ELSE keys[i]
    BY <2>1, Zenon DEF Stored
  <2>3. CASE i = p
    <3>1. i \in p..(p + 1 - 1) /\ i - p + 1 = 1 /\ p + 1 = i + 1
      BY <2>3
    <3>2. QED
      BY <1>3, <2>2, <3>1
  <2>4. CASE i # p
    <3>1. ~(i \in p..(p + 1 - 1)) /\ i \in 0..(n - 2)
      BY <1>1, <2>4
    <3>2. QED
      BY <1>3, <2>2, <3>1
  <2>5. QED
    BY <2>3, <2>4
<1>5. QED
  BY <1>1, <1>4 DEF toks

(* A request's tokens stay greedy when the next one is.                     *)
LEMMA AppendRight ==
  ASSUME EngineInv, SharedRight, NEW r \in Reqs, NEW n \in Nat, DeviceLen(r) = n,
         seq' = [seq EXCEPT ![r] = Append(@, Tok(r, n + 1))]
  PROVE  EmitsGreedy' /\ DeviceLen(r)' = n + 1
<1>1. seq[r] = Truth(r, n) /\ seq \in [Reqs -> Seq(Tokens)]
  BY DEF SharedRight, EmitsGreedy, EngineInv, EngineTypes
<1>2. seq'[r] = Truth(r, n + 1) /\ \A q \in Reqs : q # r => seq'[q] = seq[q]
  BY <1>1, TruthIs
<1>3. DeviceLen(r)' = n + 1
  <2>1. n + 1 \in Nat
    OBVIOUS
  <2>2. Len(Truth(r, n + 1)) = n + 1
    BY <2>1, TruthIs
  <2>3. QED
    BY <1>2, <2>2 DEF DeviceLen
<1>4. \A q \in Reqs : q # r => seq'[q] = Truth(q, DeviceLen(q)')
  BY <1>2 DEF SharedRight, EmitsGreedy, DeviceLen
<1>5. QED
  BY <1>2, <1>3, <1>4 DEF EmitsGreedy

(* A step of the only running request leaves the rest of SharedRight.       *)
LEMMA SharedAfter ==
  ASSUME NEW r \in Reqs, NEW s \in Slots, Running' = {r}, table'[r] = s, EmitsGreedy',
         kv' = [x \in Slots |-> kv'[x]],
         Keyed(r)' => \A j \in (sp'.pos + 1)..Len(sp'.cache) :
                        sp'.cache[j] = Tok(r, DeviceLen(r)' + j - sp'.pos),
         \A i \in 0..(Verified(r)' - 1) : kv'[s][i] = Tok(r, i + 1)
  PROVE  SharedRight'
  BY DEF SharedRight, OwnRow, CacheRight, KeysRight

(* Nothing is cached for a request whose step runs a forward: it is not     *)
(* eligible, or its cache is at its end.                                    *)
LEMMA NothingAhead ==
  ASSUME EngineInv, NEW r \in Batch, r \in sampling \/ ~PopGate(r)
  PROVE  Ahead(r) = 0
<1>1. Len(sp.cache) \in Nat /\ sp.pos \in Nat /\ sp.pos <= Len(sp.cache)
  BY DEF EngineInv, EngineTypes
<1>2. CASE ~Keyed(r)
  BY <1>2 DEF Ahead
<1>3. CASE Keyed(r)
  <2>1. CASE r \in sampling
    <3>1. Len(sp.cache) = 0
      BY <1>3, <2>1 DEF Keyed, EngineInv, NoneCached
    <3>2. QED
      BY <1>1, <3>1 DEF Ahead
  <2>2. CASE ~PopGate(r)
    BY <1>1, <1>3, <2>2 DEF PopGate, Ahead
  <2>3. QED
    BY <2>1, <2>2
<1>4. QED
  BY <1>2, <1>3

LEMMA SharedInitial == EngineInit => SharedRight /\ Running = {}
<1> SUFFICES ASSUME EngineInit
             PROVE  SharedRight /\ Running = {}
  OBVIOUS
<1>1. \A r \in Reqs : Len(Truth(r, PromptLen)) = PromptLen
  BY TruthIs, SpecAssumption
<1>2. Running = {}
  BY DEF EngineInit, Running
<1>3. EmitsGreedy
  BY <1>1 DEF EngineInit, EmitsGreedy, DeviceLen
<1>4. kv = [s \in Slots |-> kv[s]]
  BY DEF EngineInit
<1>5. QED
  BY <1>2, <1>3, <1>4 DEF SharedRight, OwnRow, CacheRight, KeysRight

(* A longer request whose key was left alone, or given to it with nothing   *)
(* cached, has no verified tokens ahead.                                    *)
LEMMA NewKey ==
  ASSUME EngineInv, NEW r \in Reqs, NEW n \in Nat, DeviceLen(r) = n, DeviceLen(r)' = n + 1,
         sp' = sp \/ \E d : KeyTo(r, d, <<>>)
  PROVE  Ahead(r)' = 0 /\ (Keyed(r)' => sp'.cache = <<>> /\ sp'.pos = 0)
<1>1. CASE sp' = sp
  <2>1. sp.uid = r => sp.expect \in Int /\ sp.expect <= n
    BY DEF EngineInv, KeyBehind, EngineTypes
  <2>2. ~ Keyed(r)'
    BY <1>1, <2>1 DEF Keyed
  <2>3. QED
    BY <2>2 DEF Ahead
<1>2. CASE \E d : KeyTo(r, d, <<>>)
  BY <1>2 DEF KeyTo, Ahead
<1>3. QED
  BY <1>1, <1>2

(* A waiting request has its prompt, and one row is free only for nobody.   *)
LEMMA PromptRight ==
  ASSUME OneRow, EngineInv, SharedRight, NEW r \in Reqs, phase[r] = "waiting",
         NEW s \in FreeSlots
  PROVE  /\ Running = {} /\ s \in Slots
         /\ DeviceLen(r) = PromptLen /\ seq[r] = Truth(r, PromptLen)
         /\ seq[r] \in Seq(Tokens) /\ Len(seq[r]) = PromptLen
         /\ KeysOf(Stored(kv[s], 0, seq[r]), r, PromptLen)
<1> USE SpecAssumption
<1>1. Truth(r, PromptLen) \in Seq(Tokens) /\ Len(Truth(r, PromptLen)) = PromptLen
  BY TruthIs
<1>2. seq[r] = Truth(r, PromptLen) /\ DeviceLen(r) = PromptLen
  BY <1>1 DEF EngineInv, Seated, DeviceLen
<1>3. Running = {} /\ s \in Slots
  <2>1. \A q \in Running : FreeSlots = {}
    BY OnlyOne
  <2>2. QED
    BY <2>1 DEF FreeSlots
<1>4. PromptLen \in Nat /\ PromptLen <= MaxSeq
  OBVIOUS
<1>5. KeysOf(Stored(kv[s], 0, seq[r]), r, PromptLen)
  BY <1>2, <1>4, PromptStored DEF KeysOf
<1>6. QED
  BY <1>1, <1>2, <1>3, <1>5

(* The prefill of a request whose model saw its prompt.                     *)
LEMMA PrefillShares ==
  ASSUME OneRow, EngineInv, SharedRight, NEW r \in Reqs, phase[r] = "waiting",
         NEW s \in FreeSlots, Admit(r, s, Tok(r, PromptLen + 1)),
         kv' = [kv EXCEPT ![s] = Stored(kv[s], 0, seq[r])],
         sp' = sp \/ \E d : KeyTo(r, d, <<>>)
  PROVE  SharedRight' /\ Running' = {r} /\ table'[r] = s /\ Verified(r)' = PromptLen
<1> USE SpecAssumption
<1> DEFINE n == PromptLen
<1>1. /\ Running = {} /\ s \in Slots /\ DeviceLen(r) = n /\ n \in Nat
      /\ KeysOf(Stored(kv[s], 0, seq[r]), r, n)
  BY PromptRight
<1>2. /\ seq' = [seq EXCEPT ![r] = Append(@, Tok(r, n + 1))]
      /\ table' = [table EXCEPT ![r] = s]
      /\ phase' = [phase EXCEPT ![r] = "running"]
  BY DEF Admit
<1>3. EmitsGreedy' /\ DeviceLen(r)' = n + 1
  BY <1>1, <1>2, AppendRight
<1>4. Running' = {r} /\ table'[r] = s
  BY <1>1, <1>2 DEF Running, EngineInv, EngineTypes
<1>5. Ahead(r)' = 0 /\ (Keyed(r)' => sp'.cache = <<>> /\ sp'.pos = 0)
  BY <1>1, <1>3, NewKey
<1>6. Verified(r)' = n
  BY <1>1, <1>3, <1>5 DEF Verified
<1>7. kv' = [x \in Slots |-> kv'[x]] /\ kv'[s] = Stored(kv[s], 0, seq[r])
  BY <1>1 DEF SharedRight, KeysRight
<1>8. Keyed(r)' => \A j \in (sp'.pos + 1)..Len(sp'.cache) :
                     sp'.cache[j] = Tok(r, DeviceLen(r)' + j - sp'.pos)
  BY <1>5
<1>9. \A i \in 0..(Verified(r)' - 1) : kv'[s][i] = Tok(r, i + 1)
  BY <1>1, <1>6, <1>7 DEF KeysOf
<1>10. SharedRight'
  BY <1>1, <1>3, <1>4, <1>7, <1>8, <1>9, SharedAfter
<1>11. QED
  BY <1>4, <1>6, <1>10

(* A forward of the only request with nothing cached for it stores the key  *)
(* its input was missing.                                                   *)
LEMMA ForwardSees ==
  ASSUME EngineInv, SharedRight, NEW r, r \in Batch, Ahead(r) = 0
  PROVE  /\ r \in Reqs /\ r \in Running /\ table[r] \in Slots
         /\ DeviceLen(r) \in Nat \ {0} /\ DeviceLen(r) <= MaxSeq
         /\ Input(r) = Tok(r, DeviceLen(r))
         /\ Verified(r) = DeviceLen(r) - 1
         /\ KeysOf(InputKeys(r), r, DeviceLen(r))
<1> USE SpecAssumption
<1> DEFINE n == DeviceLen(r)
           s == table[r]
<1>1. /\ r \in Reqs /\ r \in Running /\ s \in Slots /\ n \in Nat \ {0} /\ n < MaxLen
      /\ Input(r) = Tok(r, n)
  BY BatchIs, InputRight DEF Batch
<1>2. n <= MaxSeq
  BY <1>1
<1>3. Verified(r) = n - 1
  BY <1>1 DEF Verified
<1>4. \A i \in 0..(n - 2) : kv[s][i] = Tok(r, i + 1)
  <2>1. (n - 1) - 1 = n - 2
    BY <1>1
  <2>2. \A i \in 0..((n - 1) - 1) : kv[s][i] = Tok(r, i + 1)
    BY <1>1, <1>3 DEF SharedRight, KeysRight
  <2>3. QED
    BY <2>1, <2>2
<1>5. r \in Reqs /\ n \in Nat \ {0} /\ Input(r) = Tok(r, n)
  BY <1>1
<1> HIDE DEF n
<1>6. \A i \in 0..(n - 1) : Stored(kv[s], n - 1, <<Tok(r, n)>>)[i] = Tok(r, i + 1)
  BY <1>2, <1>4, <1>5, OneMoreKey
<1>7. QED
  BY <1>1, <1>2, <1>3, <1>5, <1>6 DEF InputKeys, KeysOf, n

LEMMA ForwardShares ==
  ASSUME OneRow, EngineInv, SharedRight, NEW r, Batch = {r}, Ahead(r) = 0,
         NEW next, Emitted({r}, next), next[r] = Tok(r, DeviceLen(r) + 1),
         UNCHANGED <<phase, table>>,
         sp' = sp \/ \E d : KeyTo(r, d, <<>>)
  PROVE  /\ SharedRight' /\ Running' = {r} /\ table'[r] = table[r]
         /\ Verified(r)' = DeviceLen(r)
<1> USE SpecAssumption
<1> DEFINE n == DeviceLen(r)
           s == table[r]
           keys == InputKeys(r)
<1>1. /\ r \in Reqs /\ r \in Running /\ s \in Slots /\ n \in Nat \ {0}
      /\ KeysOf(keys, r, n)
  BY ForwardSees
<1>2. Running = {r} /\ Running' = {r} /\ table'[r] = s
  BY <1>1, OnlyOne DEF Running
<1>3. /\ kv' = [x \in Slots |-> kv'[x]] /\ kv'[s] = keys
      /\ seq' = [seq EXCEPT ![r] = Append(@, Tok(r, n + 1))]
  <2>1. seq' = [q \in Reqs |-> IF q \in {r} THEN Append(seq[q], Tok(r, n + 1)) ELSE seq[q]]
    BY DEF Emitted
  <2>2. (CHOOSE q \in {r} : table[q] = s) = r
    OBVIOUS
  <2>3. kv'[s] = keys /\ kv' = [x \in Slots |-> kv'[x]]
    BY <1>1, <2>2 DEF Emitted
  <2>4. seq \in [Reqs -> Seq(Tokens)]
    BY DEF EngineInv, EngineTypes
  <2>5. QED
    BY <1>1, <2>1, <2>3, <2>4
<1>4. EmitsGreedy' /\ DeviceLen(r)' = n + 1
  BY <1>1, <1>3, AppendRight
<1>5. Ahead(r)' = 0 /\ (Keyed(r)' => sp'.cache = <<>> /\ sp'.pos = 0)
  BY <1>1, <1>4, NewKey
<1>6. Verified(r)' = n
  BY <1>1, <1>4, <1>5 DEF Verified
<1>7. Keyed(r)' => \A j \in (sp'.pos + 1)..Len(sp'.cache) :
                     sp'.cache[j] = Tok(r, DeviceLen(r)' + j - sp'.pos)
  BY <1>5
<1>8. \A i \in 0..(Verified(r)' - 1) : kv'[s][i] = Tok(r, i + 1)
  BY <1>1, <1>3, <1>6 DEF KeysOf
<1>9. SharedRight'
  BY <1>1, <1>2, <1>3, <1>4, <1>7, <1>8, SharedAfter
<1>10. QED
  BY <1>2, <1>6, <1>9

(* A verified token popped from the cache is the greedy one.                *)
LEMMA PopRight ==
  ASSUME OneRow, EngineInv, SharedRight, NEW r, Batch = {r}, Pop(r),
         UNCHANGED <<phase, table>>
  PROVE  SharedRight' /\ Verified(r)' = Verified(r) /\ Running' = {r}
<1> USE SpecAssumption
<1> DEFINE n == DeviceLen(r)
           s == table[r]
<1>1. r \in Batch /\ r \in Reqs /\ r \in Running /\ s \in Slots /\ n \in Nat \ {0}
  BY BatchIs, InputRight DEF Batch
<1>2. Running = {r} /\ Running' = {r} /\ table'[r] = s
  BY <1>1, OnlyOne DEF Running
<1>3. /\ Keyed(r) /\ sp.uid = r /\ sp.expect = n
      /\ Len(sp.cache) \in Nat /\ sp.pos \in Nat /\ sp.pos < Len(sp.cache)
      /\ sp' = [sp EXCEPT !.pos = @ + 1, !.expect = @ + 1]
      /\ kv' = kv
  BY DEF Pop, PopGate, Keyed, EngineInv, EngineTypes
<1>4. \A j \in (sp.pos + 1)..Len(sp.cache) : sp.cache[j] = Tok(r, n + j - sp.pos)
  BY <1>1, <1>3 DEF SharedRight, CacheRight
<1>5. sp.cache[sp.pos + 1] = Tok(r, n + 1)
  <2>1. sp.pos + 1 \in (sp.pos + 1)..Len(sp.cache) /\ n + (sp.pos + 1) - sp.pos = n + 1
    BY <1>1, <1>3
  <2>2. QED
    BY <1>4, <2>1
<1>6. EmitsGreedy' /\ DeviceLen(r)' = n + 1
  <2>1. seq' = [seq EXCEPT ![r] = Append(@, Tok(r, n + 1))]
    BY <1>5 DEF Pop
  <2>2. QED
    BY <1>1, <2>1, AppendRight
<1>7. sp'.cache = sp.cache /\ sp'.pos = sp.pos + 1 /\ sp'.uid = r /\ sp'.expect = n + 1
  <2>1. sp \in [uid : Reqs \cup {None}, expect : Int, draft : AnyDraft,
                cache : Seq(Tokens), pos : Nat]
    BY DEF EngineInv, EngineTypes
  <2>2. QED
    BY <1>3, <2>1
<1>8. Verified(r)' = Verified(r)
  <2>1. Keyed(r)'
    BY <1>6, <1>7 DEF Keyed
  <2>2. Ahead(r) = Len(sp.cache) - sp.pos /\ Ahead(r)' = Len(sp.cache) - (sp.pos + 1)
    BY <1>3, <1>7, <2>1 DEF Ahead
  <2>3. /\ Verified(r) = n - 1 + (Len(sp.cache) - sp.pos)
        /\ Verified(r)' = (n + 1) - 1 + (Len(sp.cache) - (sp.pos + 1))
    BY <1>6, <2>2 DEF Verified
  <2>4. n \in Int /\ Len(sp.cache) \in Int /\ sp.pos \in Int
    BY <1>1, <1>3
  <2>5. \A l, c, q \in Int : (l + 1) - 1 + (c - (q + 1)) = l - 1 + (c - q)
    OBVIOUS
  <2>6. QED
    BY <2>3, <2>4, <2>5, Zenon
<1>9. \A j \in (sp'.pos + 1)..Len(sp'.cache) : sp'.cache[j] = Tok(r, DeviceLen(r)' + j - sp'.pos)
  <2>1. ASSUME NEW j \in (sp.pos + 1 + 1)..Len(sp.cache)
        PROVE  sp.cache[j] = Tok(r, n + 1 + j - (sp.pos + 1))
    <3>1. j \in (sp.pos + 1)..Len(sp.cache) /\ n + 1 + j - (sp.pos + 1) = n + j - sp.pos
      BY <1>1, <1>3, SMTT(30)
    <3>2. QED
      BY <1>4, <3>1
  <2>2. QED
    BY <1>6, <1>7, <2>1
<1>10. \A i \in 0..(Verified(r)' - 1) : kv'[s][i] = Tok(r, i + 1)
  BY <1>1, <1>3, <1>8 DEF SharedRight, KeysRight
<1>11. kv' = [x \in Slots |-> kv'[x]]
  BY <1>3 DEF SharedRight, KeysRight
<1>12. SharedRight'
  BY <1>1, <1>2, <1>6, <1>9, <1>10, <1>11, SharedAfter
<1>13. QED
  BY <1>2, <1>8, <1>12

(* A request leaves.                                                        *)
LEMMA LeaveRight ==
  ASSUME OneRow, EngineInv, SharedRight, NEW r \in Running, Leave(r)
  PROVE  SharedRight' /\ Running' = {}
<1>1. Running = {r}
  BY OnlyOne
<1>2. Running' = {}
  BY <1>1 DEF Running, Leave, EngineInv, EngineTypes
<1>3. EmitsGreedy' /\ kv' = kv
  BY DEF Leave, SharedRight, EmitsGreedy, DeviceLen
<1>4. QED
  BY <1>2, <1>3 DEF SharedRight, OwnRow, CacheRight, KeysRight

-----------------------------------------------------------------------------
(* A round.  Its rows are greedy as far as its inputs are, and its inputs   *)
(* as far as its rows matched the drafts.                                   *)
RowsFollow(rows, toks, r, p) ==
  \A i \in 1..Len(toks) : NextOnes(toks, r, p, i) => rows[i] = Tok(r, p + i + 1)

(* A round of r at position p in row s that accepted m of its drafts ds.    *)
RoundOf(r, p, s, ds, toks, rows, m) ==
  /\ ds \in Seq(Tokens) /\ p + Len(ds) + 1 <= MaxSeq
  /\ KeysOf(kv[s], r, p)
  /\ toks = <<Tok(r, p + 1)>> \o ds
  /\ RowsFollow(rows, toks, r, p)
  /\ m \in 0..Len(ds) /\ \A i \in 1..m : rows[i] = ds[i]

(* Its inputs and its rows are greedy up to the first token after them.     *)
RoundSees(r, p, toks, rows, m) ==
  /\ toks \in Seq(Tokens) /\ m + 1 \in 1..Len(toks)
  /\ NextOnes(toks, r, p, m + 1)
  /\ NextOnes(rows, r, p + 1, m + 1)

LEMMA RoundRight ==
  ASSUME NEW r \in Reqs, NEW p \in Nat, NEW s, NEW ds, NEW toks, NEW rows, NEW m,
         RoundOf(r, p, s, ds, toks, rows, m)
  PROVE  RoundSees(r, p, toks, rows, m)
<1>c. PICK k \in Nat : k = Len(ds)
  BY LenProperties DEF RoundOf
<1>a. /\ ds \in Seq(Tokens) /\ Len(ds) = k
      /\ toks = <<Tok(r, p + 1)>> \o ds
      /\ m \in 0..k /\ \A i \in 1..m : rows[i] = ds[i]
  BY <1>c DEF RoundOf
<1>1. /\ toks \in Seq(Tokens) /\ Len(toks) = k + 1 /\ toks[1] = Tok(r, p + 1)
      /\ \A i \in 1..k : toks[i + 1] = ds[i]
  <2>1. <<Tok(r, p + 1)>> \in Seq(Tokens) /\ Len(<<Tok(r, p + 1)>>) = 1
    BY TokenTypes
  <2>2. /\ toks \in Seq(Tokens) /\ Len(toks) = 1 + k
        /\ \A i \in 1..(1 + k) : toks[i] = IF i <= 1 THEN Tok(r, p + 1) ELSE ds[i - 1]
    BY <1>a, <2>1, ConcatProperties
  <2>3. \A i \in 1..k : i + 1 \in 1..(1 + k) /\ ~(i + 1 <= 1) /\ (i + 1) - 1 = i
    OBVIOUS
  <2>4. QED
    BY <2>2, <2>3
<1>0. RowsFollow(rows, toks, r, p)
  BY DEF RoundOf
<1> DEFINE T == {n \in 0..m : NextOnes(toks, r, p, n + 1)}
<1>b. m \in Nat /\ m <= k
  BY <1>a
<1>2. ASSUME NEW n \in 0..m, n \in T
      PROVE  rows[n + 1] = Tok(r, p + (n + 1) + 1)
  <2>1. NextOnes(toks, r, p, n + 1)
    BY <1>2
  <2> HIDE DEF T
  <2>2. PICK i \in 1..Len(toks) : i = n + 1
    BY <1>1, <1>b
  <2>3. NextOnes(toks, r, p, i)
    BY <2>1, <2>2
  <2>4. rows[i] = Tok(r, p + i + 1)
    BY <1>0, <2>3 DEF RowsFollow
  <2>5. QED
    BY <2>2, <2>4
<1>3. 0 \in T
  BY <1>1, <1>b DEF NextOnes
<1>4. ASSUME NEW n \in 0..(m - 1), n \in T
      PROVE  n + 1 \in T
  <2>1. n \in 0..m /\ n + 1 \in 1..m /\ n + 1 \in 0..m /\ n + 1 \in 1..k
    BY <1>b
  <2>2. rows[n + 1] = Tok(r, p + (n + 1) + 1)
    BY <1>2, <1>4, <2>1
  <2>3. toks[(n + 1) + 1] = Tok(r, p + (n + 1) + 1)
    BY <1>1, <1>a, <2>1, <2>2
  <2>4. \A j \in 1..((n + 1) + 1) : j \in 1..(n + 1) \/ j = (n + 1) + 1
    BY <2>1
  <2>5. p + (n + 1) + 1 = p + ((n + 1) + 1)
    BY <2>1
  <2>6. \A j \in 1..(n + 1) : toks[j] = Tok(r, p + j)
    BY <1>4 DEF NextOnes
  <2>7. NextOnes(toks, r, p, (n + 1) + 1)
    BY <2>3, <2>4, <2>5, <2>6 DEF NextOnes
  <2>8. QED
    BY <2>1, <2>7
<1>5. m \in T /\ \A n \in 0..m : n \in T
  <2> HIDE DEF T
  <2>1. \A n \in 0..(m - 1) : n \in T => n + 1 \in T
    BY <1>4
  <2>2. m \in Nat /\ m \in 0..m
    BY <1>b
  <2>3. QED
    BY <1>3, <2>1, <2>2, UpTo
<1>6. NextOnes(rows, r, p + 1, m + 1)
  <2>1. ASSUME NEW j \in 1..(m + 1)
        PROVE  rows[j] = Tok(r, p + 1 + j)
    <3>1. j - 1 \in 0..m /\ (j - 1) + 1 = j /\ p + j + 1 = p + 1 + j
      BY <1>b
    <3>2. rows[(j - 1) + 1] = Tok(r, p + ((j - 1) + 1) + 1)
      BY <1>2, <1>5, <3>1
    <3>3. QED
      BY <3>1, <3>2
  <2>2. QED
    BY <2>1 DEF NextOnes
<1>7. NextOnes(toks, r, p, m + 1)
  BY <1>5
<1>8. QED
  BY <1>1, <1>6, <1>7, <1>b DEF RoundSees

(* What the shared state holds after a round of n - 1 = p verified tokens   *)
(* that accepted m drafts: for either decoder.                              *)
RoundLeaves(r, p, s, ds, toks, rows, m, n, d) ==
  /\ RoundOf(r, p, s, ds, toks, rows, m)
  /\ DeviceLen(r) = p + 1
  /\ Running' = {r} /\ table'[r] = s
  /\ RoundDone(r, n, RoundTokens(rows, ds, m))
  /\ KeyTo(r, d, Tail(RoundTokens(rows, ds, m)))
  /\ kv' = [kv EXCEPT ![s] = Stored(kv[s], p, toks)]

LEMMA RoundShares ==
  ASSUME EngineInv, SharedRight, NEW r \in Reqs, NEW p \in Nat, NEW s \in Slots,
         NEW ds, NEW toks, NEW rows, NEW m, NEW n, NEW d,
         RoundLeaves(r, p, s, ds, toks, rows, m, n, d)
  PROVE  SharedRight' /\ Verified(r)' = p + m + 1
<1> USE SpecAssumption
<1>d. PICK emitted : emitted = RoundTokens(rows, ds, m)
  OBVIOUS
<1>e. /\ RoundOf(r, p, s, ds, toks, rows, m) /\ DeviceLen(r) = p + 1
      /\ Running' = {r} /\ table'[r] = s
      /\ kv' = [kv EXCEPT ![s] = Stored(kv[s], p, toks)]
  BY DEF RoundLeaves
<1>f. RoundDone(r, n, emitted) /\ KeyTo(r, d, Tail(emitted))
  BY <1>d DEF RoundLeaves
<1>a. RoundSees(r, p, toks, rows, m)
  BY <1>e, RoundRight
<1>b. ds \in Seq(Tokens) /\ Len(ds) \in Nat /\ p + Len(ds) + 1 <= MaxSeq /\ KeysOf(kv[s], r, p)
  BY <1>e, LenProperties DEF RoundOf
<1>c. m \in 0..Len(ds) /\ m \in Nat /\ m <= Len(ds) /\ \A i \in 1..m : rows[i] = ds[i]
  BY <1>b, <1>e DEF RoundOf
<1>1. /\ toks \in Seq(Tokens) /\ m + 1 \in 1..Len(toks) /\ Len(toks) \in Nat
      /\ NextOnes(toks, r, p, m + 1) /\ NextOnes(rows, r, p + 1, m + 1)
  BY <1>a, LenProperties DEF RoundSees
<1>2. rows[m + 1] = Tok(r, p + 1 + (m + 1)) /\ rows[m + 1] \in Tokens
  <2>1. rows[m + 1] = Tok(r, p + 1 + (m + 1))
    BY <1>1, <1>c DEF NextOnes
  <2>2. p + 1 + (m + 1) \in Nat
    BY <1>c
  <2>3. QED
    BY <2>1, <2>2, TokenTypes
<1>3. /\ emitted \in Seq(Tokens) /\ Len(emitted) = m + 1
      /\ \A i \in 1..m : emitted[i] = ds[i]
      /\ emitted[m + 1] = rows[m + 1]
      /\ Len(Tail(emitted)) = m
      /\ \A i \in 1..m : Tail(emitted)[i] = emitted[i + 1]
  BY <1>2, <1>b, <1>c, <1>d, RoundTokensIs
<1>4. NextOnes(emitted, r, p + 1, m + 1)
  <2>1. ASSUME NEW i \in 1..(m + 1)
        PROVE  emitted[i] = rows[i]
    <3>1. i \in 1..m \/ i = m + 1
      BY <1>c
    <3>2. QED
      BY <1>3, <1>c, <3>1
  <2>2. QED
    BY <1>1, <2>1 DEF NextOnes
<1>6. EmitsGreedy' /\ DeviceLen(r)' = (p + 1) + 1
  <2>1. emitted[1] = Tok(r, (p + 1) + 1)
    <3>1. 1 \in 1..(m + 1)
      BY <1>c
    <3>2. QED
      BY <1>4, <3>1 DEF NextOnes
  <2>2. seq' = [seq EXCEPT ![r] = Append(@, Tok(r, (p + 1) + 1))]
    BY <1>f, <2>1 DEF RoundDone
  <2>3. p + 1 \in Nat
    OBVIOUS
  <2>4. QED
    BY <1>e, <2>2, <2>3, AppendRight
<1>7. /\ sp'.uid = r /\ sp'.expect = (p + 1) + 1 /\ sp'.cache = Tail(emitted) /\ sp'.pos = 0
  <2>1. sp' = [uid |-> r, expect |-> DeviceLen(r) + 1, draft |-> d, cache |-> Tail(emitted),
               pos |-> 0]
    BY <1>e, <1>f DEF KeyTo
  <2>2. QED
    BY <1>e, <2>1
<1>8. Verified(r)' = p + m + 1
  <2>1. Ahead(r)' = m
    BY <1>3, <1>6, <1>7, <1>c DEF Ahead, Keyed
  <2>2. Verified(r)' = (p + 1) + 1 - 1 + m
    BY <1>6, <2>1 DEF Verified
  <2>3. QED
    BY <1>c, <2>2
<1>9. \A j \in (sp'.pos + 1)..Len(sp'.cache) : sp'.cache[j] = Tok(r, DeviceLen(r)' + j - sp'.pos)
  <2>1. ASSUME NEW j \in (0 + 1)..m
        PROVE  Tail(emitted)[j] = Tok(r, (p + 1) + 1 + j - 0)
    <3>1. j \in 1..m /\ j + 1 \in 1..(m + 1) /\ p + 1 + (j + 1) = (p + 1) + 1 + j - 0
      BY <1>c
    <3>2. emitted[j + 1] = Tok(r, p + 1 + (j + 1))
      BY <1>4, <3>1 DEF NextOnes
    <3>3. QED
      BY <1>3, <3>1, <3>2
  <2>2. /\ sp'.cache = Tail(emitted) /\ sp'.pos = 0 /\ Len(sp'.cache) = m
        /\ DeviceLen(r)' = (p + 1) + 1
    BY <1>3, <1>6, <1>7
  <2>3. QED
    BY <2>1, <2>2, Zenon
<1>10. KeysOf(Stored(kv[s], p, toks), r, p + m + 1)
  <2>1. PICK k \in 0..Len(toks) : k = m + 1
    BY <1>1, <1>c
  <2>2. p + k <= MaxSeq /\ p + k = p + m + 1 /\ NextOnes(toks, r, p, k)
    <3>1. p + k <= MaxSeq /\ p + k = p + m + 1
      BY <1>b, <1>c, <2>1
    <3>2. QED
      BY <1>1, <2>1, <3>1
  <2>3. KeysOf(Stored(kv[s], p, toks), r, p + k)
    BY <1>1, <1>b, <2>2, StoredRight
  <2>4. QED
    BY <2>2, <2>3
<1>11. kv' = [x \in Slots |-> kv'[x]] /\ kv'[s] = Stored(kv[s], p, toks)
  BY <1>e DEF SharedRight, KeysRight
<1>12. \A i \in 0..(Verified(r)' - 1) : kv'[s][i] = Tok(r, i + 1)
  BY <1>8, <1>10, <1>11 DEF KeysOf
<1>13. SharedRight'
  BY <1>e, <1>6, <1>9, <1>11, <1>12, SharedAfter
<1>14. QED
  BY <1>8, <1>13

-----------------------------------------------------------------------------
(* Arithmetic with a divisor that is not a number: the ring's window.       *)

LEMMA DivMod ==
  ASSUME NEW a \in Int, NEW D \in Nat \ {0}
  PROVE  /\ a \div D \in Int /\ a % D \in 0..(D - 1)
         /\ a = D * (a \div D) + (a % D)
  OBVIOUS

LEMMA Multiples ==
  ASSUME NEW D \in Nat \ {0}, NEW k \in Int, NEW l \in Int, k < l
  PROVE  D * k + D <= D * l
<1>1. PICK t \in Nat : l = k + 1 + t
  <2>1. l - k - 1 \in Nat /\ l = k + 1 + (l - k - 1)
    OBVIOUS
  <2>2. QED
    BY <2>1
<1>2. D * t >= 0
  OBVIOUS
<1>3. D * (k + 1 + t) = D * k + D + D * t
  OBVIOUS
<1>4. QED
  BY <1>1, <1>2, <1>3

LEMMA ModUnique ==
  ASSUME NEW D \in Nat \ {0}, NEW a \in Int, NEW b \in Int, a % D = b % D,
         a - b < D, b - a < D
  PROVE  a = b
<1>1. /\ a \div D \in Int /\ a % D \in 0..(D - 1) /\ a = D * (a \div D) + (a % D)
      /\ b \div D \in Int /\ b % D \in 0..(D - 1) /\ b = D * (b \div D) + (b % D)
  BY DivMod
<1>2. ~(a \div D < b \div D)
  <2>1. SUFFICES ASSUME a \div D < b \div D
                 PROVE  FALSE
    OBVIOUS
  <2>2. D * (a \div D) + D <= D * (b \div D)
    BY <1>1, <2>1, Multiples
  <2>3. QED
    BY <1>1, <2>2
<1>3. ~(b \div D < a \div D)
  <2>1. SUFFICES ASSUME b \div D < a \div D
                 PROVE  FALSE
    OBVIOUS
  <2>2. D * (b \div D) + D <= D * (a \div D)
    BY <1>1, <2>1, Multiples
  <2>3. QED
    BY <1>1, <2>2
<1>4. QED
  BY <1>1, <1>2, <1>3

-----------------------------------------------------------------------------
(* The ring of hidden states.                                               *)

(* A position's entry in the ring; positions less than a window apart have  *)
(* different ones.                                                          *)
Place(q) == q % Win
LEMMA PlaceIs ==
  /\ \A q \in Int : Place(q) \in 0..(Win - 1)
  /\ \A x, q \in Int : Place(x) = Place(q) /\ x - q < Win /\ q - x < Win => x = q
<1>1. \A q \in Int : Place(q) \in 0..(Win - 1)
  BY DSparkAssumption DEF Place
<1>2. ASSUME NEW x \in Int, NEW q \in Int, x % Win = q % Win, x - q < Win, q - x < Win
      PROVE  x = q
  BY <1>2, DSparkAssumption, ModUnique
<1>3. QED
  BY <1>1, <1>2 DEF Place

RingRight(g) ==
  /\ g.last \in Int /\ g.last >= -1
  /\ g.valid \in 0..Win /\ g.valid <= g.last + 1
  /\ \A q \in (g.last - g.valid + 1)..g.last : g.at[Place(q)] = <<g.uid, q>>

LEMMA RingForIs ==
  ASSUME RingRight(ring), NEW r \in Reqs
  PROVE  RingRight(RingFor(r)) /\ RingFor(r).uid = r
<1> USE DSparkAssumption
<1>1. CASE ring.uid = r
  BY <1>1 DEF RingFor
<1>2. CASE ring.uid # r
  <2>1. /\ RingFor(r).uid = r /\ RingFor(r).last = -1 /\ RingFor(r).valid = 0
    BY <1>2 DEF RingFor, RingInit
  <2>2. QED
    BY <2>1 DEF RingRight
<1>3. QED
  BY <1>1, <1>2

(* A write of at most a window of positions: the entries counted as valid   *)
(* afterwards are the new ones and, behind no gap, the newest of the old.   *)
LEMMA RingWriteIs ==
  ASSUME NEW g, RingRight(g), NEW first \in Nat, NEW last \in Nat,
         first <= last, last - first + 1 <= Win,
         NEW h, h = RingWrite(g, g.uid, first, last)
  PROVE  RingRight(h) /\ h.uid = g.uid /\ h.last = last
<1> USE DSparkAssumption
<1> DEFINE n == last - first + 1
           In(i) == {q \in first..last : Place(q) = i}
           count == IF g.last >= 0 /\ first = g.last + 1 THEN g.valid + n ELSE n
<1>1. /\ h.uid = g.uid /\ h.last = last /\ h.valid = Least(Win, count)
      /\ \A i \in 0..(Win - 1) :
           h.at[i] = IF In(i) # {} THEN <<g.uid, CHOOSE q \in In(i) : TRUE>> ELSE g.at[i]
  BY DEF RingWrite, Place
<1>2. /\ g.last \in Int /\ g.last >= -1 /\ g.valid \in 0..Win /\ g.valid <= g.last + 1
  BY DEF RingRight
<1>3. n \in Nat \ {0} /\ n <= Win /\ count \in Nat /\ count <= last + 1
  BY <1>2
<1>4. h.valid \in 0..Win /\ h.valid <= last + 1 /\ h.valid <= count
  BY <1>1, <1>3 DEF Least
<1>5. ASSUME NEW q \in (last - h.valid + 1)..last
      PROVE  h.at[Place(q)] = <<g.uid, q>>
  <2>6. q \in Nat /\ last - q < h.valid /\ h.valid <= Win
    BY <1>4
  <2>7. last - q < Win
    BY <1>4, <2>6
  <2>1. q \in Nat /\ Place(q) \in 0..(Win - 1) /\ last - q < Win
    BY <2>6, <2>7, PlaceIs
  <2>2. ASSUME NEW x \in In(Place(q))
        PROVE  x = q
    <3>1. x \in first..last /\ Place(x) = Place(q)
      OBVIOUS
    <3>3. x \in Int /\ x - q < Win /\ q - x < Win
      BY <1>3, <2>1, <3>1
    <3>2. QED
      BY <2>1, <3>1, <3>3, PlaceIs
  <2>3. CASE q >= first
    <3>1. q \in In(Place(q))
      BY <2>1, <2>3
    <3>2. (CHOOSE x \in In(Place(q)) : TRUE) = q
      BY <2>2, <3>1
    <3>3. QED
      BY <1>1, <2>1, <3>1, <3>2
  <2>4. CASE q < first
    <3>1. In(Place(q)) = {}
      BY <2>2, <2>4
    <3>2. g.last >= 0 /\ first = g.last + 1
      BY <1>2, <1>3, <1>4, <2>1, <2>4
    <3>6. h.valid <= g.valid + n
      BY <1>2, <1>4, <3>2
    <3>3. q \in (g.last - g.valid + 1)..g.last
      BY <1>2, <1>4, <2>6, <2>4, <3>2, <3>6
    <3>4. g.at[Place(q)] = <<g.uid, q>>
      BY <3>3 DEF RingRight
    <3>5. QED
      BY <1>1, <2>1, <3>1, <3>4
  <2>5. QED
    BY <2>1, <2>3, <2>4
<1>6. RingRight(h)
  BY <1>1, <1>4, <1>5 DEF RingRight
<1>7. QED
  BY <1>1, <1>6

LEMMA RingMoves ==
  ASSUME RingRight(ring), NEW first \in Nat, NEW last \in Nat,
         first <= last, last - first + 1 <= Win,
         ring' = RingWrite(ring, ring.uid, first, last)
  PROVE  RingRight(ring') /\ ring'.uid = ring.uid /\ ring'.last = last
  BY RingWriteIs

-----------------------------------------------------------------------------
(* Both decoders' steps are the bookkeeping's.                              *)

(* A draft of either decoder is what its own rounds expect.                 *)
DraftTypes ==
  /\ arch = "glm5_next" => sp.draft \in Tokens \cup {None}
  /\ arch = "deepseek_v4" /\ sp.draft # None =>
       sp.draft \in Seq(Tokens) /\ Len(sp.draft) \in 1..K

RingKept ==
  /\ RingRight(ring)
  /\ arch = "deepseek_v4" /\ sp.draft # None =>
       /\ ring.uid = sp.uid
       /\ ring.last = sp.expect - 2 + Len(sp.cache) - sp.pos

DecodeInv == EngineInv /\ DraftTypes /\ RingKept

LEMMA PredictTypes ==
  ASSUME NEW r \in Reqs, NEW p \in Nat
  PROVE  /\ \A state, keys : Predict(r, p, state, keys) \in Tokens
         /\ \A keys, cmp : PredictFrom(r, p, keys, cmp) \in Tokens
<1>1. Tok(r, p + 2) \in Tokens /\ Bad \in Tokens
  BY TokenTypes
<1>2. QED
  BY <1>1 DEF Predict, PredictFrom

LEMMA DraftsAre ==
  ASSUME NEW r \in Reqs, NEW place \in Nat \ {0}
  PROVE  /\ Drafts(r, place) \subseteq Tokens
         /\ \A d \in DraftBlocks(r, place) : d \in Seq(Tokens) /\ Len(d) \in 1..K
<1>1. Drafts(r, place) \subseteq Tokens
  BY TokenTypes DEF Drafts
<1>2. ASSUME NEW d \in DraftBlocks(r, place)
      PROVE  d \in Seq(Tokens) /\ Len(d) \in 1..K
  <2>1. PICK n \in 1..K, right \in [1..K -> BOOLEAN] :
          d = [i \in 1..n |-> IF right[i] THEN Tok(r, place + i - 1) ELSE Bad]
    BY DEF DraftBlocks
  <2>2. \A i \in 1..n : (IF right[i] THEN Tok(r, place + i - 1) ELSE Bad) \in Tokens
    BY TokenTypes
  <2>3. d \in [1..n -> Tokens]
    BY <2>1, <2>2
  <2>4. QED
    BY <2>3, SpecAssumption
<1>3. QED
  BY <1>1, <1>2

(* The drafts a round of the MTP decoder verifies: the carried one first.   *)
LEMMA ChainedAre ==
  ASSUME NEW r \in Reqs, NEW p \in Nat, sp.draft \in Tokens, NEW ds \in Chained(r, p)
  PROVE  ds \in Seq(Tokens) /\ Len(ds) = K
<1> USE SpecAssumption
<1>1. PICK right \in [1..(K - 1) -> BOOLEAN] :
        ds = <<sp.draft>> \o [j \in 1..(K - 1) |-> IF right[j] THEN Tok(r, p + 2 + j) ELSE Bad]
  BY DEF Chained
<1> DEFINE rest == [j \in 1..(K - 1) |-> IF right[j] THEN Tok(r, p + 2 + j) ELSE Bad]
<1>2. rest \in Seq(Tokens) /\ Len(rest) = K - 1
  <2>1. \A j \in 1..(K - 1) : (IF right[j] THEN Tok(r, p + 2 + j) ELSE Bad) \in Tokens
    BY TokenTypes
  <2>2. rest \in [1..(K - 1) -> Tokens]
    BY <2>1
  <2>3. QED
    BY <2>2
<1>3. <<sp.draft>> \in Seq(Tokens) /\ Len(<<sp.draft>>) = 1
  OBVIOUS
<1> HIDE DEF rest
<1>4. ds = <<sp.draft>> \o rest
  BY <1>1 DEF rest
<1>5. QED
  BY <1>2, <1>3, <1>4, ConcatProperties

LEMMA DecodeInitial == Init => DecodeInv
<1> SUFFICES ASSUME Init
             PROVE  DecodeInv
  OBVIOUS
<1>1. EngineInv
  BY EngineInitial DEF Init, MtpInit
<1>2. sp.draft = None /\ ring = RingInit
  BY DEF Init, MtpInit, DsInit, EngineInit
<1>3. RingRight(ring)
  BY <1>2, DSparkAssumption DEF RingRight, RingInit
<1>4. QED
  BY <1>1, <1>2, <1>3 DEF DecodeInv, DraftTypes, RingKept

(* GLM5-Next.                                                               *)
LEMMA MtpPrefillKeeps ==
  ASSUME EngineInv, DraftTypes, NEW r \in Reqs, MtpPrefill(r)
  PROVE  EngineInv' /\ sp' = sp
<1> USE SpecAssumption
<1>1. phase[r] = "waiting" /\ seq[r] = Truth(r, PromptLen) /\ DeviceLen(r) = PromptLen
  <2>1. Len(Truth(r, PromptLen)) = PromptLen
    BY TruthIs
  <2>2. QED
    BY <2>1 DEF MtpPrefill, EngineInv, Seated, DeviceLen
<1>2. PICK s \in FreeSlots, first \in Tokens : Admit(r, s, first)
  <2>1. DeviceLen(r) - 1 \in Nat
    BY <1>1
  <2>2. \A state, keys : Predict(r, DeviceLen(r) - 1, state, keys) \in Tokens
    BY <2>1, PredictTypes
  <2>3. QED
    BY <2>2 DEF MtpPrefill
<1>3. Admitted(r, first)
  BY <1>1, <1>2 DEF Admitted, FreeSlots, MtpPrefill
<1>4. QED
  BY <1>3, AdmitKeeps DEF MtpPrefill

LEMMA ForwardTypes ==
  ASSUME EngineInv, NEW S, S = Batch, Forward(S)
  PROVE  \E next \in [S -> Tokens] : Emitted(S, next)
<1> USE SpecAssumption
<1> DEFINE next == [r \in S |-> Predict(r, DeviceLen(r) - 1, States(S)[table[r]], InputKeys(r))]
<1>1. next \in [S -> Tokens]
  <2>1. ASSUME NEW r \in S
        PROVE  Predict(r, DeviceLen(r) - 1, States(S)[table[r]], InputKeys(r)) \in Tokens
    <3>1. r \in Reqs /\ DeviceLen(r) - 1 \in Nat
      BY BatchIs
    <3>2. QED
      BY <3>1, PredictTypes
  <2>2. QED
    BY <2>1
<1>2. Emitted(S, next)
  BY DEF Forward
<1>3. QED
  BY <1>1, <1>2

LEMMA MtpRoundKeeps ==
  ASSUME EngineInv, DraftTypes, arch = "glm5_next", NEW r, Batch = {r},
         NEW a \in Allocated(Batch), alloc' = a, RoundStep(r, a),
         UNCHANGED <<phase, table, sampling>>
  PROVE  EngineInv' /\ sp'.draft \in Tokens
<1> USE SpecAssumption
<1>1. /\ r \in Reqs /\ table[r] \in Slots /\ DeviceLen(r) \in Nat /\ DeviceLen(r) - 1 \in Nat
      /\ RemainLen(r) \in Nat \ {0} /\ r \notin sampling
  <2>1. RoundGate(r, a)
    BY Zenon DEF RoundStep
  <2>2. SpecEligible({r})
    BY Zenon DEF RoundStep
  <2>3. QED
    BY <2>2, BatchIs DEF SpecEligible
<1> DEFINE p == DeviceLen(r) - 1
<1>2. PICK outcome \in CaptureOutcomes, ds \in Chained(r, p) :
       LET toks == <<Input(r)>> \o ds
           g == Staged(outcome, r, p)
           tg == Target(g, r, p)
           pool == IF graph.state = "none" /\ outcome = "captured" THEN OnDummy(rec) ELSE rec
           keys == Stored(kv[tg.slot], tg.at, toks)
           rows == VerifyRows(r, p, pool[tg.slot], keys, toks)
           m == Accepted(r, rows, ds)
           emitted == RoundTokens(rows, ds, m)
       IN  /\ RoundDone(r, p + K + 1, emitted)
           /\ \E d \in Drafts(r, p + m + 3) : KeyTo(r, d, Tail(emitted))
           /\ graph' = g
  BY ZenonT(60) DEF RoundStep
<1> DEFINE toks == <<Input(r)>> \o ds
           g == Staged(outcome, r, p)
           tg == Target(g, r, p)
           pool == IF graph.state = "none" /\ outcome = "captured" THEN OnDummy(rec) ELSE rec
           keys == Stored(kv[tg.slot], tg.at, toks)
           rows == VerifyRows(r, p, pool[tg.slot], keys, toks)
           m == Accepted(r, rows, ds)
           emitted == RoundTokens(rows, ds, m)
<1>3. /\ RoundDone(r, p + K + 1, emitted)
      /\ \E d \in Drafts(r, p + m + 3) : KeyTo(r, d, Tail(emitted))
      /\ graph' = g
  BY <1>2
<1>4. sp.draft \in Tokens
  <2>1. RoundGate(r, a)
    BY Zenon DEF RoundStep
  <2>2. QED
    BY <2>1 DEF RoundGate, DraftTypes
<1>5. ds \in Seq(Tokens) /\ Len(ds) = K
  BY <1>1, <1>4, ChainedAre
<1>6. g \in Graphs
  BY <1>1, StagedIs DEF EngineInv
<1>7. \A i \in 1..(K + 1) : rows[i] \in Tokens
  BY <1>1, PredictTypes DEF VerifyRows
<1> HIDE DEF rows, g
<1>8. m \in 0..K /\ m <= RemainLen(r) - 1
  BY <1>1, <1>5, AcceptedIs
<1>9. emitted \in Seq(Tokens) /\ Len(emitted) = m + 1
  BY <1>5, <1>7, <1>8, RoundTokensIs
<1> HIDE DEF m, emitted
<1>10. PICK d \in Drafts(r, p + m + 3) : KeyTo(r, d, Tail(emitted))
  BY <1>3
<1>11. d \in Tokens
  BY <1>1, <1>8, <1>10, DraftsAre
<1>12. RoundEnds(r, a, p + K + 1, emitted, d)
  <2>1. RoundGate(r, a)
    BY Zenon DEF RoundStep
  <2>2. p + K + 1 \in Nat /\ p + K + 1 <= DeviceLen(r) + K
    BY <1>1
  <2>3. QED
    BY <1>1, <1>3, <1>8, <1>9, <1>10, <1>11, <2>1, <2>2 DEF RoundEnds, AnyDraft
<1>13. sp'.draft = d
  BY <1>10 DEF KeyTo
<1>14. QED
  BY <1>1, <1>3, <1>6, <1>11, <1>12, <1>13, RoundKeeps

LEMMA MtpDecodeKeeps ==
  ASSUME EngineInv, DraftTypes, arch = "glm5_next", MtpDecode
  PROVE  EngineInv' /\ sp'.draft \in Tokens \cup {None}
<1>1. PICK a \in Allocated(Batch) :
        /\ alloc' = a
        /\ \/ PlainStep(Batch)
           \/ \E r \in Batch : Batch = {r} /\ (BootStep(r, a) \/ PopStep(r) \/ RoundStep(r, a))
  BY DEF MtpDecode
<1>2. UNCHANGED <<phase, table, sampling>>
  BY DEF MtpDecode
<1>3. CASE PlainStep(Batch)
  <2>1. PICK next \in [Batch -> Tokens] : Emitted(Batch, next)
    BY <1>3, ForwardTypes DEF PlainStep
  <2>2. Forwarded(a, next) /\ sp' = sp
    BY <1>1, <1>2, <1>3, <2>1 DEF PlainStep, Forward, Forwarded
  <2>3. QED
    BY <2>2, ForwardKeeps DEF DraftTypes
<1>4. ASSUME NEW r \in Batch, Batch = {r}, BootStep(r, a)
      PROVE  EngineInv' /\ sp'.draft \in Tokens \cup {None}
  <2>1. PICK next \in [Batch -> Tokens] : Emitted(Batch, next)
    BY <1>4, ForwardTypes DEF BootStep
  <2>2. PICK d \in Drafts(r, DeviceLen(r) + 2) : KeyTo(r, d, <<>>)
    BY <1>4 DEF BootStep
  <2>3. d \in Tokens /\ sp'.draft = d
    BY <2>2, BatchIs, DraftsAre, SpecAssumption DEF KeyTo
  <2>4. Forwarded(a, next)
    BY <1>1, <1>2, <1>4, <2>1, <2>2, <2>3 DEF BootStep, SpecEligible, Forward, Forwarded, AnyDraft
  <2>5. QED
    BY <2>3, <2>4, ForwardKeeps
<1>5. ASSUME NEW r \in Batch, Batch = {r}, PopStep(r)
      PROVE  EngineInv' /\ sp'.draft \in Tokens \cup {None}
  <2>1. EngineInv'
    BY <1>1, <1>2, <1>5, PopKeeps DEF PopStep
  <2>2. sp'.draft = sp.draft
    BY <1>5 DEF PopStep, Pop, EngineInv, EngineTypes
  <2>3. QED
    BY <2>1, <2>2 DEF DraftTypes
<1>6. ASSUME NEW r \in Batch, Batch = {r}, RoundStep(r, a)
      PROVE  EngineInv' /\ sp'.draft \in Tokens \cup {None}
  BY <1>1, <1>2, <1>6, MtpRoundKeeps
<1>7. QED
  BY <1>1, <1>3, <1>4, <1>5, <1>6

LEMMA MtpKeeps ==
  ASSUME DecodeInv, Glm, NEW r \in Reqs, MtpPrefill(r) \/ MtpDepart(r) \/ MtpDecode
  PROVE  DecodeInv'
<1>1. EngineInv' /\ sp'.draft \in Tokens \cup {None}
  <2>1. CASE MtpPrefill(r)
    BY <2>1, MtpPrefillKeeps DEF DecodeInv, DraftTypes, Glm
  <2>2. CASE MtpDepart(r)
    BY <2>2, LeaveKeeps DEF DecodeInv, DraftTypes, Glm, MtpDepart, Finish, Stop, Leave
  <2>3. CASE MtpDecode
    BY <2>3, MtpDecodeKeeps DEF DecodeInv, Glm
  <2>4. QED
    BY <2>1, <2>2, <2>3
<1>2. arch' = "glm5_next" /\ ring' = ring
  BY DEF Glm, dsVars
<1>3. RingKept'
  BY <1>2 DEF DecodeInv, RingKept, RingRight
<1>4. QED
  BY <1>1, <1>2, <1>3 DEF DecodeInv, DraftTypes

(* DeepSeek-V4.                                                             *)

(* What a DSpark step leaves: a draft of its type, drafted behind the ring. *)
DsDrafted ==
  /\ EngineInv'
  /\ sp'.draft # None => sp'.draft \in Seq(Tokens) /\ Len(sp'.draft) \in 1..K
  /\ RingRight(ring')
  /\ sp'.draft # None => /\ ring'.uid = sp'.uid
                         /\ ring'.last = sp'.expect - 2 + Len(sp'.cache) - sp'.pos

LEMMA DsPrefillKeeps ==
  ASSUME DecodeInv, arch = "deepseek_v4", NEW r \in Reqs, DsPrefill(r)
  PROVE  DsDrafted
<1> USE SpecAssumption, DSparkAssumption
<1>1. phase[r] = "waiting" /\ seq[r] = Truth(r, PromptLen) /\ DeviceLen(r) = PromptLen
  <2>1. Len(Truth(r, PromptLen)) = PromptLen
    BY TruthIs
  <2>2. QED
    BY <2>1 DEF DsPrefill, DecodeInv, EngineInv, Seated, DeviceLen
<1>2. PICK s \in FreeSlots, first \in Tokens : Admit(r, s, first)
  <2>1. \A keys, cmp : PredictFrom(r, PromptLen - 1, keys, cmp) \in Tokens
    BY <1>1, PredictTypes
  <2>2. QED
    BY <2>1 DEF DsPrefill
<1>3. PICK d \in DraftBlocks(r, PromptLen + 2) : KeyTo(r, d, <<>>)
  BY DEF DsPrefill
<1>4. d \in Seq(Tokens) /\ Len(d) \in 1..K
  BY <1>3, DraftsAre
<1>5. Admitted(r, first)
  BY <1>1, <1>2, <1>3, <1>4 DEF Admitted, FreeSlots, DsPrefill, AnyDraft
<1>6. EngineInv'
  BY <1>5, AdmitKeeps DEF DecodeInv
<1>7. sp'.uid = r /\ sp'.expect = PromptLen + 1 /\ sp'.draft = d /\ sp'.pos = 0 /\ sp'.cache = <<>>
  BY <1>1, <1>3 DEF KeyTo
<1> DEFINE first_ == Most(0, PromptLen - Win)
<1>8. first_ \in Nat /\ first_ <= PromptLen - 1 /\ (PromptLen - 1) - first_ + 1 <= Win
  BY DEF Most
<1>9. RingRight(RingFor(r)) /\ RingFor(r).uid = r
  BY RingForIs DEF DecodeInv, RingKept
<1>10. ring' = RingWrite(RingFor(r), RingFor(r).uid, first_, PromptLen - 1)
  BY <1>9 DEF DsPrefill
<1> HIDE DEF first_
<1>11. RingRight(ring') /\ ring'.uid = r /\ ring'.last = PromptLen - 1
  BY <1>8, <1>9, <1>10, RingWriteIs
<1>12. QED
  BY <1>4, <1>6, <1>7, <1>11 DEF DsDrafted

LEMMA DsForwardTypes ==
  ASSUME EngineInv, NEW S, S = Batch, DsForward(S)
  PROVE  \E next \in [S -> Tokens] : Emitted(S, next)
<1> USE SpecAssumption
<1> DEFINE cs == [r \in S |-> LET p == DeviceLen(r) - 1
                              IN Advanced(comp[table[r]], CarryAt(comp[table[r]], p), p, <<Input(r)>>)]
           next == [r \in S |-> PredictFrom(r, DeviceLen(r) - 1, InputKeys(r), cs[r].cmp)]
<1>1. next \in [S -> Tokens]
  <2>1. ASSUME NEW r \in S
        PROVE  \A keys, cmp : PredictFrom(r, DeviceLen(r) - 1, keys, cmp) \in Tokens
    <3>1. r \in Reqs /\ DeviceLen(r) - 1 \in Nat
      BY BatchIs
    <3>2. QED
      BY <3>1, PredictTypes
  <2>2. QED
    BY <2>1
<1>2. Emitted(S, next)
  BY DEF DsForward
<1>3. QED
  BY <1>1, <1>2

LEMMA DsBootKeeps ==
  ASSUME DecodeInv, arch = "deepseek_v4", NEW r, Batch = {r},
         NEW a \in Allocated(Batch), alloc' = a, DsBootStep(r, a),
         UNCHANGED <<phase, table, sampling>>
  PROVE  DsDrafted
<1> USE SpecAssumption, DSparkAssumption
<1>1. r \in Batch /\ r \in Reqs /\ DeviceLen(r) \in Nat /\ DeviceLen(r) - 1 \in Nat
  BY BatchIs DEF DecodeInv
<1>2. PICK next \in [Batch -> Tokens] : Emitted(Batch, next)
  BY DsForwardTypes DEF DsBootStep, DecodeInv
<1>3. PICK d \in DraftBlocks(r, DeviceLen(r) + 2) : KeyTo(r, d, <<>>)
  BY DEF DsBootStep
<1>4. d \in Seq(Tokens) /\ Len(d) \in 1..K
  BY <1>1, <1>3, DraftsAre
<1>5. sp'.uid = r /\ sp'.expect = DeviceLen(r) + 1 /\ sp'.draft = d /\ sp'.pos = 0 /\ sp'.cache = <<>>
  BY <1>3 DEF KeyTo
<1>6. Forwarded(a, next)
  BY <1>1, <1>2, <1>3, <1>4 DEF DsBootStep, SpecEligible, DsForward, Forwarded, AnyDraft
<1>7. EngineInv'
  BY <1>6, ForwardKeeps DEF DecodeInv
<1>8. RingRight(RingFor(r)) /\ RingFor(r).uid = r
  BY <1>1, RingForIs DEF DecodeInv, RingKept
<1>9. ring' = RingWrite(RingFor(r), RingFor(r).uid, DeviceLen(r) - 1, DeviceLen(r) - 1)
  BY <1>8 DEF DsBootStep
<1>10. RingRight(ring') /\ ring'.uid = r /\ ring'.last = DeviceLen(r) - 1
  BY <1>1, <1>8, <1>9, RingWriteIs
<1>11. QED
  BY <1>1, <1>4, <1>5, <1>7, <1>10 DEF DsDrafted

LEMMA DsRoundKeeps ==
  ASSUME DecodeInv, arch = "deepseek_v4", NEW r, Batch = {r},
         NEW a \in Allocated(Batch), alloc' = a, DsRoundStep(r, a),
         UNCHANGED <<phase, table, sampling>>
  PROVE  DsDrafted
<1> USE SpecAssumption, DSparkAssumption
<1>1. /\ r \in Reqs /\ table[r] \in Slots /\ DeviceLen(r) \in Nat /\ DeviceLen(r) - 1 \in Nat
      /\ RemainLen(r) \in Nat \ {0} /\ r \notin sampling
  <2>1. r \in Batch /\ EngineInv
    BY DEF DecodeInv
  <2>2. r \notin sampling
    BY DEF DsRoundStep, SpecEligible
  <2>3. QED
    BY <2>1, <2>2, BatchIs
<1> DEFINE p == DeviceLen(r) - 1
           ds == sp.draft
           toks == <<Input(r)>> \o ds
<1>2. PICK outcome \in IF Len(ds) = K THEN CaptureOutcomes ELSE {"eager"} :
       LET g == IF outcome = "eager" THEN graph ELSE Staged(outcome, r, p)
           tg == Target([state |-> outcome, slot |-> g.slot, at |-> g.at], r, p)
           keys == Stored(kv[tg.slot], tg.at, toks)
           before == comp[tg.slot]
           verified == Advanced(before, CarryAt(before, tg.at), tg.at, toks)
           rows == [i \in 1..Len(toks) |-> PredictFrom(r, p + i - 1, keys, verified.cmp)]
           m == Accepted(r, rows, ds)
           emitted == RoundTokens(rows, ds, m)
       IN  /\ kv' = [kv EXCEPT ![tg.slot] = keys]
           /\ comp' = [comp EXCEPT ![tg.slot] = Refixed(before, verified, p, toks, m + 1)]
           /\ ring' = RingWrite(ring, r, p, p + m)
           /\ RoundDone(r, p + Len(toks), emitted)
           /\ \E d \in DraftBlocks(r, p + m + 3) : KeyTo(r, d, Tail(emitted))
           /\ graph' = g
  BY DEF DsRoundStep
<1> DEFINE g == IF outcome = "eager" THEN graph ELSE Staged(outcome, r, p)
           tg == Target([state |-> outcome, slot |-> g.slot, at |-> g.at], r, p)
           keys == Stored(kv[tg.slot], tg.at, toks)
           before == comp[tg.slot]
           verified == Advanced(before, CarryAt(before, tg.at), tg.at, toks)
           rows == [i \in 1..Len(toks) |-> PredictFrom(r, p + i - 1, keys, verified.cmp)]
           m == Accepted(r, rows, ds)
           emitted == RoundTokens(rows, ds, m)
<1>3. /\ ring' = RingWrite(ring, r, p, p + m)
      /\ RoundDone(r, p + Len(toks), emitted)
      /\ \E d \in DraftBlocks(r, p + m + 3) : KeyTo(r, d, Tail(emitted))
      /\ graph' = g
  BY <1>2
<1>4. /\ sp.draft # None /\ RoundGate(r, a) /\ sp.uid = r /\ sp.expect = DeviceLen(r)
      /\ sp.pos >= Len(sp.cache)
  BY DEF DsRoundStep, RoundGate, Keyed
<1>5. ds \in Seq(Tokens) /\ Len(ds) \in 1..K
  BY <1>4 DEF DecodeInv, DraftTypes
<1>6. toks \in Seq(Tokens) /\ Len(toks) = Len(ds) + 1
  <2>1. <<Input(r)>> \in Seq(Tokens) /\ Len(<<Input(r)>>) = 1
    BY BatchIs DEF DecodeInv
  <2>2. QED
    BY <1>5, <2>1, ConcatProperties
<1>7. graph' \in Graphs
  <2>1. CASE outcome = "eager"
    BY <1>3, <2>1 DEF DecodeInv, EngineInv, EngineTypes
  <2>2. CASE outcome # "eager"
    <3>1. outcome \in CaptureOutcomes
      BY <1>2, <2>2
    <3>2. QED
      BY <1>1, <1>3, <2>2, <3>1, StagedIs DEF DecodeInv, EngineInv
  <2>3. QED
    BY <2>1, <2>2
<1>8. \A i \in 1..Len(toks) : rows[i] \in Tokens
  <2>1. ASSUME NEW i \in 1..Len(toks)
        PROVE  rows[i] \in Tokens
    <3>1. \A ks, cmp : PredictFrom(r, p + i - 1, ks, cmp) \in Tokens
      BY <1>1, <1>6, PredictTypes
    <3>2. QED
      BY <3>1
  <2>2. QED
    BY <2>1
<1> HIDE DEF rows, toks
<1>9. m \in 0..Len(ds) /\ m <= RemainLen(r) - 1
  BY <1>1, <1>5, AcceptedIs
<1>21. m \in Nat /\ m <= K /\ Len(ds) \in Nat /\ Len(ds) <= K
  BY <1>5, <1>9
<1>10. emitted \in Seq(Tokens) /\ Len(emitted) = m + 1 /\ Len(Tail(emitted)) = m
  BY <1>5, <1>6, <1>8, <1>9, RoundTokensIs
<1> HIDE DEF m, emitted
<1>11. PICK d \in DraftBlocks(r, p + m + 3) : KeyTo(r, d, Tail(emitted))
  BY <1>3
<1>12. d \in Seq(Tokens) /\ Len(d) \in 1..K
  BY <1>1, <1>5, <1>9, <1>11, DraftsAre
<1>13. RoundEnds(r, a, p + Len(toks), emitted, d)
  <2>4. DeviceLen(r) \in Nat /\ DeviceLen(r) - 1 \in Nat
    BY <1>1
  <2>5. Len(ds) \in Nat /\ Len(ds) <= K
    BY <1>21
  <2>6. K \in Nat
    OBVIOUS
  <2>7. Len(toks) = Len(ds) + 1
    BY <1>6
  <2>8. p = DeviceLen(r) - 1
    OBVIOUS
  <2>9. p + Len(toks) = DeviceLen(r) + Len(ds)
    BY <2>4, <2>5, <2>7, <2>8
  <2>1. p + Len(toks) \in Nat /\ p + Len(toks) <= DeviceLen(r) + K
    BY <2>4, <2>5, <2>6, <2>9
  <2>2. Len(emitted) \in 1..(K + 1) /\ Len(emitted) <= RemainLen(r)
    BY <1>1, <1>9, <1>10, <1>21
  <2>3. QED
    BY <1>3, <1>4, <1>10, <1>11, <1>12, <2>1, <2>2 DEF RoundEnds, AnyDraft
<1>14. EngineInv'
  BY <1>1, <1>7, <1>13, RoundKeeps DEF DecodeInv
<1>15. /\ sp'.uid = r /\ sp'.expect = DeviceLen(r) + 1 /\ sp'.draft = d
       /\ sp'.pos = 0 /\ Len(sp'.cache) = m
  BY <1>10, <1>11 DEF KeyTo
<1>16. RingRight(ring) /\ ring.uid = r
  BY <1>4 DEF DecodeInv, RingKept
<1>17. p \in Nat /\ p + m \in Nat /\ p <= p + m /\ (p + m) - p + 1 <= Win
  <2>1. DeviceLen(r) - 1 \in Nat /\ p = DeviceLen(r) - 1
    BY <1>1
  <2>2. m \in Nat /\ m <= K
    BY <1>21
  <2>3. K \in Nat /\ Win \in Nat /\ K + 1 <= Win
    OBVIOUS
  <2>4. QED
    BY <2>1, <2>2, <2>3
<1> HIDE DEF p
<1>18. RingRight(ring') /\ ring'.uid = r /\ ring'.last = p + m
  <2>1. ring' = RingWrite(ring, ring.uid, p, p + m)
    BY <1>3, <1>16
  <2>2. QED
    BY <1>16, <1>17, <2>1, RingMoves
<1>19. ring'.last = sp'.expect - 2 + Len(sp'.cache) - sp'.pos
  BY <1>1, <1>21, <1>15, <1>18 DEF p
<1>20. QED
  BY <1>12, <1>14, <1>15, <1>18, <1>19 DEF DsDrafted

LEMMA DsDecodeKeeps ==
  ASSUME DecodeInv, arch = "deepseek_v4", DsDecode
  PROVE  DsDrafted
<1>1. PICK a \in Allocated(Batch) :
        /\ alloc' = a
        /\ \/ DsPlainStep(Batch)
           \/ \E r \in Batch : /\ Batch = {r}
                               /\ DsBootStep(r, a) \/ DsPopStep(r) \/ DsRoundStep(r, a)
  BY DEF DsDecode
<1>2. UNCHANGED <<phase, table, sampling>>
  BY DEF DsDecode
<1>3. CASE DsPlainStep(Batch)
  <2>1. PICK next \in [Batch -> Tokens] : Emitted(Batch, next)
    BY <1>3, DsForwardTypes DEF DsPlainStep, DecodeInv
  <2>2. Forwarded(a, next) /\ sp' = sp /\ ring' = ring
    BY <1>1, <1>2, <1>3, <2>1 DEF DsPlainStep, DsForward, Forwarded
  <2>3. EngineInv'
    BY <2>2, ForwardKeeps DEF DecodeInv
  <2>4. QED
    BY <2>2, <2>3 DEF DecodeInv, DraftTypes, RingKept, DsDrafted, RingRight
<1>4. ASSUME NEW r \in Batch, Batch = {r}, DsBootStep(r, a)
      PROVE  DsDrafted
  BY <1>1, <1>2, <1>4, DsBootKeeps
<1>5. ASSUME NEW r \in Batch, Batch = {r}, DsPopStep(r)
      PROVE  DsDrafted
  <2>1. EngineInv'
    BY <1>1, <1>2, <1>5, PopKeeps DEF DsPopStep, DecodeInv
  <2>2. /\ sp' = [sp EXCEPT !.pos = sp.pos + 1, !.expect = sp.expect + 1] /\ ring' = ring
        /\ sp \in [uid : Reqs \cup {None}, expect : Int, draft : AnyDraft,
                   cache : Seq(Tokens), pos : Nat]
    BY <1>5 DEF DsPopStep, Pop, DecodeInv, EngineInv, EngineTypes
  <2>3. /\ sp'.draft = sp.draft /\ sp'.cache = sp.cache /\ sp'.uid = sp.uid
        /\ sp'.expect = sp.expect + 1 /\ sp'.pos = sp.pos + 1
        /\ sp.expect \in Int /\ sp.pos \in Int /\ Len(sp.cache) \in Nat
    BY <2>2
  <2>4. QED
    BY <2>1, <2>2, <2>3 DEF DecodeInv, DraftTypes, RingKept, DsDrafted, RingRight
<1>6. ASSUME NEW r \in Batch, Batch = {r}, DsRoundStep(r, a)
      PROVE  DsDrafted
  BY <1>1, <1>2, <1>6, DsRoundKeeps
<1>7. QED
  BY <1>1, <1>3, <1>4, <1>5, <1>6

LEMMA DsKeeps ==
  ASSUME DecodeInv, Dsv, NEW r \in Reqs, DsPrefill(r) \/ DsDepart(r) \/ DsDecode
  PROVE  DecodeInv'
<1>1. arch = "deepseek_v4" /\ arch' = "deepseek_v4"
  BY DEF Dsv
<1>2. DsDrafted
  <2>1. CASE DsPrefill(r)
    BY <1>1, <2>1, DsPrefillKeeps
  <2>2. CASE DsDepart(r)
    <3>1. EngineInv' /\ sp' = sp /\ ring' = ring
      BY <2>2, LeaveKeeps DEF DecodeInv, DsDepart, Finish, Stop, Leave
    <3>2. QED
      BY <1>1, <3>1 DEF DecodeInv, DraftTypes, RingKept, DsDrafted, RingRight
  <2>3. CASE DsDecode
    BY <1>1, <2>3, DsDecodeKeeps
  <2>4. QED
    BY <2>1, <2>2, <2>3
<1>3. QED
  BY <1>1, <1>2 DEF DsDrafted, DecodeInv, DraftTypes, RingKept, RingRight

-----------------------------------------------------------------------------
LEMMA DecodeStutters ==
  ASSUME DecodeInv, UNCHANGED vars
  PROVE  DecodeInv'
<1>1. UNCHANGED <<arch, seq, phase, table, alloc, wrote, sampling, sp, kv, graph, ring>>
  BY DEF vars, engineVars, dsVars
<1>2. EngineTypes' /\ Seated' /\ KeyBehind' /\ NoneCached'
  BY <1>1 DEF DecodeInv, EngineInv, EngineTypes, Seated, KeyBehind, NoneCached, DeviceLen
<1>3. BudgetKept' /\ WritesOwned'
  BY <1>1 DEF DecodeInv, EngineInv, BudgetKept, WritesOwned, Running, DeviceLen, Ahead, Keyed
<1>4. DraftTypes' /\ RingKept'
  BY <1>1 DEF DecodeInv, DraftTypes, RingKept, RingRight
<1>5. QED
  BY <1>2, <1>3, <1>4 DEF DecodeInv, EngineInv

LEMMA DecodeNext == DecodeInv /\ [Next]_vars => DecodeInv'
<1> SUFFICES ASSUME DecodeInv, [Next]_vars
             PROVE  DecodeInv'
  OBVIOUS
<1>1. CASE UNCHANGED vars
  BY <1>1, DecodeStutters
<1>2. ASSUME NEW r \in Reqs, Prefill(r) \/ Depart(r)
      PROVE  DecodeInv'
  BY <1>2, MtpKeeps, DsKeeps DEF Prefill, Depart
<1>3. CASE Decode
  <2>1. \E r \in Reqs : TRUE
    BY <1>3 DEF Decode, MtpDecode, DsDecode, Batch, Running
  <2>2. QED
    BY <1>3, <2>1, MtpKeeps, DsKeeps DEF Decode
<1>4. QED
  BY <1>1, <1>2, <1>3 DEF Next

LEMMA DecodeAlways == Spec => []DecodeInv
  BY DecodeInitial, DecodeNext, PTL DEF Spec

(* The requests, the rows, the speculative state, the verify graph and the  *)
(* ring are type correct: a cache never outgrows K, a position to pop never *)
(* its cache, the ring never its window.                                    *)
THEOREM SpecTypesKept == Spec => []SpecTypeOK
<1>1. DecodeInv => SpecTypeOK
  BY SMTT(30) DEF DecodeInv, EngineInv, EngineTypes, Graphs, RingKept, RingRight, SpecTypeOK
<1>2. QED
  BY <1>1, DecodeAlways, PTL

(* No request is ever given verified tokens past its output budget, however *)
(* rounds, pops, fallbacks and other requests' steps mix: remain_len caps a *)
(* round, and a key gone stale never becomes valid again.                   *)
THEOREM BudgetHolds == Spec => []BudgetKept
<1>1. DecodeInv => BudgetKept
  BY DEF DecodeInv, EngineInv
<1>2. QED
  BY <1>1, DecodeAlways, PTL

(* Every position a step stores to was allocated to its request, for every  *)
(* horizon, draft length and pool: the gate of a round is enough.           *)
THEOREM WritesAreOwned == Spec => []WritesOwned
<1>1. DecodeInv => WritesOwned
  BY DEF DecodeInv, EngineInv
<1>2. QED
  BY <1>1, DecodeAlways, PTL

(* The block a DSpark round verifies was drafted from the hidden states of  *)
(* its own request up to the last verified position, whatever other         *)
(* requests are served in between and however often the ring wraps.         *)
THEOREM DraftsInPlace == Spec => []DraftInPlace
<1>1. DecodeInv => DraftInPlace
  <2> SUFFICES ASSUME DecodeInv, arch = "deepseek_v4"
               PROVE  RingBehindDraft
    BY DEF DraftInPlace
  <2>1. \A q \in (ring.last - ring.valid + 1)..ring.last : ring.at[q % Win] = <<ring.uid, q>>
    BY DEF DecodeInv, RingKept, RingRight, Place
  <2>2. QED
    BY <2>1 DEF DecodeInv, RingKept, RingBehindDraft
<1>2. QED
  BY <1>1, DecodeAlways, PTL
=============================================================================
