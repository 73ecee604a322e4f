---------------------------- MODULE GreedyProofs ----------------------------
(* The speculative decoders with one table row: the MTP decoder of GLM5-Next *)
(* over its recurrent state, the DSpark decoder of DeepSeek-V4 over its      *)
(* compressors, and the theorems of either: only greedy tokens are emitted,  *)
(* the state of a request is its verified prefix, and the engine implements  *)
(* GreedyDecode.  (With two rows it is not so: see the run with two of them.) *)
EXTENDS SpecDecodeProofs, FiniteSetTheorems

-----------------------------------------------------------------------------
(* The MTP decoder.  Its recurrent state: absorbing in parts is absorbing   *)
(* at once.                                                                 *)

Inputs == Tokens \cup {Zeroed}

LEMMA WindowIs ==
  ASSUME NEW xs \in Seq(Inputs), Len(xs) >= ConvW
  PROVE  /\ Window(xs) \in Seq(Inputs) /\ Len(Window(xs)) = ConvW
         /\ \A i \in 1..ConvW : Window(xs)[i] = xs[Len(xs) - ConvW + i]
<1> USE KdaAssumption
<1> DEFINE b == Len(xs) - ConvW + 1
<1>1. Len(xs) \in Nat /\ b \in Int /\ b >= 1 /\ Len(xs) - b + 1 = ConvW
  BY LenProperties
<1>2. \A i \in b..Len(xs) : xs[i] \in Inputs
  BY <1>1, ElementOfSeq
<1>3. Window(xs) = SubSeq(xs, b, Len(xs))
  BY DEF Window
<1> HIDE DEF b
<1>4. /\ SubSeq(xs, b, Len(xs)) \in Seq(Inputs)
      /\ Len(SubSeq(xs, b, Len(xs))) = IF b <= Len(xs) THEN Len(xs) - b + 1 ELSE 0
      /\ \A i \in 1..Len(SubSeq(xs, b, Len(xs))) : SubSeq(xs, b, Len(xs))[i] = xs[b + i - 1]
  BY <1>1, <1>2, SubSeqProperties
<1>5. b <= Len(xs)
  BY <1>1
<1>6. \A i \in 1..ConvW : b + i - 1 = Len(xs) - ConvW + i
  BY <1>1
<1>7. QED
  BY <1>1, <1>3, <1>4, <1>5, <1>6

LEMMA WindowOfWindow ==
  ASSUME NEW u \in Seq(Inputs), Len(u) >= ConvW, NEW v \in Seq(Inputs)
  PROVE  Window(Window(u) \o v) = Window(u \o v)
<1> USE KdaAssumption
<1> DEFINE w == Window(u)
<1>1. w \in Seq(Inputs) /\ Len(w) = ConvW /\ \A i \in 1..ConvW : w[i] = u[Len(u) - ConvW + i]
  BY WindowIs
<1> HIDE DEF w
<1>2. /\ w \o v \in Seq(Inputs) /\ Len(w \o v) = ConvW + Len(v)
      /\ \A i \in 1..(ConvW + Len(v)) :
           (w \o v)[i] = IF i <= ConvW THEN w[i] ELSE v[i - ConvW]
  BY <1>1, ConcatProperties, ZenonT(30)
<1>3. /\ u \o v \in Seq(Inputs) /\ Len(u \o v) = Len(u) + Len(v)
      /\ \A i \in 1..(Len(u) + Len(v)) :
           (u \o v)[i] = IF i <= Len(u) THEN u[i] ELSE v[i - Len(u)]
  BY ConcatProperties
<1>4. Len(u) \in Nat /\ Len(v) \in Nat
  BY LenProperties
<1>5. /\ Window(w \o v) \in Seq(Inputs) /\ Len(Window(w \o v)) = ConvW
      /\ \A i \in 1..ConvW : Window(w \o v)[i] = (w \o v)[Len(v) + i]
  <2>1. Len(w \o v) >= ConvW
    BY <1>2, <1>4
  <2>2. /\ Window(w \o v) \in Seq(Inputs) /\ Len(Window(w \o v)) = ConvW
        /\ \A i \in 1..ConvW : Window(w \o v)[i] = (w \o v)[Len(w \o v) - ConvW + i]
    BY <1>2, <2>1, WindowIs
  <2>3. \A i \in 1..ConvW : Len(w \o v) - ConvW + i = Len(v) + i
    BY <1>2, <1>4
  <2>4. QED
    BY <2>2, <2>3
<1>6. /\ Window(u \o v) \in Seq(Inputs) /\ Len(Window(u \o v)) = ConvW
      /\ \A i \in 1..ConvW : Window(u \o v)[i] = (u \o v)[Len(u) + Len(v) - ConvW + i]
  <2>1. Len(u \o v) >= ConvW
    BY <1>3, <1>4
  <2>2. /\ Window(u \o v) \in Seq(Inputs) /\ Len(Window(u \o v)) = ConvW
        /\ \A i \in 1..ConvW : Window(u \o v)[i] = (u \o v)[Len(u \o v) - ConvW + i]
    BY <1>3, <2>1, WindowIs
  <2>3. QED
    BY <1>3, <2>2
<1>7. ASSUME NEW i \in 1..ConvW
      PROVE  (w \o v)[Len(v) + i] = (u \o v)[Len(u) + Len(v) - ConvW + i]
  <2>1. CASE Len(v) + i <= ConvW
    <3>1. (w \o v)[Len(v) + i] = w[Len(v) + i]
      BY <1>2, <1>4, <2>1
    <3>2. Len(v) + i \in 1..ConvW
      BY <1>4, <2>1
    <3>3. w[Len(v) + i] = u[Len(u) - ConvW + (Len(v) + i)]
      BY <1>1, <3>2
    <3>4. Len(u) - ConvW + (Len(v) + i) = Len(u) + Len(v) - ConvW + i
      BY <1>4
    <3>5. Len(u) + Len(v) - ConvW + i \in 1..Len(u)
      BY <1>4, <2>1
    <3>6. (u \o v)[Len(u) + Len(v) - ConvW + i] = u[Len(u) + Len(v) - ConvW + i]
      BY <1>3, <1>4, <3>5
    <3>7. w[Len(v) + i] = u[Len(u) + Len(v) - ConvW + i]
      BY <3>3, <3>4, Zenon
    <3>8. QED
      BY <3>1, <3>6, <3>7, Zenon
  <2>2. CASE ~(Len(v) + i <= ConvW)
    <3>1. (w \o v)[Len(v) + i] = v[Len(v) + i - ConvW]
      BY <1>2, <1>4, <2>2
    <3>2. (u \o v)[Len(u) + Len(v) - ConvW + i] = v[Len(u) + Len(v) - ConvW + i - Len(u)]
      BY <1>3, <1>4, <2>2
    <3>3. Len(u) + Len(v) - ConvW + i - Len(u) = Len(v) + i - ConvW
      BY <1>4
    <3>4. QED
      BY <3>1, <3>2, <3>3
  <2>3. QED
    BY <1>4, <2>1, <2>2
<1>8. Window(w \o v) = Window(u \o v)
  BY <1>5, <1>6, <1>7, SeqEqual
<1>9. QED
  BY <1>8 DEF w

(* The state of a prefix, rolled over the next tokens.                      *)
LEMMA AbsorbMore ==
  ASSUME NEW r \in Reqs, NEW n \in Nat, NEW k \in Nat,
         NEW toks \in Seq(Tokens), Len(toks) = k, \A i \in 1..k : toks[i] = Tok(r, n + i)
  PROVE  Absorb(Absorb(Zero, Truth(r, n)), toks) = Absorb(Zero, Truth(r, n + k))
<1> USE KdaAssumption
<1>1. Truth(r, n) \in Seq(Tokens) /\ Len(Truth(r, n)) = n /\ n + k \in Nat
  <2>1. n + k \in Nat
    OBVIOUS
  <2>2. QED
    BY <2>1, TruthIs
<1>2. Truth(r, n) \o toks = Truth(r, n + k)
  <2>1. /\ Truth(r, n) \o toks \in Seq(Tokens) /\ Len(Truth(r, n) \o toks) = n + k
        /\ \A i \in 1..(n + k) :
             (Truth(r, n) \o toks)[i] = IF i <= n THEN Truth(r, n)[i] ELSE toks[i - n]
    BY <1>1, ConcatProperties
  <2>2. ASSUME NEW i \in 1..(n + k)
        PROVE  (Truth(r, n) \o toks)[i] = Tok(r, i)
    <3>1. CASE i <= n
      <4>1. Truth(r, n)[i] = Tok(r, i)
        BY <3>1, TruthIs
      <4>2. QED
        BY <2>1, <3>1, <4>1
    <3>2. CASE ~(i <= n)
      <4>1. i - n \in 1..k /\ n + (i - n) = i
        BY <3>2
      <4>2. toks[i - n] = Tok(r, i)
        BY <4>1
      <4>4. (Truth(r, n) \o toks)[i] = toks[i - n]
        BY <2>1, <3>2
      <4>3. QED
        BY <4>2, <4>4, Zenon
    <3>3. QED
      BY <3>1, <3>2
  <2>3. QED
    BY <1>1, <2>1, <2>2, IsTruth
<1>3. Zero.rec = <<>> /\ Zero.conv = [i \in 1..ConvW |-> Zeroed]
  BY DEF Zero
<1>4. Zero.conv \in Seq(Inputs) /\ Len(Zero.conv) = ConvW
  <2>1. [i \in 1..ConvW |-> Zeroed] \in [1..ConvW -> Inputs]
    BY DEF Inputs
  <2>2. QED
    BY <1>3, <2>1
<1>5. Truth(r, n) \in Seq(Inputs) /\ toks \in Seq(Inputs) /\ <<>> \in Seq(Tokens)
  BY <1>1, SeqMonotonic DEF Inputs
<1>6. <<>> \o Truth(r, n) = Truth(r, n) /\ <<>> \o Truth(r, n + k) = Truth(r, n + k)
  BY <1>1, TruthIs, ConcatEmptySeq
<1> DEFINE c == Zero.conv \o Truth(r, n)
<1>7. c \in Seq(Inputs) /\ Len(c) >= ConvW
  BY <1>1, <1>4, <1>5, ConcatProperties
<1>8. Window(Window(c) \o toks) = Window(c \o toks)
  BY <1>5, <1>7, WindowOfWindow
<1>9. c \o toks = Zero.conv \o Truth(r, n + k)
  <2>1. (Zero.conv \o Truth(r, n)) \o toks = Zero.conv \o (Truth(r, n) \o toks)
    <3>1. \A a, b, d \in Seq(Inputs) : (a \o b) \o d = a \o (b \o d)
      BY ConcatAssociative
    <3>2. QED
      BY <1>4, <1>5, <3>1
  <2>2. QED
    BY <1>2, <2>1
<1>10. QED
  BY <1>2, <1>3, <1>6, <1>8, <1>9 DEF Absorb

(* One token more in the state.                                             *)
LEMMA OneMoreState ==
  ASSUME NEW r \in Reqs, NEW n \in Nat \ {0}
  PROVE  Absorb(Absorb(Zero, Truth(r, n - 1)), <<Tok(r, n)>>) = Absorb(Zero, Truth(r, n))
<1>1. PICK p \in Nat : p = n - 1
  OBVIOUS
<1>2. n = p + 1 /\ 1 \in Nat
  BY <1>1
<1> DEFINE toks == <<Tok(r, n)>>
<1>3. toks \in Seq(Tokens) /\ Len(toks) = 1 /\ \A i \in 1..1 : toks[i] = Tok(r, p + i)
  BY <1>1, TokenTypes
<1> HIDE DEF toks
<1>4. Absorb(Absorb(Zero, Truth(r, p)), toks) = Absorb(Zero, Truth(r, p + 1))
  BY <1>2, <1>3, AbsorbMore, ZenonT(30)
<1>5. QED
  BY <1>1, <1>2, <1>4 DEF toks

-----------------------------------------------------------------------------
(* GLM5-Next: the recurrent states stand at the verified prefixes, too.     *)

RecRight ==
  /\ rec = [x \in Slots \cup {Dummy} |-> rec[x]]
  /\ \A r \in Running : rec[table[r]] = Absorb(Zero, Truth(r, Verified(r)))
MtpRight == SharedRight /\ RecRight

LEMMA RecAfter ==
  ASSUME NEW r \in Reqs, NEW s \in Slots, Running' = {r}, table'[r] = s,
         rec' = [x \in Slots \cup {Dummy} |-> rec'[x]],
         rec'[s] = Absorb(Zero, Truth(r, Verified(r)'))
  PROVE  RecRight'
  BY DEF RecRight, Verified

(* The main model, given a greedy prefix in its state and its keys.         *)
LEMMA PredictRight ==
  ASSUME NEW r \in Reqs, NEW p \in Nat, NEW state, NEW keys,
         state = Absorb(Zero, Truth(r, p + 1)), \A i \in 0..p : keys[i] = Tok(r, i + 1)
  PROVE  Predict(r, p, state, keys) = Tok(r, p + 2)
  BY DEF Predict

LEMMA PrefillOne ==
  ASSUME NEW s \in Slots, NEW toks, rec = [x \in Slots \cup {Dummy} |-> rec[x]],
         NEW pool, pool = PrefillBranch(rec, <<[slot |-> s, fresh |-> TRUE, toks |-> toks,
                                               track |-> None, upto |-> 0]>>)
  PROVE  /\ pool = [x \in Slots \cup {Dummy} |-> pool[x]]
         /\ pool[s] = Absorb(Zero, toks)
<1> DEFINE q == [slot |-> s, fresh |-> TRUE, toks |-> toks, track |-> None, upto |-> 0]
           OwnerOf(x) == {i \in DOMAIN <<q>> : <<q>>[i].slot = x}
           start == Filled(rec, <<q>>)
<1>1. DOMAIN rec = Slots \cup {Dummy} /\ DOMAIN <<q>> = {1} /\ <<q>>[1] = q
  OBVIOUS
<1>2. OwnerOf(s) = {1} /\ (CHOOSE i \in OwnerOf(s) : TRUE) = 1
  BY <1>1
<1>3. start[s] = Zero
  BY <1>1 DEF Filled
<1>4. pool[s] = Absorb(start[s], <<q>>[1].toks)
  BY <1>1, <1>2 DEF PrefillBranch
<1>5. pool = [x \in Slots \cup {Dummy} |-> pool[x]]
  <2> DEFINE TrackOf(x) == {i \in DOMAIN <<q>> : <<q>>[i].upto > 0 /\ <<q>>[i].track = x}
             val(x) == IF OwnerOf(x) # {}
                       THEN Absorb(start[x], <<q>>[CHOOSE i \in OwnerOf(x) : TRUE].toks)
                       ELSE IF TrackOf(x) # {}
                       THEN Snapshot(start[<<q>>[CHOOSE i \in TrackOf(x) : TRUE].slot],
                                     <<q>>[CHOOSE i \in TrackOf(x) : TRUE])
                       ELSE start[x]
  <2>1. PrefillBranch(rec, <<q>>) = [x \in DOMAIN rec |-> val(x)]
    BY Zenon DEF PrefillBranch
  <2> HIDE DEF val
  <2>2. pool = [x \in Slots \cup {Dummy} |-> val(x)]
    BY <1>1, <2>1
  <2>3. QED
    BY <2>2
<1>6. QED
  BY <1>1, <1>3, <1>4, <1>5

LEMMA MtpPrefillRight ==
  ASSUME OneRow, EngineInv, MtpRight, NEW r \in Reqs, MtpPrefill(r)
  PROVE  MtpRight'
<1> USE SpecAssumption
<1> DEFINE n == PromptLen
<1>1. phase[r] = "waiting" /\ SharedRight
  BY DEF MtpPrefill, MtpRight
<1>2. PICK s \in FreeSlots :
        LET keys == Stored(kv[s], 0, seq[r])
            pool == PrefillBranch(rec, <<[slot |-> s, fresh |-> TRUE, toks |-> seq[r],
                                          track |-> None, upto |-> 0]>>)
        IN  /\ rec' = pool
            /\ kv' = [kv EXCEPT ![s] = keys]
            /\ Admit(r, s, Predict(r, DeviceLen(r) - 1, pool[s], keys))
  BY DEF MtpPrefill
<1> DEFINE keys == Stored(kv[s], 0, seq[r])
           pool == PrefillBranch(rec, <<[slot |-> s, fresh |-> TRUE, toks |-> seq[r],
                                         track |-> None, upto |-> 0]>>)
<1>3. s \in Slots /\ DeviceLen(r) = n /\ seq[r] = Truth(r, n) /\ KeysOf(keys, r, n)
  BY <1>1, PromptRight
<1>4. /\ rec' = pool /\ kv' = [kv EXCEPT ![s] = keys]
      /\ Admit(r, s, Predict(r, n - 1, pool[s], keys))
  BY <1>2, <1>3
<1>5. pool = [x \in Slots \cup {Dummy} |-> pool[x]] /\ pool[s] = Absorb(Zero, Truth(r, n))
  BY <1>3, PrefillOne DEF MtpRight, RecRight
<1> HIDE DEF pool
<1>6. Predict(r, n - 1, pool[s], keys) = Tok(r, n + 1)
  <2>1. n - 1 \in Nat /\ (n - 1) + 1 = n /\ (n - 1) + 2 = n + 1
    OBVIOUS
  <2>2. Predict(r, n - 1, pool[s], keys) = Tok(r, (n - 1) + 2)
    BY <1>3, <1>5, <2>1, PredictRight DEF KeysOf
  <2>3. QED
    BY <2>1, <2>2
<1>7. SharedRight' /\ Running' = {r} /\ table'[r] = s /\ Verified(r)' = n
  <2>1. sp' = sp /\ Admit(r, s, Tok(r, PromptLen + 1))
    BY <1>4, <1>6 DEF MtpPrefill
  <2>2. QED
    BY <1>1, <1>4, <2>1, PrefillShares
<1>8. RecRight'
  BY <1>3, <1>4, <1>5, <1>7, RecAfter
<1>9. QED
  BY <1>7, <1>8 DEF MtpRight

(* The slots a forward of one request reads and writes.                     *)
LEMMA StatesOne ==
  ASSUME NEW r, table[r] \in Slots, rec = [x \in Slots \cup {Dummy} |-> rec[x]]
  PROVE  /\ States({r}) = [x \in Slots \cup {Dummy} |-> States({r})[x]]
         /\ States({r})[table[r]] = Absorb(rec[table[r]], <<Input(r)>>)
<1> DEFINE rows == Rows({r})
           idx == [i \in 1..Cardinality({r}) |-> table[rows[i]]]
           xs == [i \in 1..Cardinality({r}) |-> Input(rows[i])]
<1>1. Cardinality({r}) = 1
  BY FS_Singleton
<1>2. rows[1] = r
  <2>1. rows = CHOOSE f \in [1..1 -> {r}] : IsInjective(f)
    BY <1>1 DEF Rows, SetToSeq
  <2>2. [i \in 1..1 |-> r] \in [1..1 -> {r}] /\ IsInjective([i \in 1..1 |-> r])
    BY DEF IsInjective
  <2>3. rows \in [1..1 -> {r}]
    BY <2>1, <2>2
  <2>4. QED
    BY <2>3
<1> HIDE DEF rows
<1>3. DOMAIN idx = {1} /\ idx[1] = table[r] /\ xs[1] = Input(r)
  BY <1>1, <1>2
<1>4. States({r}) = DecodeBranch(rec, idx, xs)
  BY DEF States, rows
<1> HIDE DEF idx, xs
<1>5. (CHOOSE i \in DOMAIN idx : idx[i] = table[r]) = 1
  BY <1>3
<1>6. DecodeBranch(rec, idx, xs)[table[r]] = Absorb(rec[table[r]], <<xs[1]>>)
  BY <1>3, <1>5 DEF DecodeBranch
<1>7. DecodeBranch(rec, idx, xs) = [x \in Slots \cup {Dummy} |-> DecodeBranch(rec, idx, xs)[x]]
  BY DEF DecodeBranch
<1>8. QED
  BY <1>3, <1>4, <1>6, <1>7

(* A forward of the request's own row with nothing cached for it.           *)
LEMMA MtpForwardRight ==
  ASSUME OneRow, EngineInv, MtpRight, NEW r, Batch = {r}, Forward({r}), Ahead(r) = 0,
         UNCHANGED <<phase, table>>,
         sp' = sp \/ \E d : KeyTo(r, d, <<>>)
  PROVE  MtpRight'
<1> USE SpecAssumption
<1> DEFINE n == DeviceLen(r)
           s == table[r]
           pool == States({r})
<1>1. /\ r \in Reqs /\ r \in Running /\ s \in Slots /\ n \in Nat \ {0}
      /\ Input(r) = Tok(r, n) /\ Verified(r) = n - 1 /\ KeysOf(InputKeys(r), r, n)
  BY ForwardSees DEF MtpRight
<1>2. /\ pool = [x \in Slots \cup {Dummy} |-> pool[x]]
      /\ pool[s] = Absorb(Zero, Truth(r, n))
  <2>1. rec[s] = Absorb(Zero, Truth(r, n - 1))
    BY <1>1 DEF MtpRight, RecRight
  <2>2. Absorb(Absorb(Zero, Truth(r, n - 1)), <<Tok(r, n)>>) = Absorb(Zero, Truth(r, n))
    BY <1>1, OneMoreState
  <2>3. QED
    BY <1>1, <2>1, <2>2, StatesOne DEF MtpRight, RecRight
<1> HIDE DEF pool
<1>3. Predict(r, n - 1, pool[s], InputKeys(r)) = Tok(r, n + 1)
  <2>1. n - 1 \in Nat /\ (n - 1) + 1 = n /\ (n - 1) + 2 = n + 1
    BY <1>1
  <2>2. Predict(r, n - 1, pool[s], InputKeys(r)) = Tok(r, (n - 1) + 2)
    BY <1>1, <1>2, <2>1, PredictRight DEF KeysOf
  <2>3. QED
    BY <2>1, <2>2
<1> DEFINE next == [q \in {r} |-> Predict(q, DeviceLen(q) - 1, States({r})[table[q]], InputKeys(q))]
<1>4. rec' = pool /\ Emitted({r}, next) /\ next[r] = Tok(r, n + 1)
  BY <1>3 DEF Forward, pool
<1> HIDE DEF next
<1>5. SharedRight' /\ Running' = {r} /\ table'[r] = s /\ Verified(r)' = n
  BY <1>4, ForwardShares DEF MtpRight
<1>6. RecRight'
  BY <1>1, <1>2, <1>4, <1>5, RecAfter
<1>7. QED
  BY <1>5, <1>6 DEF MtpRight

-----------------------------------------------------------------------------
(* A round.  Its rows are greedy as far as its inputs are, and its inputs   *)
(* as far as its rows matched the drafts.                                   *)
RowsOf(r, p, s, toks) ==
  VerifyRows(r, p, Absorb(Zero, Truth(r, p)), Stored(kv[s], p, toks), toks)

LEMMA RowRight ==
  ASSUME NEW r \in Reqs, NEW p \in Nat, NEW s, NEW toks \in Seq(Tokens), Len(toks) = K + 1,
         p + K + 1 <= MaxSeq, KeysOf(kv[s], r, p)
  PROVE  RowsFollow(RowsOf(r, p, s, toks), toks, r, p)
<1> USE SpecAssumption
<1>0. SUFFICES ASSUME NEW i \in 1..(K + 1), NextOnes(toks, r, p, i)
               PROVE  RowsOf(r, p, s, toks)[i] = Tok(r, p + i + 1)
  BY DEF RowsFollow
<1> DEFINE keys == Stored(kv[s], p, toks)
           part == SubSeq(toks, 1, i)
<1>1. i \in Nat /\ p + i - 1 \in Nat /\ (p + i - 1) + 1 = p + i /\ (p + i - 1) + 2 = p + i + 1
  OBVIOUS
<1>2. part \in Seq(Tokens) /\ Len(part) = i /\ \A j \in 1..i : part[j] = Tok(r, p + j)
  <2>1. \A j \in 1..i : toks[j] \in Tokens
    BY ElementOfSeq
  <2>2. /\ part \in Seq(Tokens) /\ Len(part) = i
        /\ \A j \in 1..i : part[j] = toks[1 + j - 1]
    BY <2>1, SubSeqProperties
  <2>3. QED
    BY <1>0, <2>2 DEF NextOnes
<1>3. \A j \in 0..(p + i - 1) : keys[j] = Tok(r, j + 1)
  <2>1. i \in 0..Len(toks) /\ p + i <= MaxSeq
    OBVIOUS
  <2>2. KeysOf(keys, r, p + i)
    BY <1>0, <2>1, StoredRight
  <2>3. QED
    BY <2>2 DEF KeysOf
<1> HIDE DEF keys, part
<1>4. Absorb(Absorb(Zero, Truth(r, p)), part) = Absorb(Zero, Truth(r, p + i))
  BY <1>1, <1>2, AbsorbMore
<1>5. Predict(r, p + i - 1, Absorb(Absorb(Zero, Truth(r, p)), part), keys) = Tok(r, p + i + 1)
  <2>1. Predict(r, p + i - 1, Absorb(Absorb(Zero, Truth(r, p)), part), keys) =
          Tok(r, (p + i - 1) + 2)
    BY <1>1, <1>3, <1>4, PredictRight
  <2>2. QED
    BY <1>1, <2>1
<1>6. QED
  BY <1>5 DEF RowsOf, VerifyRows, keys, part

(* The recurrent state a round leaves has absorbed the kept tokens only,    *)
(* whether it was recommitted, replayed or kept as the verify left it.      *)
IsPool(pool) == pool = [x \in Slots \cup {Dummy} |-> pool[x]]

LEMMA SettledIs ==
  ASSUME NEW s \in Slots, NEW pool, IsPool(pool),
         NEW toks \in Seq(Tokens), Len(toks) = K + 1, NEW m \in 0..K,
         NEW after, after = Settled(VerifyBranch(pool, s, toks), s, VerifyStash(pool, s, toks), m)
  PROVE  IsPool(after) /\ after[s] = Absorb(pool[s], SubSeq(toks, 1, m + 1))
<1> USE SpecAssumption
<1>0. pool = [x \in Slots \cup {Dummy} |-> pool[x]]
  BY DEF IsPool
<1> DEFINE kept == SubSeq(toks, 1, m + 1)
<1>1. s \in Slots \cup {Dummy}
  OBVIOUS
<1>2. CASE klMode
  BY <1>0, <1>1, <1>2 DEF IsPool, Settled, SpecRestore, VerifyBranch, VerifyStash
<1>3. CASE ~klMode
  <2>1. CASE m < K
    BY <1>0, <1>1, <1>3, <2>1 DEF IsPool, Settled, SpecCommit, VerifyBranch, VerifyStash, Absorb
  <2>2. CASE ~(m < K)
    <3>1. m = K /\ SubSeq(toks, 1, m + 1) = toks
      <4>1. m + 1 = Len(toks)
        BY <2>2
      <4>2. QED
        BY <4>1, SubSeqFull
    <3>2. QED
      BY <1>0, <1>1, <1>3, <2>2, <3>1 DEF IsPool, Settled, VerifyBranch
  <2>3. QED
    BY <2>1, <2>2
<1>4. QED
  BY <1>2, <1>3

(* And the recurrent state: what was absorbed is what was verified.         *)
LEMMA RoundAbsorbs ==
  ASSUME NEW r \in Reqs, NEW p \in Nat, NEW s \in Slots,
         NEW ds, NEW toks, NEW rows, NEW m, RoundOf(r, p, s, ds, toks, rows, m),
         Len(toks) = K + 1, NEW pool, IsPool(pool),
         pool[s] = Absorb(Zero, Truth(r, p)),
         NEW after, after = Settled(VerifyBranch(pool, s, toks), s, VerifyStash(pool, s, toks), m)
  PROVE  IsPool(after) /\ after[s] = Absorb(Zero, Truth(r, p + m + 1))
<1> USE SpecAssumption
<1>1. RoundSees(r, p, toks, rows, m)
  BY RoundRight
<1>2. toks \in Seq(Tokens) /\ NextOnes(toks, r, p, m + 1) /\ m \in 0..K
  <2>1. toks \in Seq(Tokens) /\ NextOnes(toks, r, p, m + 1) /\ m + 1 \in 1..(K + 1)
    BY <1>1 DEF RoundSees
  <2>2. m \in Int
    BY DEF RoundOf
  <2>3. QED
    BY <2>1, <2>2
<1>3. IsPool(after) /\ after[s] = Absorb(pool[s], SubSeq(toks, 1, m + 1))
  <2>1. toks \in Seq(Tokens) /\ Len(toks) = K + 1 /\ m \in 0..K
    BY <1>2
  <2>2. QED
    BY <2>1, SettledIs
<1>4. PICK k \in Nat : k = m + 1 /\ k \in 1..Len(toks)
  BY <1>2
<1> DEFINE kept == SubSeq(toks, 1, k)
<1>5. kept \in Seq(Tokens) /\ Len(kept) = k /\ \A j \in 1..k : kept[j] = toks[j]
  <2>1. \A j \in 1..k : toks[j] \in Tokens
    BY <1>2, <1>4, ElementOfSeq
  <2>2. QED
    BY <1>2, <1>4, <2>1, SubSeqProperties
<1> HIDE DEF kept
<1>6. \A j \in 1..k : kept[j] = Tok(r, p + j)
  BY <1>2, <1>4, <1>5 DEF NextOnes
<1>7. Absorb(Absorb(Zero, Truth(r, p)), kept) = Absorb(Zero, Truth(r, p + k))
  BY <1>5, <1>6, AbsorbMore
<1>8. p + k = p + m + 1
  BY <1>2, <1>4
<1>9. QED
  BY <1>3, <1>4, <1>7, <1>8 DEF kept

LEMMA MtpRoundRight ==
  ASSUME OneRow, EngineInv, DraftTypes, arch = "glm5_next", MtpRight,
         NEW r, Batch = {r}, NEW a, RoundStep(r, a), UNCHANGED <<phase, table>>
  PROVE  MtpRight'
<1> USE SpecAssumption
<1> DEFINE p == DeviceLen(r) - 1
           s == table[r]
<1>1. /\ r \in Batch /\ r \in Reqs /\ r \in Running /\ s \in Slots
      /\ Input(r) = Tok(r, DeviceLen(r)) /\ DeviceLen(r) \in Nat \ {0}
      /\ RemainLen(r) \in Nat \ {0}
  BY BatchIs, InputRight DEF MtpRight, Batch
<1>2. p \in Nat /\ DeviceLen(r) = p + 1 /\ Input(r) = Tok(r, p + 1) /\ p + K + 1 <= MaxSeq
  BY <1>1 DEF RoundStep, RoundGate
<1>3. Running = {r} /\ Running' = {r} /\ table'[r] = s
  BY <1>1, OnlyOne DEF MtpRight, Running
<1>4. PICK outcome \in CaptureOutcomes, ds \in Chained(r, p) :
       LET toks == <<Input(r)>> \o ds
           g == Staged(outcome, r, p)
           tg == Target(g, r, p)
           pool == IF graph.state = "none" /\ outcome = "captured" THEN OnDummy(rec) ELSE rec
           keys == Stored(kv[tg.slot], tg.at, toks)
           rows == VerifyRows(r, p, pool[tg.slot], keys, toks)
           m == Accepted(r, rows, ds)
           emitted == RoundTokens(rows, ds, m)
       IN  /\ kv' = [kv EXCEPT ![tg.slot] = keys]
           /\ rec' = Settled(VerifyBranch(pool, tg.slot, toks), table[r],
                             VerifyStash(pool, tg.slot, toks), m)
           /\ RoundDone(r, p + K + 1, emitted)
           /\ \E d \in Drafts(r, p + m + 3) : KeyTo(r, d, Tail(emitted))
  BY ZenonT(60) DEF RoundStep
<1>5. Target(Staged(outcome, r, p), r, p) = [slot |-> s, at |-> p]
  BY <1>1, <1>2, StagedIs DEF EngineInv
<1> DEFINE toks == <<Tok(r, p + 1)>> \o ds
           pool == IF graph.state = "none" /\ outcome = "captured" THEN OnDummy(rec) ELSE rec
<1>6. /\ pool = [x \in Slots \cup {Dummy} |-> pool[x]] /\ pool[s] = Absorb(Zero, Truth(r, p))
      /\ KeysOf(kv[s], r, p)
  <2>1. Verified(r) = p
    <3>1. sp.pos \in Nat /\ sp.pos <= Len(sp.cache) /\ Len(sp.cache) \in Nat /\ sp.pos >= Len(sp.cache)
      <4>1. RoundGate(r, a)
        BY Zenon DEF RoundStep
      <4>2. QED
        BY <4>1 DEF EngineInv, EngineTypes, RoundGate
    <3>2. QED
      BY <1>2, <3>1 DEF Verified, Ahead
  <2>2. rec[s] = Absorb(Zero, Truth(r, p)) /\ KeysOf(kv[s], r, p)
    BY <1>1, <2>1 DEF MtpRight, RecRight, SharedRight, KeysRight, KeysOf
  <2>3. rec = [x \in Slots \cup {Dummy} |-> rec[x]] /\ s # Dummy
    BY <1>1 DEF MtpRight, RecRight
  <2>4. QED
    BY <1>1, <2>2, <2>3 DEF OnDummy, VerifyBranch
<1> DEFINE rows == RowsOf(r, p, s, toks)
           m == Accepted(r, rows, ds)
<1> HIDE DEF pool, p
<1>7. /\ kv' = [kv EXCEPT ![s] = Stored(kv[s], p, toks)]
      /\ rec' = Settled(VerifyBranch(pool, s, toks), s, VerifyStash(pool, s, toks), m)
      /\ RoundDone(r, p + K + 1, RoundTokens(rows, ds, m))
      /\ \E d : KeyTo(r, d, Tail(RoundTokens(rows, ds, m)))
  BY <1>2, <1>4, <1>5, <1>6 DEF pool, RowsOf
<1>8. ds \in Seq(Tokens) /\ Len(ds) = K
  BY <1>1, <1>2, ChainedAre DEF RoundStep, RoundGate, DraftTypes
<1> HIDE DEF rows, toks
<1>9. m \in 0..K /\ \A i \in 1..m : rows[i] = ds[i]
  BY <1>1, <1>8, AcceptedIs
<1> HIDE DEF m
<1>10. RoundOf(r, p, s, ds, toks, rows, m)
  <2>1. toks \in Seq(Tokens) /\ Len(toks) = K + 1
    BY <1>1, <1>2, <1>8, TokenTypes, ConcatProperties DEF toks
  <2>2. RowsFollow(rows, toks, r, p)
    BY <1>1, <1>2, <1>6, <2>1, RowRight DEF rows
  <2>3. QED
    BY <1>2, <1>6, <1>8, <1>9, <2>2 DEF RoundOf, toks
<1>11. PICK d : KeyTo(r, d, Tail(RoundTokens(rows, ds, m)))
  BY <1>7
<1>12. SharedRight' /\ Verified(r)' = p + m + 1
  <2>1. SharedRight
    BY DEF MtpRight
  <2>2. r \in Reqs /\ p \in Nat /\ s \in Slots
    BY <1>1, <1>2
  <2>3. RoundLeaves(r, p, s, ds, toks, rows, m, p + K + 1, d)
    BY <1>2, <1>3, <1>7, <1>10, <1>11 DEF RoundLeaves
  <2> HIDE DEF s
  <2>4. QED
    BY <2>1, <2>2, <2>3, RoundShares
<1>13. /\ rec' = [x \in Slots \cup {Dummy} |-> rec'[x]]
       /\ rec'[s] = Absorb(Zero, Truth(r, p + m + 1))
  <2>1. Len(toks) = K + 1
    BY <1>1, <1>2, <1>8, TokenTypes, ConcatProperties DEF toks
  <2>2. IsPool(pool) /\ pool[s] = Absorb(Zero, Truth(r, p)) /\ r \in Reqs /\ s \in Slots
    BY <1>1, <1>6 DEF IsPool
  <2>3. rec' = Settled(VerifyBranch(pool, s, toks), s, VerifyStash(pool, s, toks), m)
    BY <1>7
  <2> HIDE DEF s
  <2>4. IsPool(rec') /\ rec'[s] = Absorb(Zero, Truth(r, p + m + 1))
    BY <1>2, <1>10, <2>1, <2>2, <2>3, RoundAbsorbs
  <2>5. QED
    BY <2>4 DEF IsPool
<1>15. RecRight'
  BY <1>1, <1>3, <1>12, <1>13, RecAfter
<1>16. QED
  BY <1>12, <1>15 DEF MtpRight

-----------------------------------------------------------------------------
(* The system's steps.                                                      *)

LEMMA MtpInitial == MtpInit => MtpRight
<1> SUFFICES ASSUME MtpInit
             PROVE  MtpRight
  OBVIOUS
<1>1. SharedRight /\ Running = {}
  BY SharedInitial DEF MtpInit
<1>2. rec = [x \in Slots \cup {Dummy} |-> rec[x]]
  BY DEF MtpInit
<1>3. QED
  BY <1>1, <1>2 DEF MtpRight, RecRight

LEMMA MtpDecodeRight ==
  ASSUME OneRow, EngineInv, DraftTypes, arch = "glm5_next", MtpRight, MtpDecode
  PROVE  MtpRight'
<1>1. PICK r \in Batch : TRUE
  BY DEF MtpDecode
<1>2. Batch = {r} /\ r \in Running
  BY <1>1, OnlyOne DEF MtpRight, Batch
<1>3. PICK a \in Allocated(Batch) :
        PlainStep(Batch) \/ BootStep(r, a) \/ PopStep(r) \/ RoundStep(r, a)
  BY <1>2 DEF MtpDecode
<1>4. UNCHANGED <<phase, table>>
  BY DEF MtpDecode
<1>5. CASE PlainStep(Batch)
  <2>1. r \in sampling
    <3>1. Cardinality({r}) = 1
      BY FS_Singleton
    <3>2. QED
      BY <1>2, <1>5, <3>1 DEF PlainStep, SpecEligible
  <2>2. Ahead(r) = 0
    BY <1>1, <2>1, NothingAhead
  <2>3. QED
    BY <1>2, <1>4, <1>5, <2>2, MtpForwardRight DEF PlainStep
<1>6. CASE BootStep(r, a)
  <2>1. Ahead(r) = 0
    BY <1>1, <1>6, NothingAhead DEF BootStep
  <2>2. QED
    BY <1>2, <1>4, <1>6, <2>1, MtpForwardRight DEF BootStep
<1>7. CASE PopStep(r)
  <2>1. SharedRight' /\ Verified(r)' = Verified(r) /\ Running' = {r}
    BY <1>2, <1>4, <1>7, PopRight DEF PopStep, MtpRight
  <2>2. rec' = rec /\ table'[r] = table[r]
    BY <1>4, <1>7 DEF PopStep
  <2>3. RecRight'
    BY <1>2, <2>1, <2>2 DEF MtpRight, RecRight
  <2>4. QED
    BY <2>1, <2>3 DEF MtpRight
<1>8. CASE RoundStep(r, a)
  BY <1>2, <1>4, <1>8, MtpRoundRight
<1>9. QED
  BY <1>3, <1>5, <1>6, <1>7, <1>8

LEMMA MtpDepartRight ==
  ASSUME OneRow, EngineInv, MtpRight, NEW r \in Reqs, MtpDepart(r)
  PROVE  MtpRight'
<1>1. Leave(r) /\ r \in Running /\ rec' = rec
  BY DEF MtpDepart, Finish, Stop, Running
<1>2. SharedRight' /\ Running' = {}
  BY <1>1, LeaveRight DEF MtpRight
<1>3. QED
  BY <1>1, <1>2 DEF MtpRight, RecRight

(* The properties, of one row and the MTP decoder.                          *)
LEMMA MtpNext ==
  ASSUME OneRow, DecodeInv, MtpRight, arch = "glm5_next",
         NEW r \in Reqs, MtpPrefill(r) \/ MtpDepart(r) \/ MtpDecode
  PROVE  MtpRight'
<1>1. EngineInv /\ DraftTypes
  BY DEF DecodeInv
<1>2. CASE MtpPrefill(r)
  BY <1>1, <1>2, MtpPrefillRight
<1>3. CASE MtpDepart(r)
  BY <1>1, <1>3, MtpDepartRight
<1>4. CASE MtpDecode
  BY <1>1, <1>4, MtpDecodeRight
<1>5. QED
  BY <1>2, <1>3, <1>4

-----------------------------------------------------------------------------
(* DSpark.  The register after each position of a launch is the recursive   *)
(* function of Chain: that there is one is shown by adding positions.       *)

IsChain(f, seed, p, toks, n) ==
  f[0] = seed /\ \A i \in 1..n : f[i] = Rolled(f[i - 1], p + i - 1, toks[i])

LEMMA ChainIs ==
  ASSUME NEW seed, NEW p \in Nat, NEW toks, NEW n \in Nat, Len(toks) = n
  PROVE  IsChain(Chain(seed, p, toks), seed, p, toks, n)
<1> DEFINE Val(f, i) == IF i = 0 THEN seed ELSE Rolled(f[i - 1], p + i - 1, toks[i])
           ChainTo(f, k) == f = [i \in 0..k |-> Val(f, i)]
           T == {k \in 0..n : \E f : ChainTo(f, k)}
<1>1. 0 \in T
  <2>1. ChainTo([i \in 0..0 |-> seed], 0)
    OBVIOUS
  <2>2. 0 \in 0..n
    OBVIOUS
  <2> HIDE DEF ChainTo
  <2>3. QED
    BY <2>1, <2>2
<1>2. ASSUME NEW k \in 0..(n - 1), k \in T
      PROVE  k + 1 \in T
  <2>1. PICK f : f = [i \in 0..k |-> Val(f, i)]
    BY <1>2
  <2> DEFINE g == [i \in 0..(k + 1) |-> IF i \in 0..k THEN f[i]
                                        ELSE Rolled(f[k], p + k, toks[k + 1])]
  <2>2. \A i \in 0..(k + 1) : g[i] = Val(g, i)
    <3>1. ASSUME NEW i \in 0..k
          PROVE  g[i] = Val(g, i)
      <4>1. g[i] = Val(f, i)
        BY <2>1
      <4>2. i # 0 => i - 1 \in 0..k /\ i - 1 \in 0..(k + 1)
        OBVIOUS
      <4>3. i # 0 => g[i - 1] = f[i - 1]
        BY <4>2
      <4>4. QED
        BY <4>1, <4>3
    <3>2. g[k + 1] = Val(g, k + 1)
      <4>1. /\ k \in 0..(k + 1) /\ k + 1 \in 0..(k + 1) /\ k + 1 \notin 0..k
            /\ (k + 1) - 1 = k /\ p + (k + 1) - 1 = p + k /\ k + 1 # 0
        OBVIOUS
      <4>2. g[k + 1] = Rolled(f[k], p + k, toks[k + 1]) /\ g[k] = f[k]
        BY <4>1
      <4>3. QED
        BY <4>1, <4>2
    <3>3. \A i \in 0..(k + 1) : i \in 0..k \/ i = k + 1
      OBVIOUS
    <3> HIDE DEF g, Val
    <3>4. QED
      BY <3>1, <3>2, <3>3
  <2>3. g = [i \in 0..(k + 1) |-> g[i]]
    OBVIOUS
  <2> HIDE DEF g
  <2>4. g = [i \in 0..(k + 1) |-> Val(g, i)]
    BY <2>2, <2>3
  <2>5. k + 1 \in 0..n
    OBVIOUS
  <2>6. QED
    BY <2>4, <2>5
<1>3. n \in T
  <2> HIDE DEF T
  <2>1. \A k \in 0..(n - 1) : k \in T => k + 1 \in T
    BY <1>2
  <2>2. n \in 0..n
    OBVIOUS
  <2>3. QED
    BY <1>1, <2>1, <2>2, UpTo
<1>4. PICK f : f = [i \in 0..n |-> Val(f, i)]
  BY <1>3
<1> DEFINE reg[i \in 0..Len(toks)] ==
          IF i = 0 THEN seed ELSE Rolled(reg[i - 1], p + i - 1, toks[i])
<1>5. Chain(seed, p, toks) = reg
  BY DEF Chain
<1>6. reg = [i \in 0..n |-> IF i = 0 THEN seed ELSE Rolled(reg[i - 1], p + i - 1, toks[i])]
  <2>1. reg = CHOOSE h : h = [i \in 0..n |-> Val(h, i)]
    OBVIOUS
  <2> HIDE DEF reg
  <2>2. reg = [i \in 0..n |-> Val(reg, i)]
    BY <1>4, <2>1
  <2>3. QED
    BY <2>2
<1> HIDE DEF reg, Val
<1>7. reg[0] = seed
  BY <1>6
<1>8. \A i \in 1..n : reg[i] = Rolled(reg[i - 1], p + i - 1, toks[i])
  BY <1>6
<1>9. QED
  BY <1>5, <1>7, <1>8 DEF IsChain

-----------------------------------------------------------------------------
(* Blocks, their rows, and pages.                                           *)
Row(q) == q % Ratio
BlockOf(q) == q \div Ratio
PageOf(q) == q \div Page

(* A number has one quotient and one remainder.                             *)
LEMMA DivUnique ==
  ASSUME NEW D \in Nat \ {0}, NEW a \in Int, NEW k \in Int, NEW c \in 0..(D - 1), a = D * k + c
  PROVE  a \div D = k /\ a % D = c
<1>1. a \div D \in Int /\ a % D \in 0..(D - 1) /\ a = D * (a \div D) + (a % D)
  BY DivMod
<1>2. ~(a \div D < k)
  <2>1. SUFFICES ASSUME a \div D < k
                 PROVE  FALSE
    OBVIOUS
  <2>2. D * (a \div D) + D <= D * k
    BY <1>1, <2>1, Multiples
  <2>3. QED
    BY <1>1, <2>2
<1>3. ~(k < a \div D)
  <2>1. SUFFICES ASSUME k < a \div D
                 PROVE  FALSE
    OBVIOUS
  <2>2. D * k + D <= D * (a \div D)
    BY <1>1, <2>1, Multiples
  <2>3. QED
    BY <1>1, <2>2
<1>4. a \div D = k
  BY <1>1, <1>2, <1>3
<1>5. QED
  BY <1>1, <1>4

(* A position is a row of a block.                                          *)
LEMMA RowIs ==
  ASSUME NEW q \in Nat
  PROVE  Row(q) \in 0..(Ratio - 1) /\ BlockOf(q) \in Nat /\ q = Ratio * BlockOf(q) + Row(q)
<1> USE CompressorAssumption
<1>1. BlockOf(q) \in Int /\ Row(q) \in 0..(Ratio - 1) /\ q = Ratio * BlockOf(q) + Row(q)
  BY DivMod DEF Row, BlockOf
<1>2. ~(BlockOf(q) < 0)
  <2>1. SUFFICES ASSUME BlockOf(q) < 0
                 PROVE  FALSE
    OBVIOUS
  <2>2. Ratio * BlockOf(q) + Ratio <= Ratio * 0
    BY <1>1, <2>1, Multiples
  <2>3. Ratio * 0 = 0
    OBVIOUS
  <2>4. QED
    BY <1>1, <2>2, <2>3
<1>3. QED
  BY <1>1, <1>2

(* The next position is the next row of its block, or opens the next one.   *)
LEMMA NextRow ==
  ASSUME NEW q \in Nat
  PROVE  /\ Row(q) # Ratio - 1 => Row(q + 1) = Row(q) + 1 /\ BlockOf(q + 1) = BlockOf(q)
         /\ Row(q) = Ratio - 1 => Row(q + 1) = 0 /\ BlockOf(q + 1) = BlockOf(q) + 1
         /\ Completes(q) <=> Row(q) = Ratio - 1
<1> USE CompressorAssumption
<1>1. Row(q) \in 0..(Ratio - 1) /\ BlockOf(q) \in Nat /\ q = Ratio * BlockOf(q) + Row(q)
  BY RowIs
<1>2. ASSUME Row(q) # Ratio - 1
      PROVE  Row(q + 1) = Row(q) + 1 /\ BlockOf(q + 1) = BlockOf(q)
  <2>1. Row(q) + 1 \in 0..(Ratio - 1) /\ q + 1 = Ratio * BlockOf(q) + (Row(q) + 1)
    BY <1>1, <1>2
  <2>2. q + 1 \in Int /\ BlockOf(q) \in Int
    BY <1>1
  <2> HIDE DEF Row, BlockOf
  <2>3. (q + 1) \div Ratio = BlockOf(q) /\ (q + 1) % Ratio = Row(q) + 1
    BY <2>1, <2>2, DivUnique
  <2>4. QED
    BY <2>3, Zenon DEF Row, BlockOf
<1>3. ASSUME Row(q) = Ratio - 1
      PROVE  Row(q + 1) = 0 /\ BlockOf(q + 1) = BlockOf(q) + 1
  <2>1. PICK j \in Nat : j = BlockOf(q)
    BY <1>1
  <2>2. Ratio * (j + 1) = Ratio * j + Ratio
    OBVIOUS
  <2>3. q = Ratio * j + (Ratio - 1)
    BY <1>1, <1>3, <2>1, Zenon
  <2>4. PICK c \in 0..(Ratio - 1) : c = 0
    OBVIOUS
  <2>5. q + 1 = Ratio * (j + 1) + c
    BY <2>2, <2>3, <2>4
  <2>6. (q + 1) \div Ratio = j + 1 /\ (q + 1) % Ratio = c
    BY <2>5, DivUnique
  <2>7. QED
    BY <2>1, <2>4, <2>6, Zenon DEF Row, BlockOf
<1>4. Completes(q) <=> Row(q + 1) = 0
  BY Zenon DEF Completes, Row
<1>5. QED
  BY <1>1, <1>2, <1>3, <1>4

(* The position that ends block j.                                          *)
LEMMA BlockEnds ==
  ASSUME NEW q \in Nat, NEW j \in Nat, q + 1 = (j + 1) * Ratio
  PROVE  BlockOf(q) = j /\ Row(q) = Ratio - 1
<1> USE CompressorAssumption
<1>1. (j + 1) * Ratio = Ratio * j + Ratio
  OBVIOUS
<1>2. q \in Int /\ j \in Int /\ Ratio - 1 \in 0..(Ratio - 1) /\ q = Ratio * j + (Ratio - 1)
  BY <1>1
<1>3. q \div Ratio = j /\ q % Ratio = Ratio - 1
  BY <1>2, DivUnique
<1>4. QED
  BY <1>3, Zenon DEF Row, BlockOf

-----------------------------------------------------------------------------
(* The register after the first n positions of a prefix, in closed form: the *)
(* current block overwrites the previous one row by row.                     *)
ClosedHalf(r, j, c) ==
  [i \in 0..(Ratio - 1) |-> IF i < c THEN Tok(r, j * Ratio + i + 1)
                            ELSE IF j = 0 THEN Empty ELSE Tok(r, (j - 1) * Ratio + i + 1)]
Closed(r, j, c) == [a |-> TrueHalf(r, j - 1), b |-> ClosedHalf(r, j, c)]
RegisterOf(r, n) == Closed(r, BlockOf(n), Row(n))

(* With no row overwritten a half is the previous block, with all this one. *)
LEMMA ClosedEnds ==
  ASSUME NEW r, NEW j \in Nat
  PROVE  ClosedHalf(r, j, 0) = TrueHalf(r, j - 1) /\ ClosedHalf(r, j, Ratio) = TrueHalf(r, j)
<1> USE CompressorAssumption
<1>1. \A i \in 0..(Ratio - 1) : ~(i < 0) /\ i < Ratio
  OBVIOUS
<1>2. (j = 0 <=> j - 1 < 0) /\ ~(j < 0)
  OBVIOUS
<1>3. QED
  BY <1>1, <1>2 DEF ClosedHalf, TrueHalf

(* The register before the first position.                                  *)
LEMMA EmptyIs ==
  ASSUME NEW r
  PROVE  RegisterOf(r, 0) = EmptyRegister
<1> USE CompressorAssumption
<1>1. BlockOf(0) = 0 /\ Row(0) = 0
  <2>1. 0 \in Int /\ 0 \in 0..(Ratio - 1) /\ 0 = Ratio * 0 + 0
    OBVIOUS
  <2>2. QED
    BY <2>1, DivUnique DEF BlockOf, Row
<1>2. TrueHalf(r, 0 - 1) = EmptyHalf
  BY DEF TrueHalf, EmptyHalf
<1>3. ClosedHalf(r, 0, 0) = TrueHalf(r, 0 - 1)
  BY ClosedEnds
<1>4. QED
  BY <1>1, <1>2, <1>3 DEF RegisterOf, Closed, EmptyRegister

(* One position overwrites one row.                                         *)
LEMMA HalfIs ==
  ASSUME NEW r, NEW p \in Nat
  PROVE  HalfRolled(ClosedHalf(r, BlockOf(p), Row(p)), p, Tok(r, p + 1)) =
           ClosedHalf(r, BlockOf(p), Row(p) + 1)
<1> USE CompressorAssumption
<1>1. PICK j \in Nat, c \in 0..(Ratio - 1) : j = BlockOf(p) /\ c = Row(p)
  BY RowIs
<1>2. p + 1 = j * Ratio + c + 1
  <2>1. p = Ratio * j + c
    BY <1>1, RowIs
  <2>2. Ratio * j = j * Ratio
    OBVIOUS
  <2>3. QED
    BY <2>1, <2>2
<1>3. HalfRolled(ClosedHalf(r, j, c), p, Tok(r, p + 1)) =
        [ClosedHalf(r, j, c) EXCEPT ![c] = Tok(r, p + 1)]
  BY <1>1, Zenon DEF HalfRolled, Row
<1>4. \A i \in 0..(Ratio - 1) : (i < c + 1 <=> i < c \/ i = c)
  OBVIOUS
<1> DEFINE now == j * Ratio
           before == (j - 1) * Ratio
<1>5. now \in Int /\ before \in Int /\ p + 1 = now + c + 1
  BY <1>2
<1>6. /\ ClosedHalf(r, j, c) =
           [i \in 0..(Ratio - 1) |-> IF i < c THEN Tok(r, now + i + 1)
                            ELSE IF j = 0 THEN Empty ELSE Tok(r, before + i + 1)]
      /\ ClosedHalf(r, j, c + 1) =
           [i \in 0..(Ratio - 1) |-> IF i < c + 1 THEN Tok(r, now + i + 1)
                            ELSE IF j = 0 THEN Empty ELSE Tok(r, before + i + 1)]
  BY DEF ClosedHalf
<1> HIDE DEF now, before
<1>7. [ClosedHalf(r, j, c) EXCEPT ![c] = Tok(r, p + 1)] = ClosedHalf(r, j, c + 1)
  BY <1>4, <1>5, <1>6
<1>8. QED
  BY <1>1, <1>3, <1>7

(* One position: the register rolls, and a block that it completes pools    *)
(* the previous block and this one.                                         *)
LEMMA RolledIs ==
  ASSUME NEW r, NEW p \in Nat
  PROVE  /\ Rolled(RegisterOf(r, p), p, Tok(r, p + 1)) = RegisterOf(r, p + 1)
         /\ Row(p) = Ratio - 1 =>
              Pooled(RegisterOf(r, p), p, Tok(r, p + 1)) =
                <<TrueHalf(r, BlockOf(p) - 1), TrueHalf(r, BlockOf(p))>>
<1> USE CompressorAssumption
<1>1. PICK j \in Nat, c \in 0..(Ratio - 1) : j = BlockOf(p) /\ c = Row(p)
  BY RowIs
<1> DEFINE b == HalfRolled(ClosedHalf(r, j, c), p, Tok(r, p + 1))
<1>2. b = ClosedHalf(r, j, c + 1)
  BY <1>1, HalfIs
<1>3. RegisterOf(r, p) = [a |-> TrueHalf(r, j - 1), b |-> ClosedHalf(r, j, c)]
  BY <1>1 DEF RegisterOf, Closed
<1>4. /\ Rolled(RegisterOf(r, p), p, Tok(r, p + 1)) =
           [a |-> IF Completes(p) THEN b ELSE TrueHalf(r, j - 1), b |-> b]
      /\ Pooled(RegisterOf(r, p), p, Tok(r, p + 1)) = <<TrueHalf(r, j - 1), b>>
  BY <1>3 DEF Rolled, Pooled
<1> HIDE DEF b
<1>5. CASE c = Ratio - 1
  <2>1. c + 1 = Ratio /\ (j + 1) - 1 = j
    BY <1>5
  <2>2. Completes(p) /\ Row(p + 1) = 0 /\ BlockOf(p + 1) = j + 1
    BY <1>1, <1>5, NextRow
  <2>3. b = TrueHalf(r, j)
    BY <1>2, <2>1, ClosedEnds
  <2>4. ClosedHalf(r, j + 1, 0) = TrueHalf(r, (j + 1) - 1)
    BY ClosedEnds
  <2>5. RegisterOf(r, p + 1) = [a |-> TrueHalf(r, j), b |-> TrueHalf(r, j)]
    BY <2>1, <2>2, <2>4 DEF RegisterOf, Closed
  <2>6. QED
    BY <1>1, <1>4, <2>2, <2>3, <2>5
<1>6. CASE ~(c = Ratio - 1)
  <2>1. ~Completes(p) /\ Row(p + 1) = c + 1 /\ BlockOf(p + 1) = j
    BY <1>1, <1>6, NextRow
  <2>2. QED
    BY <1>1, <1>2, <1>4, <1>6, <2>1 DEF RegisterOf, Closed
<1>7. QED
  BY <1>5, <1>6

(* Positions in one launch, as long as the tokens are those of the prefix.  *)
LEMMA ChainRight ==
  ASSUME NEW r, NEW p \in Nat, NEW toks, NEW n \in Nat, Len(toks) = n,
         NEW k \in 0..n, NextOnes(toks, r, p, k)
  PROVE  \A i \in 0..k : Chain(RegisterOf(r, p), p, toks)[i] = RegisterOf(r, p + i)
<1>0. PICK seed : seed = RegisterOf(r, p)
  OBVIOUS
<1> DEFINE reg == Chain(seed, p, toks)
           T == {i \in 0..k : reg[i] = RegisterOf(r, p + i)}
<1>1. /\ reg[0] = RegisterOf(r, p)
      /\ \A i \in 1..n : reg[i] = Rolled(reg[i - 1], p + i - 1, toks[i])
  <2>1. IsChain(reg, seed, p, toks, n)
    BY ChainIs
  <2> HIDE DEF reg
  <2>2. QED
    BY <1>0, <2>1 DEF IsChain
<1> HIDE DEF reg
<1>2. 0 \in T
  <2>1. p + 0 = p /\ 0 \in 0..k
    OBVIOUS
  <2>2. QED
    BY <1>1, <2>1
<1>3. ASSUME NEW i \in 0..(k - 1), i \in T
      PROVE  i + 1 \in T
  <2>1. i + 1 \in 1..n /\ i + 1 \in 1..k /\ i + 1 \in 0..k /\ (i + 1) - 1 = i
        /\ p + (i + 1) - 1 = p + i /\ p + (i + 1) = (p + i) + 1 /\ p + i \in Nat
    OBVIOUS
  <2>2. reg[i + 1] = Rolled(reg[i], p + i, toks[i + 1])
    BY <1>1, <2>1
  <2>3. toks[i + 1] = Tok(r, (p + i) + 1) /\ reg[i] = RegisterOf(r, p + i)
    BY <1>3, <2>1 DEF NextOnes
  <2>4. Rolled(RegisterOf(r, p + i), p + i, Tok(r, (p + i) + 1)) = RegisterOf(r, (p + i) + 1)
    BY <2>1, RolledIs
  <2>5. QED
    BY <2>1, <2>2, <2>3, <2>4
<1>4. QED
  <2> HIDE DEF T
  <2>1. \A i \in 0..(k - 1) : i \in T => i + 1 \in T
    BY <1>3
  <2>2. \A i \in 0..k : i \in T
    BY <1>2, <2>1, UpTo
  <2>3. QED
    BY <1>0, <2>2, Zenon DEF T, reg

-----------------------------------------------------------------------------
(* The compressors over a prefix.                                           *)
LEMMA PageIs ==
  ASSUME NEW q \in 0..MaxSeq
  PROVE  PageOf(q) \in Pages
<1> USE DSparkAssumption, SpecAssumption
<1>1. /\ PageOf(q) \in Int /\ q % Page \in 0..(Page - 1) /\ q = Page * PageOf(q) + (q % Page)
      /\ MaxSeq \div Page \in Int /\ MaxSeq % Page \in 0..(Page - 1)
      /\ MaxSeq = Page * (MaxSeq \div Page) + (MaxSeq % Page)
  BY DivMod DEF PageOf
<1>2. PICK g \in Int, h \in Int, c \in 0..(Page - 1), d \in 0..(Page - 1) :
        /\ g = PageOf(q) /\ h = MaxSeq \div Page
        /\ q = Page * g + c /\ MaxSeq = Page * h + d
  BY <1>1
<1>3. ~(h < g)
  <2>1. SUFFICES ASSUME h < g
                 PROVE  FALSE
    OBVIOUS
  <2>2. Page * h + Page <= Page * g
    BY <2>1, Multiples
  <2>3. QED
    BY <1>2, <2>2
<1>4. ~(g < 0)
  <2>1. SUFFICES ASSUME g < 0
                 PROVE  FALSE
    OBVIOUS
  <2>2. Page * g + Page <= Page * 0 /\ Page * 0 = 0
    BY <2>1, Multiples
  <2>3. QED
    BY <1>2, <2>2
<1>5. g \in 0..h
  BY <1>3, <1>4
<1>6. QED
  BY <1>2, <1>5 DEF Pages

OnPage(g, p, n) == {i \in 1..n : PageOf(p + i - 1) = g}
EndsIn(j, p, n) == {i \in 1..n : p + i = (j + 1) * Ratio}

AdvancedBy(new, cs, p, toks, n, reg) ==
  /\ new.carry =
       [g \in Pages |-> IF OnPage(g, p, n) # {}
                        THEN reg[CHOOSE i \in OnPage(g, p, n) : \A k \in OnPage(g, p, n) : k <= i]
                        ELSE cs.carry[g]]
  /\ new.cmp =
       [j \in Blocks |-> IF EndsIn(j, p, n) # {}
                         THEN LET i == CHOOSE i \in EndsIn(j, p, n) : TRUE
                              IN Pooled(reg[i - 1], p + i - 1, toks[i])
                         ELSE cs.cmp[j]]
(* What Advanced leaves, by pages and blocks.                               *)
LEMMA AdvancedIs ==
  ASSUME NEW cs, NEW seed, NEW p, NEW toks
  PROVE  AdvancedBy(Advanced(cs, seed, p, toks), cs, p, toks, Len(toks), Chain(seed, p, toks))
BY DEF Advanced, OnPage, EndsIn, PageOf, AdvancedBy

BlocksOf(cmp, r, n) ==
  \A j \in Blocks : (j + 1) * Ratio <= n => cmp[j] = <<TrueHalf(r, j - 1), TrueHalf(r, j)>>

(* The blocks completed so far, behind the next tokens of the prefix.       *)
LEMMA BlocksRight ==
  ASSUME NEW r, NEW p \in Nat, NEW toks, NEW n \in Nat, Len(toks) = n,
         NEW k \in 0..n, NextOnes(toks, r, p, k), NEW cs, BlocksOf(cs.cmp, r, p),
         NEW new, new = Advanced(cs, RegisterOf(r, p), p, toks)
  PROVE  BlocksOf(new.cmp, r, p + k)
<1> USE CompressorAssumption
<1>1. PICK reg : reg = Chain(RegisterOf(r, p), p, toks)
  OBVIOUS
<1>2. \A i \in 0..k : reg[i] = RegisterOf(r, p + i)
  BY <1>1, ChainRight
<1>3. SUFFICES ASSUME NEW j \in Blocks, (j + 1) * Ratio <= p + k
               PROVE  new.cmp[j] = <<TrueHalf(r, j - 1), TrueHalf(r, j)>>
  BY DEF BlocksOf
<1>4. new.cmp[j] = IF EndsIn(j, p, n) # {}
                   THEN LET i == CHOOSE i \in EndsIn(j, p, n) : TRUE
                        IN Pooled(reg[i - 1], p + i - 1, toks[i])
                   ELSE cs.cmp[j]
  <2>1. AdvancedBy(new, cs, p, toks, n, reg)
    BY <1>1, AdvancedIs
  <2>2. QED
    BY <2>1 DEF AdvancedBy
<1>5. j \in Nat
  BY DEF Blocks
<1>6. PICK end \in Nat : end = (j + 1) * Ratio
  BY <1>5
<1>7. CASE EndsIn(j, p, n) # {}
  <2>1. PICK i \in EndsIn(j, p, n) : i = CHOOSE e \in EndsIn(j, p, n) : TRUE
    BY <1>7
  <2>2. i \in 1..n /\ p + i = (j + 1) * Ratio
    BY DEF EndsIn
  <2>3. i \in 1..k
    BY <1>3, <1>6, <2>2
  <2>4. PICK q \in Nat : q = p + i - 1
    BY <2>2
  <2>5. i - 1 \in 0..k /\ p + (i - 1) = q /\ q + 1 = p + i
    BY <2>3, <2>4
  <2>6. reg[i - 1] = RegisterOf(r, q) /\ toks[i] = Tok(r, q + 1)
    BY <1>2, <2>3, <2>5 DEF NextOnes
  <2>7. BlockOf(q) = j /\ Row(q) = Ratio - 1
    BY <1>5, <2>2, <2>5, BlockEnds
  <2>8. Pooled(RegisterOf(r, q), q, Tok(r, q + 1)) = <<TrueHalf(r, j - 1), TrueHalf(r, j)>>
    BY <2>7, RolledIs
  <2>9. new.cmp[j] = Pooled(reg[i - 1], p + i - 1, toks[i])
    BY <1>4, <1>7, <2>1
  <2>10. QED
    BY <2>4, <2>6, <2>8, <2>9
<1>8. CASE ~(EndsIn(j, p, n) # {})
  <2>1. (j + 1) * Ratio <= p
    <3>1. SUFFICES ASSUME p < end
                   PROVE  FALSE
      BY <1>6
    <3>2. end - p \in 1..n /\ p + (end - p) = end
      BY <1>3, <1>6, <3>1
    <3>3. end - p \in EndsIn(j, p, n)
      BY <1>6, <3>2 DEF EndsIn
    <3>4. QED
      BY <1>8, <3>3
  <2>2. QED
    BY <1>4, <1>8, <2>1 DEF BlocksOf
<1>9. QED
  BY <1>7, <1>8

(* The page of the last position carries the register it left.              *)
HasPages(cs) == cs.carry = [g \in Pages |-> cs.carry[g]]
LEMMA CarryIs ==
  ASSUME NEW cs, NEW seed, NEW p \in Nat, NEW toks, NEW n \in Nat \ {0}, Len(toks) = n,
         p + n <= MaxSeq, NEW new, new = Advanced(cs, seed, p, toks)
  PROVE  CarryAt(new, p + n) = Chain(seed, p, toks)[n] /\ HasPages(new)
<1>1. PICK reg : reg = Chain(seed, p, toks)
  OBVIOUS
<1>2. PICK g : g = PageOf(p + n - 1)
  OBVIOUS
<1>3. g \in Pages
  <2>1. p + n - 1 \in 0..MaxSeq
    BY SpecAssumption
  <2>2. QED
    BY <1>2, <2>1, PageIs
<1>4. /\ new.carry = [x \in Pages |-> new.carry[x]]
      /\ new.carry[g] = IF OnPage(g, p, n) # {}
                        THEN reg[CHOOSE i \in OnPage(g, p, n) : \A k \in OnPage(g, p, n) : k <= i]
                        ELSE cs.carry[g]
  <2>1. new.carry =
              [x \in Pages |-> IF OnPage(x, p, n) # {}
                               THEN reg[CHOOSE i \in OnPage(x, p, n) : \A k \in OnPage(x, p, n) : k <= i]
                               ELSE cs.carry[x]]
    <3>1. AdvancedBy(new, cs, p, toks, n, reg)
      BY <1>1, AdvancedIs
    <3>2. QED
      BY <3>1 DEF AdvancedBy
  <2>2. QED
    BY <1>3, <2>1
<1>5. n \in OnPage(g, p, n) /\ OnPage(g, p, n) \subseteq 1..n
  BY <1>2 DEF OnPage
<1>6. (CHOOSE i \in OnPage(g, p, n) : \A k \in OnPage(g, p, n) : k <= i) = n
  <2>1. \A k \in OnPage(g, p, n) : k <= n
    BY <1>5
  <2>2. \A i \in OnPage(g, p, n) : (\A k \in OnPage(g, p, n) : k <= i) => i = n
    BY <1>5
  <2>3. QED
    BY <1>5, <2>1, <2>2
<1>7. new.carry[g] = reg[n]
  BY <1>4, <1>5, <1>6
<1>8. CarryAt(new, p + n) = new.carry[g]
  <2>1. CarryAt(new, p + n) = new.carry[PageOf(p + n - 1)]
    BY DEF CarryAt, PageOf
  <2>2. QED
    BY <1>2, <2>1
<1>9. QED
  BY <1>1, <1>4, <1>7, <1>8 DEF HasPages

(* A row that stands at the first n positions of r.                         *)
RowAt(cs, r, n) ==
  /\ HasPages(cs)
  /\ CarryAt(cs, n) = RegisterOf(r, n)
  /\ BlocksOf(cs.cmp, r, n)

(* A row over the next tokens of its prefix.                                *)
LEMMA AdvancedRight ==
  ASSUME NEW r, NEW p \in Nat, NEW toks, NEW n \in Nat \ {0}, Len(toks) = n,
         p + n <= MaxSeq, NextOnes(toks, r, p, n), NEW cs, BlocksOf(cs.cmp, r, p),
         NEW new, new = Advanced(cs, RegisterOf(r, p), p, toks)
  PROVE  RowAt(new, r, p + n)
<1>1. n \in Nat /\ n \in 0..n
  OBVIOUS
<1>2. BlocksOf(new.cmp, r, p + n)
  BY <1>1, BlocksRight
<1>3. /\ CarryAt(new, p + n) = Chain(RegisterOf(r, p), p, toks)[n]
      /\ HasPages(new)
  BY CarryIs
<1>4. Chain(RegisterOf(r, p), p, toks)[n] = RegisterOf(r, p + n)
  BY <1>1, ChainRight
<1>5. QED
  BY <1>2, <1>3, <1>4 DEF RowAt

(* After a round of which the first m + 1 tokens count.                     *)
LEMMA RefixedRight ==
  ASSUME NEW r, NEW p \in Nat \ {0}, NEW toks \in Seq(Tokens), NEW n \in Nat, Len(toks) = n,
         p + n <= MaxSeq, NEW k \in 1..n, NextOnes(toks, r, p, k),
         NEW before, RowAt(before, r, p),
         NEW verified, verified = Advanced(before, CarryAt(before, p), p, toks)
  PROVE  RowAt(Refixed(before, verified, p, toks, k), r, p + k)
<1> USE SpecAssumption
<1>1. CarryAt(before, p) = RegisterOf(r, p) /\ BlocksOf(before.cmp, r, p)
  BY DEF RowAt
<1>2. n \in Nat \ {0}
  OBVIOUS
<1>3. CASE k = n
  <2>1. Refixed(before, verified, p, toks, k) = verified
    BY <1>3 DEF Refixed
  <2>2. RowAt(verified, r, p + n)
    BY <1>1, <1>2, <1>3, AdvancedRight
  <2>3. QED
    BY <1>3, <2>1, <2>2
<1>4. CASE ~(k = n)
  <2> DEFINE back == [verified EXCEPT !.carry[(p - 1) \div Page] = CarryAt(before, p)]
             kept == SubSeq(toks, 1, k)
  <2>1. Refixed(before, verified, p, toks, k) = Advanced(back, CarryAt(back, p), p, kept)
    BY <1>4 DEF Refixed
  <2>2. HasPages(verified)
    BY <1>2, CarryIs
  <2>3. PageOf(p - 1) \in Pages
    <3>1. p - 1 \in 0..MaxSeq
      OBVIOUS
    <3>2. QED
      BY <3>1, PageIs
  <2>4. CarryAt(back, p) = CarryAt(before, p) /\ back.cmp = verified.cmp
    <3>1. DOMAIN verified = {"carry", "cmp"}
      BY DEF Advanced
    <3>2. back.carry = [verified.carry EXCEPT ![PageOf(p - 1)] = CarryAt(before, p)]
          /\ back.cmp = verified.cmp
      BY <3>1 DEF PageOf
    <3>3. back.carry[PageOf(p - 1)] = CarryAt(before, p)
      BY <2>2, <2>3, <3>2 DEF HasPages
    <3>4. CarryAt(back, p) = back.carry[PageOf(p - 1)]
      BY Zenon DEF CarryAt, PageOf
    <3>5. QED
      BY <3>2, <3>3, <3>4
  <2>5. BlocksOf(verified.cmp, r, p + 0)
    <3>1. 0 \in 0..n /\ NextOnes(toks, r, p, 0)
      BY DEF NextOnes
    <3>2. QED
      BY <1>1, <3>1, BlocksRight
  <2>6. kept \in Seq(Tokens) /\ Len(kept) = k /\ \A j \in 1..k : kept[j] = toks[j]
    <3>1. \A j \in 1..k : toks[j] \in Tokens
      BY ElementOfSeq
    <3>2. QED
      BY <3>1, SubSeqProperties
  <2> HIDE DEF back, kept
  <2>7. NextOnes(kept, r, p, k)
    BY <2>6 DEF NextOnes
  <2>8. BlocksOf(back.cmp, r, p) /\ CarryAt(back, p) = RegisterOf(r, p)
    <3>1. p + 0 = p
      OBVIOUS
    <3>2. QED
      BY <1>1, <2>4, <2>5, <3>1
  <2>9. k \in Nat \ {0} /\ p + k <= MaxSeq /\ p \in Nat
    OBVIOUS
  <2>10. RowAt(Advanced(back, RegisterOf(r, p), p, kept), r, p + k)
    BY <2>6, <2>7, <2>8, <2>9, AdvancedRight
  <2>11. QED
    BY <2>1, <2>8, <2>10
<1>5. QED
  BY <1>3, <1>4

-----------------------------------------------------------------------------
(* DeepSeek-V4: the compressors stand at the verified prefixes, too.        *)
CompRight ==
  /\ comp = [s \in Slots |-> comp[s]]
  /\ \A r \in Running : Verified(r) >= 1 /\ RowAt(comp[table[r]], r, Verified(r))
DsRight == SharedRight /\ CompRight

(* A step of the only running request leaves the rest of CompRight.         *)
LEMMA CompAfter ==
  ASSUME NEW r \in Reqs, NEW s \in Slots, Running' = {r}, table'[r] = s,
         comp' = [x \in Slots |-> comp'[x]], NEW n \in Nat \ {0}, Verified(r)' = n,
         RowAt(comp'[s], r, n)
  PROVE  CompRight'
<1>1. n >= 1
  OBVIOUS
<1>2. QED
  BY <1>1 DEF CompRight, Verified, RowAt, HasPages, CarryAt, BlocksOf

(* The main model, given the keys and the blocks of a greedy prefix.        *)
LEMMA PredictFromRight ==
  ASSUME NEW r \in Reqs, NEW p \in Nat, NEW n \in Nat, n = p + 1, n <= MaxSeq, NEW keys, NEW cmp,
         KeysOf(keys, r, n), BlocksOf(cmp, r, n)
  PROVE  PredictFrom(r, p, keys, cmp) = Tok(r, n + 1)
<1> USE CompressorAssumption, SpecAssumption
<1>1. \A i \in 0..p : keys[i] = Tok(r, i + 1)
  BY DEF KeysOf
<1>2. \A j \in 0..((n \div Ratio) - 1) : cmp[j] = <<TrueHalf(r, j - 1), TrueHalf(r, j)>>
  <2>1. PICK b \in Int, c \in 0..(Ratio - 1), x \in Int, d \in 0..(Ratio - 1) :
          /\ b = n \div Ratio /\ n = Ratio * b + c
          /\ x = MaxSeq \div Ratio /\ MaxSeq = Ratio * x + d
    <3>1. /\ n \div Ratio \in Int /\ n % Ratio \in 0..(Ratio - 1)
          /\ n = Ratio * (n \div Ratio) + (n % Ratio)
          /\ MaxSeq \div Ratio \in Int /\ MaxSeq % Ratio \in 0..(Ratio - 1)
          /\ MaxSeq = Ratio * (MaxSeq \div Ratio) + (MaxSeq % Ratio)
      BY DivMod
    <3>2. QED
      BY <3>1, Zenon
  <2>2. ~(x < b)
    <3>1. SUFFICES ASSUME x < b
                   PROVE  FALSE
      OBVIOUS
    <3>2. Ratio * x + Ratio <= Ratio * b
      BY <3>1, Multiples
    <3>3. QED
      BY <2>1, <3>2
  <2>3. SUFFICES ASSUME NEW j \in 0..(b - 1)
                 PROVE  cmp[j] = <<TrueHalf(r, j - 1), TrueHalf(r, j)>>
    BY <2>1
  <2>4. j \in Blocks
    <3>1. j \in 0..x
      BY <2>2
    <3>2. QED
      BY <2>1, <3>1 DEF Blocks
  <2>5. (j + 1) * Ratio <= n
    <3>1. Ratio * j + Ratio <= Ratio * b
      BY Multiples
    <3>2. (j + 1) * Ratio = Ratio * j + Ratio
      OBVIOUS
    <3>3. QED
      BY <2>1, <3>1, <3>2
  <2>6. QED
    BY <2>4, <2>5 DEF BlocksOf
<1>3. p + 1 = n /\ p + 2 = n + 1
  OBVIOUS
<1>4. QED
  BY <1>1, <1>2, <1>3 DEF PredictFrom

(* No block is complete before the first position.                          *)
LEMMA NoBlocks ==
  ASSUME NEW cmp, NEW r
  PROVE  BlocksOf(cmp, r, 0)
<1>1. ASSUME NEW j \in Blocks
      PROVE  ~((j + 1) * Ratio <= 0)
  <2>1. j \in Nat
    BY DEF Blocks
  <2>2. (j + 1) * Ratio = Ratio * j + Ratio /\ Ratio * j >= 0
    BY <2>1, CompressorAssumption
  <2>3. QED
    BY <2>1, <2>2, CompressorAssumption
<1>2. QED
  BY <1>1 DEF BlocksOf

(* A prompt in a prefill batch of its own.                                  *)
LEMMA DsPrefillRight ==
  ASSUME OneRow, EngineInv, DsRight, NEW r \in Reqs, DsPrefill(r)
  PROVE  DsRight'
<1> USE SpecAssumption
<1>1. phase[r] = "waiting" /\ SharedRight
  BY DEF DsPrefill, DsRight
<1>2. PICK s \in FreeSlots :
        LET keys == Stored(kv[s], 0, seq[r])
            cs == Advanced(comp[s], EmptyRegister, 0, seq[r])
        IN  /\ kv' = [kv EXCEPT ![s] = keys]
            /\ comp' = [comp EXCEPT ![s] = cs]
            /\ Admit(r, s, PredictFrom(r, PromptLen - 1, keys, cs.cmp))
  BY DEF DsPrefill
<1> DEFINE keys == Stored(kv[s], 0, seq[r])
           cs == Advanced(comp[s], EmptyRegister, 0, seq[r])
<1>3. /\ s \in Slots /\ seq[r] = Truth(r, PromptLen) /\ seq[r] \in Seq(Tokens)
      /\ Len(seq[r]) = PromptLen /\ KeysOf(keys, r, PromptLen)
  BY <1>1, PromptRight
<1>4. NextOnes(seq[r], r, 0, PromptLen)
  <2>1. \A i \in 1..PromptLen : Truth(r, PromptLen)[i] = Tok(r, i) /\ 0 + i = i
    BY TruthIs
  <2>2. QED
    BY <1>3, <2>1 DEF NextOnes
<1>5. RowAt(cs, r, PromptLen)
  <2>1. PICK toks : toks = seq[r]
    OBVIOUS
  <2>2. PICK z \in Nat : z = 0
    OBVIOUS
  <2>3. BlocksOf(comp[s].cmp, r, z) /\ RegisterOf(r, z) = EmptyRegister
    BY <2>2, NoBlocks, EmptyIs
  <2>4. z + PromptLen <= MaxSeq /\ z + PromptLen = PromptLen
    BY <2>2
  <2>5. Len(toks) = PromptLen /\ NextOnes(toks, r, z, PromptLen)
    BY <1>3, <1>4, <2>1, <2>2
  <2>6. RowAt(Advanced(comp[s], RegisterOf(r, z), z, toks), r, z + PromptLen)
    BY <2>3, <2>4, <2>5, AdvancedRight
  <2>7. QED
    BY <2>1, <2>2, <2>3, <2>4, <2>6
<1> HIDE DEF cs, keys
<1>6. PredictFrom(r, PromptLen - 1, keys, cs.cmp) = Tok(r, PromptLen + 1)
  <2>1. BlocksOf(cs.cmp, r, PromptLen)
    BY <1>5 DEF RowAt
  <2>2. PICK p \in Nat : p = PromptLen - 1 /\ PromptLen = p + 1
    OBVIOUS
  <2>3. PromptLen \in Nat /\ PromptLen <= MaxSeq
    OBVIOUS
  <2>4. PredictFrom(r, p, keys, cs.cmp) = Tok(r, PromptLen + 1)
    BY <1>3, <2>1, <2>2, <2>3, PredictFromRight
  <2>5. QED
    BY <2>2, <2>4
<1>7. /\ kv' = [kv EXCEPT ![s] = Stored(kv[s], 0, seq[r])]
      /\ comp' = [comp EXCEPT ![s] = cs]
      /\ Admit(r, s, Tok(r, PromptLen + 1))
  BY <1>2, <1>6 DEF cs, keys
<1>8. SharedRight' /\ Running' = {r} /\ table'[r] = s /\ Verified(r)' = PromptLen
  <2>1. \E d : KeyTo(r, d, <<>>)
    BY DEF DsPrefill
  <2>2. QED
    BY <1>1, <1>7, <2>1, PrefillShares
<1>9. comp' = [x \in Slots |-> comp'[x]] /\ comp'[s] = cs
  BY <1>3, <1>7 DEF DsRight, CompRight
<1>10. CompRight'
  BY <1>3, <1>5, <1>8, <1>9, CompAfter
<1>11. QED
  BY <1>8, <1>10 DEF DsRight

(* A forward of the request's own row with nothing cached for it.           *)
LEMMA DsForwardRight ==
  ASSUME OneRow, EngineInv, DsRight, NEW r, Batch = {r}, DsForward({r}), Ahead(r) = 0,
         UNCHANGED <<phase, table>>,
         sp' = sp \/ \E d : KeyTo(r, d, <<>>)
  PROVE  DsRight'
<1> USE SpecAssumption
<1>1. PICK n, s : n = DeviceLen(r) /\ s = table[r]
  OBVIOUS
<1>2. /\ r \in Reqs /\ r \in Running /\ s \in Slots /\ n \in Nat \ {0} /\ n <= MaxSeq
      /\ Input(r) = Tok(r, n) /\ Verified(r) = n - 1 /\ KeysOf(InputKeys(r), r, n)
  BY <1>1, ForwardSees DEF DsRight
<1>3. PICK p \in Nat : p = n - 1 /\ n = p + 1
  BY <1>2
<1> DEFINE cs == [q \in {r} |-> LET p_ == DeviceLen(q) - 1
                                IN Advanced(comp[table[q]], CarryAt(comp[table[q]], p_), p_, <<Input(q)>>)]
           next == [q \in {r} |-> PredictFrom(q, DeviceLen(q) - 1, InputKeys(q), cs[q].cmp)]
           row == Advanced(comp[s], CarryAt(comp[s], p), p, <<Tok(r, n)>>)
<1>4. /\ comp' = [x \in Slots |-> IF \E q \in {r} : table[q] = x
                                  THEN cs[CHOOSE q \in {r} : table[q] = x] ELSE comp[x]]
      /\ Emitted({r}, next)
  BY DEF DsForward
<1>5. cs[r] = row /\ next[r] = PredictFrom(r, p, InputKeys(r), row.cmp)
  BY <1>1, <1>2, <1>3
<1>6. RowAt(row, r, n)
  <2>1. PICK toks : toks = <<Tok(r, n)>>
    OBVIOUS
  <2>2. PICK k \in Nat \ {0} : k = 1
    OBVIOUS
  <2>3. Len(toks) = k /\ NextOnes(toks, r, p, k) /\ p + k = n
    BY <1>3, <2>1, <2>2 DEF NextOnes
  <2>4. CarryAt(comp[s], p) = RegisterOf(r, p) /\ BlocksOf(comp[s].cmp, r, p)
    BY <1>1, <1>2, <1>3 DEF DsRight, CompRight, RowAt
  <2>5. RowAt(Advanced(comp[s], RegisterOf(r, p), p, toks), r, p + k)
    BY <1>2, <2>3, <2>4, AdvancedRight
  <2>6. QED
    BY <2>1, <2>3, <2>4, <2>5
<1> HIDE DEF row, cs, next
<1>7. next[r] = Tok(r, n + 1)
  <2>1. BlocksOf(row.cmp, r, n) /\ n \in Nat
    BY <1>2, <1>6 DEF RowAt
  <2>2. PredictFrom(r, p, InputKeys(r), row.cmp) = Tok(r, n + 1)
    BY <1>2, <1>3, <2>1, PredictFromRight
  <2>3. QED
    BY <1>5, <2>2
<1>8. SharedRight' /\ Running' = {r} /\ table'[r] = s /\ Verified(r)' = n
  BY <1>1, <1>4, <1>7, ForwardShares DEF DsRight
<1>9. comp' = [x \in Slots |-> comp'[x]] /\ comp'[s] = row
  <2>1. (CHOOSE q \in {r} : table[q] = s) = r
    BY <1>1
  <2>2. comp'[s] = cs[r]
    BY <1>1, <1>2, <1>4, <2>1
  <2>3. comp' = [x \in Slots |-> comp'[x]]
    BY <1>4
  <2>4. QED
    BY <1>5, <2>2, <2>3
<1>10. CompRight'
  BY <1>2, <1>6, <1>8, <1>9, CompAfter
<1>11. QED
  BY <1>8, <1>10 DEF DsRight

-----------------------------------------------------------------------------
(* A round: its rows follow its inputs, its compressors the kept ones.      *)
DsRows(r, p, s, toks) ==
  [i \in 1..Len(toks) |-> PredictFrom(r, p + i - 1, Stored(kv[s], p, toks),
                                      Advanced(comp[s], CarryAt(comp[s], p), p, toks).cmp)]

(* The rows of a verify see the prefix as far as its inputs are greedy.     *)
LEMMA DsRowRight ==
  ASSUME NEW r \in Reqs, NEW p \in Nat, NEW s, NEW toks \in Seq(Tokens), NEW n \in Nat,
         Len(toks) = n, p + n <= MaxSeq, KeysOf(kv[s], r, p), RowAt(comp[s], r, p)
  PROVE  RowsFollow(DsRows(r, p, s, toks), toks, r, p)
<1> USE SpecAssumption
<1>1. SUFFICES ASSUME NEW i \in 1..n, NextOnes(toks, r, p, i)
               PROVE  DsRows(r, p, s, toks)[i] = Tok(r, p + i + 1)
  BY DEF RowsFollow
<1>2. PICK keys, cs : /\ keys = Stored(kv[s], p, toks)
                      /\ cs = Advanced(comp[s], CarryAt(comp[s], p), p, toks)
  OBVIOUS
<1>3. PICK q \in Nat, m \in Nat : q = p + i - 1 /\ m = p + i /\ m = q + 1
  <2>1. p + i - 1 \in Nat /\ p + i \in Nat /\ p + i = (p + i - 1) + 1
    OBVIOUS
  <2>2. QED
    BY <2>1
<1>4. KeysOf(keys, r, m)
  <2>1. i \in 0..Len(toks) /\ p + i <= MaxSeq
    OBVIOUS
  <2>2. KeysOf(Stored(kv[s], p, toks), r, p + i)
    BY <1>1, <2>1, StoredRight
  <2>3. QED
    BY <1>2, <1>3, <2>2
<1>5. BlocksOf(cs.cmp, r, m)
  <2>1. CarryAt(comp[s], p) = RegisterOf(r, p) /\ BlocksOf(comp[s].cmp, r, p)
    BY DEF RowAt
  <2>2. i \in 0..n /\ cs = Advanced(comp[s], RegisterOf(r, p), p, toks)
    BY <1>2, <2>1
  <2>3. BlocksOf(cs.cmp, r, p + i)
    BY <1>1, <2>1, <2>2, BlocksRight
  <2>4. QED
    BY <1>3, <2>3
<1>6. PredictFrom(r, q, keys, cs.cmp) = Tok(r, m + 1)
  <2>1. m <= MaxSeq
    BY <1>3
  <2>2. QED
    BY <1>3, <1>4, <1>5, <2>1, PredictFromRight
<1>7. DsRows(r, p, s, toks)[i] = PredictFrom(r, q, keys, cs.cmp)
  BY <1>2, <1>3 DEF DsRows
<1>8. QED
  BY <1>3, <1>6, <1>7

(* The whole round.                                                         *)
LEMMA DsRoundRight ==
  ASSUME OneRow, EngineInv, DraftTypes, arch = "deepseek_v4", DsRight,
         NEW r, Batch = {r}, NEW a, DsRoundStep(r, a), UNCHANGED <<phase, table>>
  PROVE  DsRight'
<1> USE SpecAssumption
<1> DEFINE s == table[r]
           p == DeviceLen(r) - 1
           ds == sp.draft
<1>0. RoundGate(r, a) /\ s = table[r] /\ p = DeviceLen(r) - 1 /\ ds = sp.draft
  BY Zenon DEF DsRoundStep
<1>1. /\ r \in Batch /\ r \in Reqs /\ r \in Running /\ s \in Slots
      /\ Input(r) = Tok(r, DeviceLen(r)) /\ DeviceLen(r) \in Nat \ {0}
      /\ RemainLen(r) \in Nat \ {0} /\ SharedRight
  BY <1>0, BatchIs, InputRight DEF DsRight, Batch
<1>2. Running = {r} /\ Running' = {r} /\ table'[r] = s
  BY <1>0, <1>1, OnlyOne DEF Running
<1>3. /\ p \in Nat /\ DeviceLen(r) = p + 1 /\ Input(r) = Tok(r, p + 1) /\ p + K + 1 <= MaxSeq
      /\ ds \in Seq(Tokens) /\ Len(ds) \in Nat /\ Len(ds) <= K /\ Len(ds) >= 1
  <2>1. ds \in Seq(Tokens) /\ Len(ds) \in 1..K
    BY <1>0 DEF RoundGate, DraftTypes
  <2>2. DeviceLen(r) + K <= MaxSeq
    BY <1>0 DEF RoundGate
  <2>3. QED
    BY <1>0, <1>1, <2>1, <2>2
<1>4. Verified(r) = p
  <2>1. sp.pos \in Nat /\ sp.pos <= Len(sp.cache) /\ Len(sp.cache) \in Nat /\ sp.pos >= Len(sp.cache)
    BY <1>0 DEF EngineInv, EngineTypes, RoundGate
  <2>2. QED
    BY <1>3, <2>1 DEF Verified, Ahead
<1>5. /\ p \in Nat \ {0} /\ KeysOf(kv[s], r, p) /\ RowAt(comp[s], r, p)
      /\ comp = [x \in Slots |-> comp[x]]
  BY <1>0, <1>1, <1>3, <1>4 DEF DsRight, CompRight, SharedRight, KeysRight, KeysOf
<1>6. PICK outcome \in IF Len(sp.draft) = K THEN CaptureOutcomes ELSE {"eager"} :
       LET toks == <<Input(r)>> \o ds
           g == IF outcome = "eager" THEN graph ELSE Staged(outcome, r, p)
           tg == Target([state |-> outcome, slot |-> g.slot, at |-> g.at], r, p)
           keys == Stored(kv[tg.slot], tg.at, toks)
           before == comp[tg.slot]
           verified == Advanced(before, CarryAt(before, tg.at), tg.at, toks)
           rows == [i \in 1..Len(toks) |-> PredictFrom(r, p + i - 1, keys, verified.cmp)]
           m == Accepted(r, rows, ds)
           emitted == RoundTokens(rows, ds, m)
       IN  /\ kv' = [kv EXCEPT ![tg.slot] = keys]
           /\ comp' = [comp EXCEPT ![tg.slot] = Refixed(before, verified, p, toks, m + 1)]
           /\ ring' = RingWrite(ring, r, p, p + m)
           /\ RoundDone(r, p + Len(toks), emitted)
           /\ \E d \in DraftBlocks(r, p + m + 3) : KeyTo(r, d, Tail(emitted))
           /\ graph' = g
  BY DEF DsRoundStep
<1> DEFINE toks == <<Input(r)>> \o ds
           g == IF outcome = "eager" THEN graph ELSE Staged(outcome, r, p)
           tg == Target([state |-> outcome, slot |-> g.slot, at |-> g.at], r, p)
           keys == Stored(kv[tg.slot], tg.at, toks)
           before == comp[tg.slot]
           verified == Advanced(before, CarryAt(before, tg.at), tg.at, toks)
           rows == [i \in 1..Len(toks) |-> PredictFrom(r, p + i - 1, keys, verified.cmp)]
           m == Accepted(r, rows, ds)
           emitted == RoundTokens(rows, ds, m)
<1>7. tg.slot = s /\ tg.at = p
  <2>1. CASE outcome = "captured"
    BY <2>1 DEF Target, Staged
  <2>2. CASE ~(outcome = "captured")
    BY <2>2 DEF Target
  <2>3. QED
    BY <2>1, <2>2
<1>8. /\ kv' = [kv EXCEPT ![tg.slot] = keys]
      /\ comp' = [comp EXCEPT ![tg.slot] = Refixed(before, verified, p, toks, m + 1)]
      /\ RoundDone(r, p + Len(toks), emitted)
      /\ \E d \in DraftBlocks(r, p + m + 3) : KeyTo(r, d, Tail(emitted))
  BY <1>6
<1>9. /\ toks = <<Tok(r, p + 1)>> \o ds
      /\ keys = Stored(kv[s], p, toks) /\ before = comp[s]
      /\ verified = Advanced(before, CarryAt(before, p), p, toks)
      /\ rows = DsRows(r, p, s, toks) /\ m = Accepted(r, rows, ds)
      /\ emitted = RoundTokens(rows, ds, m)
  <2>1. toks = <<Tok(r, p + 1)>> \o ds
    BY <1>3
  <2> HIDE DEF toks, tg, s, p, ds
  <2>2. /\ keys = Stored(kv[s], p, toks) /\ before = comp[s]
        /\ verified = Advanced(before, CarryAt(before, p), p, toks)
    BY <1>7
  <2>3. rows = DsRows(r, p, s, toks)
    BY <2>2 DEF DsRows
  <2>4. QED
    BY <2>1, <2>2, <2>3
<1> HIDE DEF s, p, ds, toks, g, tg, keys, before, verified, rows, m, emitted
<1>10. /\ kv' = [kv EXCEPT ![s] = Stored(kv[s], p, toks)]
       /\ comp' = [comp EXCEPT ![s] = Refixed(before, verified, p, toks, m + 1)]
       /\ RoundDone(r, p + Len(toks), RoundTokens(rows, ds, m))
       /\ \E d : KeyTo(r, d, Tail(RoundTokens(rows, ds, m)))
  BY <1>7, <1>8, <1>9
<1>11. PICK n \in Nat : n = Len(toks) /\ n = Len(ds) + 1 /\ toks \in Seq(Tokens)
  <2>1. <<Tok(r, p + 1)>> \in Seq(Tokens) /\ Len(<<Tok(r, p + 1)>>) = 1
    BY <1>1, <1>3, TokenTypes
  <2>2. toks \in Seq(Tokens) /\ Len(toks) = Len(ds) + 1
    BY <1>3, <1>9, <2>1, ConcatProperties
  <2>3. QED
    BY <1>3, <2>2
<1>12. m \in 0..Len(ds) /\ \A i \in 1..m : rows[i] = ds[i]
  BY <1>1, <1>3, <1>9, AcceptedIs
<1>13. RoundOf(r, p, s, ds, toks, rows, m)
  <2>1. p + n <= MaxSeq /\ p + Len(ds) + 1 <= MaxSeq
    BY <1>3, <1>11
  <2>2. RowsFollow(DsRows(r, p, s, toks), toks, r, p)
    BY <1>1, <1>3, <1>5, <1>11, <2>1, DsRowRight
  <2>3. QED
    BY <1>3, <1>5, <1>9, <1>12, <2>1, <2>2 DEF RoundOf
<1>14. PICK d : KeyTo(r, d, Tail(RoundTokens(rows, ds, m)))
  BY <1>10
<1>15. SharedRight' /\ Verified(r)' = p + m + 1
  <2>1. RoundLeaves(r, p, s, ds, toks, rows, m, p + Len(toks), d)
    BY <1>2, <1>3, <1>10, <1>13, <1>14 DEF RoundLeaves
  <2>2. QED
    BY <1>1, <1>3, <2>1, RoundShares
<1>16. PICK k \in 1..n : k = m + 1 /\ NextOnes(toks, r, p, k)
  <2>1. RoundSees(r, p, toks, rows, m)
    BY <1>1, <1>3, <1>13, RoundRight
  <2>2. QED
    BY <1>11, <2>1 DEF RoundSees
<1>17. RowAt(Refixed(before, verified, p, toks, k), r, p + k)
  <2>1. p + n <= MaxSeq /\ RowAt(before, r, p)
    BY <1>3, <1>5, <1>9, <1>11
  <2>2. QED
    BY <1>5, <1>9, <1>11, <1>16, <2>1, RefixedRight
<1>18. comp' = [x \in Slots |-> comp'[x]] /\ comp'[s] = Refixed(before, verified, p, toks, k)
  BY <1>1, <1>5, <1>10, <1>16
<1>19. PICK e \in Nat \ {0} : e = p + k /\ e = p + m + 1
  BY <1>5, <1>12, <1>16
<1>20. CompRight'
  BY <1>1, <1>2, <1>15, <1>17, <1>18, <1>19, CompAfter
<1>21. QED
  BY <1>15, <1>20 DEF DsRight

-----------------------------------------------------------------------------
(* The system's steps.                                                      *)
LEMMA DsInitial == DsInit => DsRight
<1> SUFFICES ASSUME DsInit
             PROVE  DsRight
  OBVIOUS
<1>1. SharedRight /\ Running = {}
  BY SharedInitial DEF DsInit
<1>2. comp = [x \in Slots |-> comp[x]]
  BY DEF DsInit
<1>3. QED
  BY <1>1, <1>2 DEF DsRight, CompRight

(* A decode step.                                                           *)
LEMMA DsDecodeRight ==
  ASSUME OneRow, EngineInv, DraftTypes, arch = "deepseek_v4", DsRight, DsDecode
  PROVE  DsRight'
<1>1. PICK r \in Batch : TRUE
  BY DEF DsDecode
<1>2. Batch = {r} /\ r \in Running
  BY <1>1, OnlyOne DEF DsRight, Batch
<1>3. PICK a \in Allocated(Batch) :
        DsPlainStep(Batch) \/ DsBootStep(r, a) \/ DsPopStep(r) \/ DsRoundStep(r, a)
  BY <1>2 DEF DsDecode
<1>4. UNCHANGED <<phase, table>>
  BY DEF DsDecode
<1>5. CASE DsPlainStep(Batch)
  <2>1. r \in sampling
    <3>1. Cardinality({r}) = 1
      BY FS_Singleton
    <3>2. QED
      BY <1>2, <1>5, <3>1 DEF DsPlainStep, SpecEligible
  <2>2. Ahead(r) = 0
    BY <1>1, <2>1, NothingAhead
  <2>3. QED
    BY <1>2, <1>4, <1>5, <2>2, DsForwardRight DEF DsPlainStep
<1>6. CASE DsBootStep(r, a)
  <2>1. Ahead(r) = 0
    BY <1>1, <1>6, NothingAhead DEF DsBootStep
  <2>2. QED
    BY <1>2, <1>4, <1>6, <2>1, DsForwardRight DEF DsBootStep
<1>7. CASE DsPopStep(r)
  <2>1. SharedRight' /\ Verified(r)' = Verified(r) /\ Running' = {r}
    BY <1>2, <1>4, <1>7, PopRight DEF DsPopStep, DsRight
  <2>2. comp' = comp /\ table'[r] = table[r]
    BY <1>4, <1>7 DEF DsPopStep
  <2>3. CompRight'
    BY <1>2, <2>1, <2>2 DEF DsRight, CompRight
  <2>4. QED
    BY <2>1, <2>3 DEF DsRight
<1>8. CASE DsRoundStep(r, a)
  BY <1>2, <1>4, <1>8, DsRoundRight
<1>9. QED
  BY <1>3, <1>5, <1>6, <1>7, <1>8

(* A request leaves.                                                        *)
LEMMA DsDepartRight ==
  ASSUME OneRow, EngineInv, DsRight, NEW r \in Reqs, DsDepart(r)
  PROVE  DsRight'
<1>1. Leave(r) /\ r \in Running /\ comp' = comp
  BY DEF DsDepart, Finish, Stop, Running
<1>2. SharedRight' /\ Running' = {}
  BY <1>1, LeaveRight DEF DsRight
<1>3. QED
  BY <1>1, <1>2 DEF DsRight, CompRight

(* Every step of the DSpark decoder.                                        *)
LEMMA DsNext ==
  ASSUME OneRow, DecodeInv, DsRight, arch = "deepseek_v4",
         NEW r \in Reqs, DsPrefill(r) \/ DsDepart(r) \/ DsDecode
  PROVE  DsRight'
<1>1. EngineInv /\ DraftTypes
  BY DEF DecodeInv
<1>2. CASE DsPrefill(r)
  BY <1>1, <1>2, DsPrefillRight
<1>3. CASE DsDepart(r)
  BY <1>1, <1>3, DsDepartRight
<1>4. CASE DsDecode
  BY <1>1, <1>4, DsDecodeRight
<1>5. QED
  BY <1>2, <1>3, <1>4

-----------------------------------------------------------------------------
(* Both decoders: with one table row, what a request has been given and     *)
(* what its state holds stay greedy.                                        *)
GreedyInv ==
  /\ DecodeInv
  /\ arch = "glm5_next" => MtpRight
  /\ arch # "glm5_next" => DsRight

(* The invariant of either decoder: at the start, without and with a step.  *)
LEMMA GreedyInitial == Init => GreedyInv
  BY DecodeInitial, MtpInitial, DsInitial DEF Init, GreedyInv

LEMMA GreedyStutters ==
  ASSUME GreedyInv, UNCHANGED vars
  PROVE  GreedyInv'
<1>1. UNCHANGED <<arch, seq, phase, table, alloc, wrote, sampling, sp, kv, graph, ring, comp, rec>>
  BY DEF vars, engineVars, mtpVars, dsVars
<1>2. DecodeInv'
  BY DecodeStutters DEF GreedyInv
<1>3. SharedRight => SharedRight'
  BY <1>1 DEF SharedRight, EmitsGreedy, OwnRow, CacheRight, KeysRight, Running, Verified,
              DeviceLen, Ahead, Keyed
<1>4. RecRight => RecRight'
  BY <1>1 DEF RecRight, Running, Verified, DeviceLen, Ahead, Keyed
<1>5. CompRight => CompRight'
  BY <1>1 DEF CompRight, Running, Verified, DeviceLen, Ahead, Keyed, RowAt, HasPages, CarryAt,
              BlocksOf
<1>6. QED
  BY <1>1, <1>2, <1>3, <1>4, <1>5 DEF GreedyInv, MtpRight, DsRight

LEMMA GreedyNext ==
  ASSUME OneRow, GreedyInv, [Next]_vars
  PROVE  GreedyInv'
<1>1. DecodeInv'
  BY DecodeNext DEF GreedyInv
<1>2. CASE UNCHANGED vars
  BY <1>2, GreedyStutters
<1>3. ASSUME NEW r \in Reqs, Prefill(r) \/ Depart(r) \/ Decode
      PROVE  GreedyInv'
  <2>1. CASE Glm
    <3>1. arch = "glm5_next" /\ arch' = "glm5_next"
      BY <2>1 DEF Glm
    <3>2. MtpPrefill(r) \/ MtpDepart(r) \/ MtpDecode
      BY <1>3, <3>1 DEF Prefill, Depart, Decode, Dsv
    <3>3. MtpRight'
      BY <3>1, <3>2, MtpNext DEF GreedyInv
    <3>4. QED
      BY <1>1, <3>1, <3>3 DEF GreedyInv
  <2>2. CASE Dsv
    <3>1. arch = "deepseek_v4" /\ arch' = "deepseek_v4"
      BY <2>2 DEF Dsv
    <3>2. DsPrefill(r) \/ DsDepart(r) \/ DsDecode
      BY <1>3, <3>1 DEF Prefill, Depart, Decode, Glm
    <3>3. DsRight'
      BY <3>1, <3>2, DsNext DEF GreedyInv
    <3>4. QED
      BY <1>1, <3>1, <3>3 DEF GreedyInv
  <2>3. QED
    BY <1>3, <2>1, <2>2 DEF Prefill, Depart, Decode
<1>4. CASE Decode
  <2>1. \E r \in Reqs : TRUE
    BY <1>4 DEF Decode, MtpDecode, DsDecode, Batch, Running
  <2>2. QED
    BY <1>3, <1>4, <2>1
<1>5. QED
  BY <1>2, <1>3, <1>4 DEF Next

LEMMA GreedyAlways == ASSUME OneRow PROVE Spec => []GreedyInv
  BY GreedyInitial, GreedyNext, PTL DEF Spec

(* The invariant says what is emitted.                                      *)
LEMMA GreedyEmits == GreedyInv => EmitsGreedy
  BY DEF GreedyInv, MtpRight, DsRight, SharedRight

(* Every token a request has been given is the one greedy decoding gives at *)
(* its place: no draft that was not verified, no token of another request,  *)
(* none twice, for every number of drafts, positions and requests.          *)
THEOREM GreedyOnly == ASSUME OneRow PROVE Spec => []EmitsGreedy
  BY GreedyAlways, GreedyEmits, PTL

(* What the recurrent layers, the compressors and the paged keys hold of a  *)
(* running request between steps is its verified prefix: no rejected draft  *)
(* in them, nothing absorbed or pooled twice, nothing of the row's previous *)
(* request.                                                                 *)
THEOREM PrefixesInStep == ASSUME OneRow PROVE Spec => []PrefixInStep
<1>1. MtpRight => StateInStep
  BY DEF MtpRight, SharedRight, KeysRight, RecRight, Verified, StateInStep
<1>2. ASSUME DecodeInv, DsRight
      PROVE  CarryInStep
  <2>1. SUFFICES ASSUME NEW r \in Running
                 PROVE  LET n == DeviceLen(r) - 1 + Ahead(r)
                            row == comp[table[r]]
                        IN  /\ CarryAt(row, n) = Chain(EmptyRegister, 0, Truth(r, n))[n]
                            /\ \A i \in 0..(n - 1) : kv[table[r]][i] = Tok(r, i + 1)
                            /\ \A j \in Blocks : (j + 1) * Ratio <= n =>
                                 row.cmp[j] = <<TrueHalf(r, j - 1), TrueHalf(r, j)>>
    BY DEF CarryInStep
  <2>2. PICK n : n = Verified(r)
    OBVIOUS
  <2>3. r \in Reqs /\ n \in Nat /\ RowAt(comp[table[r]], r, n)
    <3>1. r \in Reqs /\ DeviceLen(r) \in Nat /\ Ahead(r) \in Nat /\ Verified(r) >= 1
      <4>1. EngineTypes /\ r \in Reqs /\ Verified(r) >= 1
        BY <1>2 DEF Running, DecodeInv, EngineInv, DsRight, CompRight
      <4>2. DeviceLen(r) \in Nat
        BY <4>1, LenProperties DEF EngineTypes, DeviceLen
      <4>3. QED
        BY <4>1, <4>2, AheadIs
    <3>2. RowAt(comp[table[r]], r, n)
      BY <1>2, <2>2 DEF DsRight, CompRight
    <3>3. QED
      BY <2>2, <3>1, <3>2 DEF Verified
  <2>4. Chain(EmptyRegister, 0, Truth(r, n))[n] = RegisterOf(r, n)
    <3>1. PICK z \in Nat : z = 0
      OBVIOUS
    <3> DEFINE toks == Truth(r, n)
    <3>2. Len(toks) = n /\ NextOnes(toks, r, z, n)
      <4>1. Len(Truth(r, n)) = n /\ \A i \in 1..n : Truth(r, n)[i] = Tok(r, i)
        BY <2>3, TruthIs
      <4>2. QED
        BY <3>1, <4>1 DEF NextOnes
    <3> HIDE DEF toks
    <3>3. n \in 0..n /\ z + n = n
      BY <2>3, <3>1
    <3>4. \A i \in 0..n : Chain(RegisterOf(r, z), z, toks)[i] = RegisterOf(r, z + i)
      BY <2>3, <3>2, <3>3, ChainRight
    <3>5. Chain(RegisterOf(r, z), z, toks)[n] = RegisterOf(r, n)
      BY <3>3, <3>4
    <3>6. QED
      BY <3>1, <3>5, EmptyIs DEF toks
  <2>5. \A i \in 0..(n - 1) : kv[table[r]][i] = Tok(r, i + 1)
    BY <1>2, <2>2 DEF DsRight, SharedRight, KeysRight
  <2>6. QED
    BY <2>2, <2>3, <2>4, <2>5 DEF RowAt, BlocksOf, Verified
<1>3. GreedyInv => PrefixInStep
  BY <1>1, <1>2 DEF GreedyInv, PrefixInStep
<1>4. QED
  BY <1>3, GreedyAlways, PTL

-----------------------------------------------------------------------------
(* The engine implements greedy decoding, one token per request and step.   *)
LEMMA EmitsOne ==
  ASSUME EngineTypes, EngineTypes', EmitsGreedy, EmitsGreedy', NEW S \in SUBSET Reqs, S # {},
         \A r \in S : /\ phase[r] # "over" /\ phase'[r] # "over"
                      /\ Len(seq[r]) < MaxLen /\ Len(seq'[r]) = Len(seq[r]) + 1,
         \A r \in Reqs \ S : seq'[r] = seq[r] /\ phase'[r] = phase[r]
  PROVE  Promise!Next
<1>1. ASSUME NEW r \in S
      PROVE  seq'[r] = Append(seq[r], Promise!Tok(r, Len(seq[r]) + 1))
  <2>1. r \in Reqs /\ Len(seq[r]) \in Nat
    BY DEF EngineTypes
  <2>2. PICK n \in Nat : n = Len(seq[r])
    BY <2>1
  <2>3. seq[r] = Truth(r, n) /\ seq'[r] = Truth(r, n + 1)
    BY <2>1, <2>2 DEF EmitsGreedy, DeviceLen
  <2>4. Append(Truth(r, n), Tok(r, n + 1)) = Truth(r, n + 1)
    BY <2>1, TruthIs
  <2>5. QED
    BY <2>2, <2>3, <2>4 DEF Tok, Promise!Tok
<1>2. seq' = [r \in Reqs |-> IF r \in S THEN Append(seq[r], Promise!Tok(r, Len(seq[r]) + 1))
                                       ELSE seq[r]]
  BY <1>1 DEF EngineTypes
<1>3. \A r \in S : Promise!Open(r)
  BY DEF Promise!Open
<1>4. {r \in Reqs : phase'[r] = "over" /\ Len(seq'[r]) < MaxLen} =
        {r \in Reqs : phase[r] = "over" /\ Len(seq[r]) < MaxLen}
  OBVIOUS
<1>5. Promise!Emit(S)
  BY <1>2, <1>3, <1>4 DEF Promise!Emit
<1>6. QED
  BY <1>5 DEF Promise!Next

(* One token more.                                                          *)
LEMMA LongerByOne ==
  ASSUME NEW s \in Seq(Tokens), NEW x
  PROVE  Len(Append(s, x)) = Len(s) + 1
<1>1. s \in Seq(Tokens \cup {x})
  BY SeqMonotonic
<1>2. QED
  BY <1>1, AppendProperties

(* A decode step, whatever it runs, gives each request of its batch one.    *)
Appends == \A r \in Reqs : IF r \in Batch THEN \E x : seq'[r] = Append(seq[r], x)
                                          ELSE seq'[r] = seq[r]
LEMMA DecodeAppends ==
  ASSUME EngineTypes, MtpDecode \/ DsDecode
  PROVE  Appends /\ phase' = phase /\ Batch # {}
<1>1. phase' = phase /\ Batch # {} /\ Batch \subseteq Reqs
  BY DEF MtpDecode, DsDecode, Batch, Running
<1>2. ASSUME NEW next, Emitted(Batch, next)
      PROVE  Appends
  BY <1>2 DEF Emitted, Appends
<1>3. ASSUME NEW r \in Batch, Batch = {r}, NEW x, seq' = [seq EXCEPT ![r] = Append(@, x)]
      PROVE  Appends
  BY <1>1, <1>3 DEF EngineTypes, Appends
<1>4. ASSUME NEW r \in Batch, Batch = {r}, Pop(r)
      PROVE  Appends
  BY <1>3, <1>4 DEF Pop
<1>5. ASSUME NEW r \in Batch, Batch = {r}, NEW n, NEW emitted, RoundDone(r, n, emitted)
      PROVE  Appends
  BY <1>3, <1>5 DEF RoundDone
<1>6. CASE MtpDecode
  <2>1. PICK a \in Allocated(Batch) :
          \/ PlainStep(Batch)
          \/ \E r \in Batch : Batch = {r} /\ (BootStep(r, a) \/ PopStep(r) \/ RoundStep(r, a))
    BY <1>6 DEF MtpDecode
  <2>2. CASE PlainStep(Batch)
    <3>1. \E next : Emitted(Batch, next)
      BY <2>2 DEF PlainStep, Forward
    <3>2. QED
      BY <1>1, <1>2, <3>1
  <2>3. ASSUME NEW r \in Batch, Batch = {r}, BootStep(r, a)
        PROVE  Appends
    <3>1. \E next : Emitted(Batch, next)
      BY <2>3 DEF BootStep, Forward
    <3>2. QED
      BY <1>2, <3>1
  <2>4. ASSUME NEW r \in Batch, Batch = {r}, PopStep(r)
        PROVE  Appends
    BY <1>4, <2>4 DEF PopStep
  <2>5. ASSUME NEW r \in Batch, Batch = {r}, RoundStep(r, a)
        PROVE  Appends
    <3>1. \E n, emitted : RoundDone(r, n, emitted)
      BY <2>5, ZenonT(60) DEF RoundStep
    <3>2. QED
      BY <1>5, <2>5, <3>1
  <2>6. QED
    BY <1>1, <2>1, <2>2, <2>3, <2>4, <2>5
<1>7. CASE DsDecode
  <2>1. PICK a \in Allocated(Batch) :
          \/ DsPlainStep(Batch)
          \/ \E r \in Batch : /\ Batch = {r}
                              /\ DsBootStep(r, a) \/ DsPopStep(r) \/ DsRoundStep(r, a)
    BY <1>7 DEF DsDecode
  <2>2. CASE DsPlainStep(Batch)
    <3>1. \E next : Emitted(Batch, next)
      BY <2>2 DEF DsPlainStep, DsForward
    <3>2. QED
      BY <1>1, <1>2, <3>1
  <2>3. ASSUME NEW r \in Batch, Batch = {r}, DsBootStep(r, a)
        PROVE  Appends
    <3>1. \E next : Emitted(Batch, next)
      BY <2>3 DEF DsBootStep, DsForward
    <3>2. QED
      BY <1>2, <3>1
  <2>4. ASSUME NEW r \in Batch, Batch = {r}, DsPopStep(r)
        PROVE  Appends
    BY <1>4, <2>4 DEF DsPopStep
  <2>5. ASSUME NEW r \in Batch, Batch = {r}, DsRoundStep(r, a)
        PROVE  Appends
    <3>1. \E n, emitted : RoundDone(r, n, emitted)
      <4>1. DsRoundStep(r, a) => \E n, emitted : RoundDone(r, n, emitted)
        BY ZenonT(60) DEF DsRoundStep
      <4>2. QED
        BY <2>5, <4>1
    <3>2. QED
      BY <1>5, <2>5, <3>1
  <2>6. QED
    BY <1>1, <2>1, <2>2, <2>3, <2>4, <2>5
<1>8. QED
  BY <1>1, <1>6, <1>7

(* A prefill is an Emit of its request.                                     *)
LEMMA PrefillImplements ==
  ASSUME DecodeInv, DecodeInv', EmitsGreedy, EmitsGreedy', NEW r \in Reqs,
         phase[r] = "waiting", NEW s, NEW first, Admit(r, s, first)
  PROVE  Promise!Next
<1> USE SpecAssumption
<1>1. EngineTypes /\ EngineTypes' /\ Seated
  BY DEF DecodeInv, EngineInv
<1>2. /\ seq' = [seq EXCEPT ![r] = Append(@, first)]
      /\ phase' = [phase EXCEPT ![r] = "running"]
  BY DEF Admit
<1>3. seq[r] \in Seq(Tokens) /\ Len(seq[r]) = PromptLen
  <2>1. Len(Truth(r, PromptLen)) = PromptLen
    BY TruthIs
  <2>2. QED
    BY <1>1, <2>1 DEF EngineTypes, Seated
<1>4. phase'[r] = "running" /\ Len(seq'[r]) = Len(seq[r]) + 1 /\ Len(seq[r]) < MaxLen
  BY <1>1, <1>2, <1>3, LongerByOne DEF EngineTypes
<1>5. \A q \in Reqs \ {r} : seq'[q] = seq[q] /\ phase'[q] = phase[q]
  BY <1>1, <1>2 DEF EngineTypes
<1>6. {r} \in SUBSET Reqs /\ {r} # {} /\ \A q \in {r} : q = r
  OBVIOUS
<1>7. \A q \in {r} : /\ phase[q] # "over" /\ phase'[q] # "over"
                     /\ Len(seq[q]) < MaxLen /\ Len(seq'[q]) = Len(seq[q]) + 1
  BY <1>4
<1>8. PICK S \in SUBSET Reqs : S = {r}
  OBVIOUS
<1>9. QED
  BY <1>1, <1>5, <1>7, <1>8, EmitsOne

(* A decode step is an Emit of its batch.                                   *)
LEMMA DecodeImplements ==
  ASSUME DecodeInv, DecodeInv', EmitsGreedy, EmitsGreedy', MtpDecode \/ DsDecode
  PROVE  Promise!Next
<1>1. EngineTypes /\ EngineTypes' /\ EngineInv
  BY DEF DecodeInv, EngineInv
<1>2. Appends /\ phase' = phase /\ Batch # {}
  BY <1>1, DecodeAppends
<1>3. Batch \in SUBSET Reqs
  BY DEF Batch, Running
<1>4. ASSUME NEW r \in Batch
      PROVE  /\ phase[r] # "over" /\ phase'[r] # "over"
             /\ Len(seq[r]) < MaxLen /\ Len(seq'[r]) = Len(seq[r]) + 1
  <2>1. r \in Reqs /\ seq[r] \in Seq(Tokens)
    BY <1>1, <1>3 DEF EngineTypes
  <2>2. PICK x : seq'[r] = Append(seq[r], x)
    BY <1>2, <2>1 DEF Appends
  <2>3. phase[r] = "running" /\ DeviceLen(r) < MaxLen
    BY <1>1, BatchIs
  <2>4. QED
    BY <1>2, <2>1, <2>2, <2>3, LongerByOne DEF DeviceLen
<1>5. \A r \in Reqs \ Batch : seq'[r] = seq[r] /\ phase'[r] = phase[r]
  BY <1>2 DEF Appends
<1>6. PICK S \in SUBSET Reqs : S = Batch
  BY <1>3
<1>7. QED
  BY <1>1, <1>2, <1>4, <1>5, <1>6, EmitsOne

(* A request that leaves at its budget is served, another one is cancelled. *)
LEMMA DepartImplements ==
  ASSUME DecodeInv, NEW r \in Reqs, Finish(r) \/ Stop(r)
  PROVE  [Promise!Next]_<<seq, {q \in Reqs : phase[q] = "over" /\ Len(seq[q]) < MaxLen}>>
<1> USE SpecAssumption
<1> DEFINE over == {q \in Reqs : phase[q] = "over" /\ Len(seq[q]) < MaxLen}
<1>1. /\ seq' = seq /\ phase[r] = "running" /\ phase' = [phase EXCEPT ![r] = "over"]
      /\ phase \in [Reqs -> {"waiting", "running", "over"}]
      /\ Len(seq[r]) \in Nat
  <2>1. EngineTypes
    BY DEF DecodeInv, EngineInv
  <2>2. QED
    BY <2>1, LenProperties DEF Finish, Stop, Leave, EngineTypes
<1>2. CASE Finish(r)
  <2>1. ~(Len(seq[r]) < MaxLen)
    BY <1>1, <1>2 DEF Finish, CanDecode, RemainLen, DeviceLen
  <2>2. over' = over
    BY <1>1, <2>1
  <2>3. QED
    BY <1>1, <2>2
<1>3. CASE Stop(r)
  <2>1. Len(seq[r]) < MaxLen
    BY <1>1, <1>3 DEF Stop, CanDecode, RemainLen, DeviceLen
  <2>2. over' = over \cup {r}
    BY <1>1, <2>1
  <2>3. Promise!Open(r)
    BY <1>1, <2>1 DEF Promise!Open
  <2>4. Promise!Cancel(r)
    BY <1>1, <2>2, <2>3 DEF Promise!Cancel
  <2>5. QED
    BY <2>4 DEF Promise!Next
<1>4. QED
  BY <1>2, <1>3

(* Every step is one of the abstract ones, or none.                         *)
LEMMA StepImplements ==
  ASSUME GreedyInv, GreedyInv', [Next]_vars
  PROVE  [Promise!Next]_<<seq, {r \in Reqs : phase[r] = "over" /\ Len(seq[r]) < MaxLen}>>
<1>1. DecodeInv /\ DecodeInv' /\ EmitsGreedy /\ EmitsGreedy'
  BY GreedyEmits DEF GreedyInv, MtpRight, DsRight, SharedRight
<1>2. ASSUME NEW q \in Reqs, Prefill(q)
      PROVE  Promise!Next
  <2>1. phase[q] = "waiting" /\ \E s, first : Admit(q, s, first)
    BY <1>2, Zenon DEF Prefill, MtpPrefill, DsPrefill
  <2>2. QED
    BY <1>1, <2>1, PrefillImplements
<1>3. ASSUME NEW q \in Reqs, Depart(q)
      PROVE  [Promise!Next]_<<seq, {r \in Reqs : phase[r] = "over" /\ Len(seq[r]) < MaxLen}>>
  BY <1>1, <1>3, DepartImplements DEF Depart, MtpDepart, DsDepart
<1>4. CASE Decode
  BY <1>1, <1>4, DecodeImplements DEF Decode
<1>5. CASE UNCHANGED vars
  BY <1>5 DEF vars, engineVars
<1>6. QED
  BY <1>2, <1>3, <1>4, <1>5 DEF Next

(* The engine implements GreedyDecode: every prefill, pop, round, forward   *)
(* and finish is one of its steps or none of them.                          *)
THEOREM ImplementsGreedy == ASSUME OneRow PROVE Spec => Promise!Spec
<1>1. Init => Promise!Init
  <2> SUFFICES ASSUME EngineInit
               PROVE  Promise!Init
    BY DEF Init, MtpInit
  <2>2. {r \in Reqs : phase[r] = "over" /\ Len(seq[r]) < MaxLen} = {}
    BY DEF EngineInit
  <2>3. seq = [r \in Reqs |-> Promise!Truth(r, PromptLen)]
    BY DEF EngineInit, Truth, Tok, Promise!Truth, Promise!Tok
  <2>4. QED
    BY <2>2, <2>3 DEF Promise!Init
<1>2. GreedyInv /\ GreedyInv' /\ [Next]_vars =>
        [Promise!Next]_<<seq, {r \in Reqs : phase[r] = "over" /\ Len(seq[r]) < MaxLen}>>
  BY StepImplements
<1>3. Spec => /\ Promise!Init
              /\ [][Promise!Next]_<<seq, {r \in Reqs : phase[r] = "over" /\ Len(seq[r]) < MaxLen}>>
  BY <1>1, <1>2, GreedyAlways, PTL DEF Spec
<1>4. QED
  BY <1>3, PTL DEF Promise!Spec
=============================================================================
