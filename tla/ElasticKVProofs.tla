-------------------------- MODULE ElasticKVProofs ---------------------------
(* Proofs about ElasticKV, on top of those about the pages of PagedAlloc.   *)
EXTENDS ElasticKV, PagedAllocProofs

(* The pool and the request lengths are finite numbers: no growth or shrink *)
(* depends on more than that.                                               *)
SizesInv ==
  /\ IsFiniteSet(free) /\ IsFiniteSet(DOMAIN tree)
  /\ cached \in [Reqs -> Nat] /\ dev \in [Reqs -> Nat]
  /\ alloc \in [Reqs -> Nat] /\ handle \in [Reqs -> Nat]

(* c: the chunks mapped at each number of steps on the way to s steps, ch   *)
(* chunks and the stack re.                                                 *)
Paid(c, s, ch, re) ==
  /\ s \in 1 .. StepsMax
  /\ re \in Seq(Nat) /\ Len(re) = s - 1
  /\ c \in [0 .. (s - 1) -> MinChunks .. AllChunks]
  /\ c[0] = AllChunks /\ c[s - 1] = ch
  /\ \A i \in 1 .. (s - 1) : c[i] = c[i - 1] - re[i]
  /\ \A i \in 0 .. (s - 1) : i * StepBytes <= Freed(AllChunks, AllChunks - c[i])
StackInv == \E c : Paid(c, steps, chunks, retired)

-----------------------------------------------------------------------------
(* Induction up to a number.                                                *)

LEMMA CountUp ==
  ASSUME NEW T, NEW k \in Nat, 0 \in T, \A n \in 0 .. (k - 1) : n \in T => n + 1 \in T
  PROVE  k \in T
<1> SUFFICES ASSUME k \notin T
             PROVE  FALSE
  OBVIOUS
<1> DEFINE U == {n \in 0 .. k : n \notin T}
<1>1. U \in SUBSET Nat /\ U # {}
  OBVIOUS
<1>2. PICK n \in U : \A m \in U : n <= m
  <2> HIDE DEF U
  <2>1. QED
    BY <1>1, NatLeast
<1>3. n # 0 /\ n - 1 \in 0 .. (k - 1) /\ n - 1 \notin U
  BY <1>2
<1>4. QED
  BY <1>2, <1>3

-----------------------------------------------------------------------------
(* Growing by one step.                                                     *)

LEMMA ChunksAre ==
  /\ Step \in Nat /\ Step > 0 /\ StepsMax \in Nat /\ StepsMax > 0
  /\ AllChunks \in Nat /\ MinChunks \in 0 .. AllChunks /\ StepBytes \in Nat /\ StepBytes > 0
  /\ ChunkBytes \in Nat /\ ChunkBytes > 0 /\ TopBytes \in 1 .. ChunkBytes
BY ElasticAssumption

(* What the retired chunks hold pays for the steps: those of one more step  *)
(* come on top of those of the steps before.                                *)
LEMMA FreedAdds ==
  ASSUME NEW n \in 0 .. AllChunks, NEW k \in 1 .. n, NEW b \in Nat, NEW e \in Nat,
         b <= Freed(AllChunks, AllChunks - n), e <= Freed(n, k), (n = AllChunks => b = 0)
  PROVE  b + e <= Freed(AllChunks, AllChunks - (n - k))
<1>1. /\ AllChunks \in Nat /\ ChunkBytes \in Nat /\ TopBytes \in 1 .. ChunkBytes
  BY ChunksAre
<1>2. PICK m \in Nat : m = AllChunks - n /\ AllChunks - (n - k) = m + k
  BY <1>1
<1>3. PICK x \in Int, y \in Int, z \in Int :
        x = m * ChunkBytes /\ y = k * ChunkBytes /\ z = (m + k) * ChunkBytes
  BY <1>1
<1>4. z = x + y
  BY <1>1, <1>3
<1>5. PICK p \in Nat : p = ChunkBytes - TopBytes
  BY <1>1
<1>6. Freed(AllChunks, m + k) = z - p
  BY <1>1, <1>3, <1>5 DEF Freed
<1>7. Freed(n, k) = y - (IF n = AllChunks THEN p ELSE 0)
  BY <1>3, <1>5 DEF Freed
<1>8. CASE n = AllChunks
  <2>1. m = 0 /\ x = 0 /\ b = 0
    BY <1>1, <1>2, <1>3, <1>8
  <2>2. QED
    BY <1>2, <1>4, <1>6, <1>7, <1>8, <2>1
<1>9. CASE n # AllChunks
  <2>1. m > 0
    BY <1>1, <1>2, <1>9
  <2>2. Freed(AllChunks, m) = x - p
    BY <1>3, <1>5, <2>1 DEF Freed
  <2>3. b <= x - p /\ e <= y
    BY <1>2, <1>7, <1>9, <2>2
  <2>4. QED
    BY <1>2, <1>4, <1>5, <1>6, <2>3
<1>10. QED
  BY <1>8, <1>9

(* The chunks retired are those that pay for one step, when there are any.  *)
LEMMA RetireIs ==
  ASSUME NEW n \in MinChunks .. AllChunks, Retirable(n) # {}
  PROVE  /\ Retire(n) \in 1 .. n /\ n - Retire(n) >= MinChunks
         /\ StepBytes <= Freed(n, Retire(n))
<1>1. n \in Nat
  BY ChunksAre
<1>2. Retirable(n) \in SUBSET Nat
  BY <1>1 DEF Retirable
<1>3. \E k \in Retirable(n) : \A j \in Retirable(n) : k <= j
  BY <1>2, NatLeast
<1>4. Retire(n) \in Retirable(n)
  BY <1>3, Zenon DEF Retire
<1>5. /\ Retire(n) \in 1 .. n /\ n - Retire(n) >= MinChunks
      /\ Freed(n, Retire(n)) >= StepBytes
  BY <1>4, Zenon DEF Retirable
<1>6. Freed(n, Retire(n)) \in Int
  BY <1>1, <1>5, ChunksAre DEF Freed
<1>7. QED
  BY <1>5, <1>6, ChunksAre

LEMMA PaidGrow ==
  ASSUME NEW c, NEW s, NEW ch, NEW re, Paid(c, s, ch, re), s < StepsMax, Retirable(ch) # {}
  PROVE  \E c2 : Paid(c2, s + 1, ch - Retire(ch), Append(re, Retire(ch)))
<1>1. /\ s \in 1 .. StepsMax /\ re \in Seq(Nat) /\ Len(re) = s - 1
      /\ c \in [0 .. (s - 1) -> MinChunks .. AllChunks]
      /\ c[0] = AllChunks /\ c[s - 1] = ch
      /\ \A i \in 1 .. (s - 1) : c[i] = c[i - 1] - re[i]
      /\ \A i \in 0 .. (s - 1) : i * StepBytes <= Freed(AllChunks, AllChunks - c[i])
  BY Zenon DEF Paid
<1>2. /\ StepsMax \in Nat /\ s \in Nat /\ s >= 1 /\ AllChunks \in Nat /\ StepBytes \in Nat
      /\ MinChunks \in 0 .. AllChunks /\ StepBytes > 0
  BY <1>1, ChunksAre
<1>3. PICK t \in Nat : t = s - 1 /\ t + 1 = s
  BY <1>2
<1>4. ch \in MinChunks .. AllChunks
  BY <1>1, <1>3
<1>5. PICK k \in 1 .. ch : k = Retire(ch) /\ ch - k >= MinChunks /\ StepBytes <= Freed(ch, k)
  BY <1>4, RetireIs
<1>6. PICK d \in MinChunks .. AllChunks : d = ch - k
  BY <1>2, <1>4, <1>5
<1> DEFINE c2 == [i \in 0 .. s |-> IF i = s THEN d ELSE c[i]]
<1>7. /\ c2[s] = d /\ \A i \in 0 .. t : c2[i] = c[i]
      /\ c2 \in [0 .. s -> MinChunks .. AllChunks]
  <2>1. \A i \in 0 .. t : i \in 0 .. s /\ i # s
    BY <1>3
  <2>2. \A i \in 0 .. s : i # s => i \in 0 .. t
    BY <1>3
  <2>3. \A i \in 0 .. t : c[i] \in MinChunks .. AllChunks
    BY <1>1, <1>3
  <2>4. s \in 0 .. s
    BY <1>2
  <2>5. QED
    BY <2>1, <2>2, <2>3, <2>4
<1> HIDE DEF c2
<1>8. /\ Append(re, k) \in Seq(Nat) /\ Len(Append(re, k)) = s
      /\ Append(re, k)[s] = k /\ \A i \in 1 .. t : Append(re, k)[i] = re[i]
  BY <1>1, <1>3, <1>4, <1>5
<1>9. ASSUME NEW i \in 1 .. s
      PROVE  c2[i] = c2[i - 1] - Append(re, k)[i]
  <2>1. CASE i = s
    <3>1. i - 1 = t /\ t \in 0 .. t
      BY <1>3, <2>1
    <3>2. c2[i - 1] = ch
      BY <1>1, <1>3, <1>7, <3>1
    <3>3. QED
      BY <1>6, <1>7, <1>8, <2>1, <3>2
  <2>2. CASE i # s
    <3>1. i \in 1 .. t /\ i \in 0 .. t /\ i - 1 \in 0 .. t
      BY <1>3, <2>2
    <3>2. QED
      BY <1>1, <1>3, <1>7, <1>8, <3>1
  <2>3. QED
    BY <2>1, <2>2
<1>10. ASSUME NEW i \in 0 .. s
       PROVE  i * StepBytes <= Freed(AllChunks, AllChunks - c2[i])
  <2>1. CASE i = s
    <3>1. PICK b \in Nat : b = t * StepBytes /\ s * StepBytes = b + StepBytes
      BY <1>2, <1>3
    <3>2. b <= Freed(AllChunks, AllChunks - ch)
      BY <1>1, <1>3, <3>1
    <3>3. ch = AllChunks => b = 0
      <4>1. ASSUME ch = AllChunks
            PROVE  b <= 0
        <5>1. Freed(AllChunks, 0) = 0
          BY ChunksAre DEF Freed
        <5>2. AllChunks - ch = 0
          BY <1>2, <4>1
        <5>3. QED
          BY <3>2, <5>1, <5>2
      <4>2. QED
        BY <4>1
    <3>4. ch \in 0 .. AllChunks
      BY <1>2, <1>4
    <3>5. b + StepBytes <= Freed(AllChunks, AllChunks - (ch - k))
      BY <1>2, <1>5, <3>2, <3>3, <3>4, FreedAdds
    <3>6. QED
      BY <1>6, <1>7, <2>1, <3>1, <3>5
  <2>2. CASE i # s
    <3>1. i \in 0 .. t /\ i \in 0 .. (s - 1)
      BY <1>3, <2>2
    <3>2. QED
      BY <1>1, <1>7, <3>1
  <2>3. QED
    BY <2>1, <2>2
<1>11. /\ s + 1 \in 1 .. StepsMax /\ (s + 1) - 1 = s
       /\ c2[0] = AllChunks
  BY <1>1, <1>2, <1>3, <1>7
<1>12. Paid(c2, s + 1, d, Append(re, k))
  BY <1>7, <1>8, <1>9, <1>10, <1>11 DEF Paid
<1>13. QED
  BY <1>5, <1>6, <1>12

(* The last step gives back the chunks it was paid with.                    *)
LEMMA PaidShrink ==
  ASSUME NEW c, NEW s, NEW ch, NEW re, Paid(c, s, ch, re), s > 1
  PROVE  \E c2 : Paid(c2, s - 1, ch + re[Len(re)], SubSeq(re, 1, Len(re) - 1))
<1>1. /\ s \in 1 .. StepsMax /\ re \in Seq(Nat) /\ Len(re) = s - 1
      /\ c \in [0 .. (s - 1) -> MinChunks .. AllChunks]
      /\ c[0] = AllChunks /\ c[s - 1] = ch
      /\ \A i \in 1 .. (s - 1) : c[i] = c[i - 1] - re[i]
      /\ \A i \in 0 .. (s - 1) : i * StepBytes <= Freed(AllChunks, AllChunks - c[i])
  BY Zenon DEF Paid
<1>2. StepsMax \in Nat /\ AllChunks \in Nat /\ MinChunks \in Nat
  BY ChunksAre
<1>3. PICK t \in Nat : s = t + 2 /\ s - 1 = t + 1 /\ (s - 1) - 1 = t
  <2>1. s - 2 \in Nat /\ s = (s - 2) + 2
    BY <1>1, <1>2
  <2>2. QED
    BY <2>1
<1> DEFINE c2 == [i \in 0 .. t |-> c[i]]
<1>4. \A i \in 0 .. t : c2[i] = c[i] /\ i \in 0 .. (t + 1)
  OBVIOUS
<1>5. c2 \in [0 .. t -> MinChunks .. AllChunks]
  <2>1. c \in [0 .. (t + 1) -> MinChunks .. AllChunks]
    BY <1>1, <1>3
  <2>2. \A i \in 0 .. t : c[i] \in MinChunks .. AllChunks
    BY <1>4, <2>1
  <2>3. QED
    BY <2>2
<1> HIDE DEF c2
<1>6. /\ SubSeq(re, 1, t) \in Seq(Nat) /\ Len(SubSeq(re, 1, t)) = t
      /\ \A i \in 1 .. t : SubSeq(re, 1, t)[i] = re[i]
  <2>1. Len(re) = t + 1 /\ t \in 0 .. Len(re)
    BY <1>1, <1>3
  <2>2. re \in Seq(Nat)
    BY <1>1
  <2>3. QED
    BY <2>1, <2>2
<1>7. c[t] = ch + re[t + 1]
  <2>1. t + 1 \in 1 .. (t + 1) /\ (t + 1) - 1 = t /\ t \in 0 .. (t + 1)
    OBVIOUS
  <2>2. ch = c[t] - re[t + 1]
    BY <1>1, <1>3, <2>1
  <2>3. c[t] \in Nat /\ re[t + 1] \in Nat
    <3>1. c[t] \in MinChunks .. AllChunks
      BY <1>1, <1>3, <2>1
    <3>2. Len(re) = t + 1
      BY <1>1, <1>3
    <3>3. re[t + 1] \in Nat
      <4>1. t + 1 \in 1 .. Len(re) /\ re \in Seq(Nat)
        BY <1>1, <3>2
      <4>2. QED
        BY <4>1
    <3>4. QED
      BY <1>2, <3>1, <3>3
  <2>4. QED
    BY <2>2, <2>3
<1>8. ASSUME NEW i \in 1 .. t
      PROVE  c2[i] = c2[i - 1] - SubSeq(re, 1, t)[i]
  <2>1. i \in 0 .. t /\ i - 1 \in 0 .. t /\ i \in 1 .. (t + 1)
    OBVIOUS
  <2>2. QED
    BY <1>1, <1>3, <1>4, <1>6, <2>1
<1>9. ASSUME NEW i \in 0 .. t
      PROVE  i * StepBytes <= Freed(AllChunks, AllChunks - c2[i])
  BY <1>1, <1>3, <1>4
<1>10. Paid(c2, t + 1, c[t], SubSeq(re, 1, t))
  <2>1. t + 1 \in 1 .. StepsMax /\ (t + 1) - 1 = t /\ c2[t] = c[t] /\ c2[0] = AllChunks
    <3>1. t + 1 \in 1 .. StepsMax /\ (t + 1) - 1 = t
      <4>1. s \in Nat /\ s <= StepsMax
        BY <1>1, <1>2
      <4>2. QED
        BY <1>2, <1>3, <4>1
    <3>2. t \in 0 .. t /\ 0 \in 0 .. t
      OBVIOUS
    <3>3. c2[t] = c[t] /\ c2[0] = c[0]
      BY <1>4, <3>2
    <3>4. QED
      BY <1>1, <3>1, <3>3
  <2>2. QED
    BY <1>5, <1>6, <1>8, <1>9, <2>1 DEF Paid
<1>11. Len(re) = t + 1 /\ Len(re) - 1 = t
  BY <1>1, <1>3
<1>12. QED
  BY <1>3, <1>7, <1>10, <1>11

-----------------------------------------------------------------------------
(* Growing by several steps.                                                *)

(* Grown is what its recursion says.  A recursive function is a CHOOSE: that *)
(* there is one is shown by adding a step at a time.                        *)
Start  == [chunks |-> chunks, retired |-> retired]
OneMore(x) == [chunks |-> x.chunks - Retire(x.chunks),
               retired |-> Append(x.retired, Retire(x.chunks))]

LEMMA GrownIs ==
  /\ Grown[0] = Start
  /\ \A g \in 0 .. (StepsMax - 1) : Grown[g + 1] = OneMore(Grown[g])
<1>1. PICK n \in Nat : n = StepsMax
  BY ChunksAre
<1> DEFINE Val(h, g) == IF g = 0 THEN Start ELSE OneMore(h[g - 1])
           Upto(h, k) == h = [g \in 0 .. k |-> Val(h, g)]
           T == {k \in 0 .. n : \E h : Upto(h, k)}
<1> HIDE DEF Start, OneMore
<1>2. 0 \in T
  <2>1. Upto([g \in 0 .. 0 |-> Start], 0)
    OBVIOUS
  <2>2. 0 \in 0 .. n
    OBVIOUS
  <2> HIDE DEF Upto
  <2>3. QED
    BY <2>1, <2>2
<1>3. ASSUME NEW k \in 0 .. (n - 1), k \in T
      PROVE  k + 1 \in T
  <2>1. PICK h : h = [g \in 0 .. k |-> Val(h, g)]
    BY <1>3
  <2> DEFINE h2 == [g \in 0 .. (k + 1) |-> IF g \in 0 .. k THEN h[g] ELSE OneMore(h[k])]
  <2>2. \A g \in 0 .. (k + 1) : h2[g] = Val(h2, g)
    <3>1. ASSUME NEW g \in 0 .. k
          PROVE  h2[g] = Val(h2, g)
      <4>1. h2[g] = Val(h, g)
        BY <2>1
      <4>2. g # 0 => g - 1 \in 0 .. k /\ g - 1 \in 0 .. (k + 1)
        OBVIOUS
      <4>3. g # 0 => h2[g - 1] = h[g - 1]
        BY <4>2
      <4>4. QED
        BY <4>1, <4>3
    <3>2. h2[k + 1] = Val(h2, k + 1)
      <4>1. /\ k \in 0 .. (k + 1) /\ k + 1 \in 0 .. (k + 1) /\ k + 1 \notin 0 .. k
            /\ (k + 1) - 1 = k /\ k + 1 # 0
        OBVIOUS
      <4>2. h2[k + 1] = OneMore(h[k]) /\ h2[k] = h[k]
        BY <4>1
      <4>3. QED
        BY <4>1, <4>2
    <3>3. \A g \in 0 .. (k + 1) : g \in 0 .. k \/ g = k + 1
      OBVIOUS
    <3> HIDE DEF h2, Val
    <3>4. QED
      BY <3>1, <3>2, <3>3
  <2>3. h2 = [g \in 0 .. (k + 1) |-> h2[g]]
    OBVIOUS
  <2> HIDE DEF h2
  <2>4. h2 = [g \in 0 .. (k + 1) |-> Val(h2, g)]
    BY <2>2, <2>3
  <2>5. k + 1 \in 0 .. n
    OBVIOUS
  <2>6. QED
    BY <2>4, <2>5
<1>4. n \in T
  <2> HIDE DEF T
  <2>1. \A k \in 0 .. (n - 1) : k \in T => k + 1 \in T
    BY <1>3
  <2>2. QED
    BY <1>2, <2>1, CountUp
<1>5. PICK h : h = [g \in 0 .. n |-> Val(h, g)]
  BY <1>4
<1>6. Grown = CHOOSE h2 : h2 = [g \in 0 .. n |-> Val(h2, g)]
  BY <1>1 DEF Grown, Start, OneMore
<1>7. Grown = [g \in 0 .. n |-> Val(Grown, g)]
  BY <1>5, <1>6
<1>8. Grown[0] = Start
  <2>1. 0 \in 0 .. n
    OBVIOUS
  <2>2. QED
    BY <1>7, <2>1
<1>9. ASSUME NEW g \in 0 .. (n - 1)
      PROVE  Grown[g + 1] = OneMore(Grown[g])
  <2>1. g + 1 \in 0 .. n /\ g + 1 # 0 /\ (g + 1) - 1 = g
    OBVIOUS
  <2>2. QED
    BY <1>7, <2>1
<1>10. QED
  BY <1>1, <1>8, <1>9

(* Growing stops: the steps grown are no more than are left, each was paid  *)
(* for, and they suffice or there is no more to grow or to pay with.        *)
LEMMA GrowthIs ==
  ASSUME SizesInv, StackInv, NEW need, IsFiniteSet(need), NEW locked
  PROVE  /\ GrowthFor(need, locked) \in 0 .. (StepsMax - steps)
         /\ \A i \in 0 .. (GrowthFor(need, locked) - 1) : Retirable(Grown[i].chunks) # {}
         /\ \/ Cardinality(need) <= Cardinality(free) + Cardinality(DOMAIN tree \ locked)
                                     + GrowthFor(need, locked) * Step
            \/ GrowthFor(need, locked) = StepsMax - steps
            \/ Retirable(Grown[GrowthFor(need, locked)].chunks) = {}
<1>1. PICK s \in Nat, M \in Nat : s = steps /\ M = StepsMax - steps
  <2>1. steps \in 1 .. StepsMax
    BY DEF StackInv, Paid
  <2>2. QED
    BY <2>1, ChunksAre
<1>2. PICK n \in Nat : n = Cardinality(need)
  BY FS_CardinalityType
<1>3. PICK e \in Nat, x \in Nat :
        e = Cardinality(DOMAIN tree \ locked) /\ x = Cardinality(free)
  <2>1. IsFiniteSet(DOMAIN tree \ locked) /\ IsFiniteSet(free)
    BY FS_Difference DEF SizesInv
  <2>2. QED
    BY <2>1, FS_CardinalityType
<1> DEFINE Broke(g) == Retirable(Grown[g].chunks) = {}
           U == {g \in 0 .. M : n <= x + e + g * Step \/ g = M \/ Broke(g)}
<1>4. M \in U /\ U \in SUBSET Nat
  OBVIOUS
<1>5. PICK g \in U : \A i \in U : g <= i
  <2> HIDE DEF U
  <2>1. QED
    BY <1>4, NatLeast
<1>6. ASSUME NEW i \in 0 .. (g - 1)
      PROVE  n > x + e + i * Step /\ ~ Broke(i)
  <2>1. i \in 0 .. M /\ ~(g <= i) /\ i # M
    BY <1>5
  <2>2. i \notin U
    BY <1>5, <2>1
  <2>3. x + e + i * Step \in Int
    BY ChunksAre
  <2> HIDE DEF Broke
  <2>4. QED
    BY <2>1, <2>2, <2>3
<1>7. Growths(n, e) =
        {d \in 0 .. M : /\ \A i \in 0 .. d - 1 : n > x + e + i * Step /\ ~ Broke(i)
                        /\ n <= x + e + d * Step \/ d = M \/ Broke(d)}
  BY <1>1, <1>3, Zenon DEF Growths
<1>8. g \in Growths(n, e)
  <2> HIDE DEF Broke
  <2>1. g \in 0 .. M /\ (n <= x + e + g * Step \/ g = M \/ Broke(g))
    BY <1>5
  <2>2. QED
    BY <1>6, <1>7, <2>1
<1>9. GrowthFor(need, locked) = IF n <= x THEN 0 ELSE CHOOSE d \in Growths(n, e) : TRUE
  BY <1>2, <1>3 DEF GrowthFor
<1>10. PICK h : h = GrowthFor(need, locked)
  OBVIOUS
<1>11. /\ h \in 0 .. M
       /\ \A i \in 0 .. h - 1 : ~ Broke(i)
       /\ n <= x + e + h * Step \/ h = M \/ Broke(h)
  <2> HIDE DEF Broke
  <2>1. CASE n <= x
    <3>1. h = 0 /\ 0 * Step = 0
      BY <1>9, <1>10, <2>1, ChunksAre
    <3>2. QED
      BY <2>1, <3>1
  <2>2. CASE ~(n <= x)
    <3>1. h \in Growths(n, e)
      BY <1>8, <1>9, <1>10, <2>2
    <3>2. QED
      BY <1>7, <3>1
  <2>3. QED
    BY <2>1, <2>2
<1>12. QED
  BY <1>1, <1>2, <1>3, <1>10, <1>11, Zenon

(* Growing by steps that were paid for.                                     *)
LEMMA GrowStack ==
  ASSUME StackInv, NEW g \in 0 .. (StepsMax - steps), GrowBy(g),
         \A i \in 0 .. (g - 1) : Retirable(Grown[i].chunks) # {}
  PROVE  StackInv'
<1>1. PICK c0 : Paid(c0, steps, chunks, retired)
  BY DEF StackInv
<1>2. PICK s \in Nat : s = steps
  <2>1. steps \in 1 .. StepsMax
    BY <1>1 DEF Paid
  <2>2. QED
    BY <2>1, ChunksAre
<1>3. StepsMax \in Nat /\ g \in Nat /\ s + g <= StepsMax
  BY <1>2, ChunksAre
<1> DEFINE T == {i \in 0 .. g : \E c : Paid(c, s + i, Grown[i].chunks, Grown[i].retired)}
<1>4. 0 \in T
  <2>1. Grown[0].chunks = chunks /\ Grown[0].retired = retired /\ s + 0 = s /\ 0 \in 0 .. g
    BY <1>2, <1>3, GrownIs DEF Start
  <2>2. Paid(c0, s + 0, Grown[0].chunks, Grown[0].retired)
    BY <1>1, <1>2, <2>1
  <2>3. QED
    BY <2>1, <2>2
<1>5. ASSUME NEW i \in 0 .. (g - 1), i \in T
      PROVE  i + 1 \in T
  <2>1. PICK ch, re : ch = Grown[i].chunks /\ re = Grown[i].retired
    OBVIOUS
  <2>2. PICK c : Paid(c, s + i, ch, re)
    BY <1>5, <2>1
  <2>3. s + i < StepsMax /\ i \in 0 .. (StepsMax - 1) /\ s + (i + 1) = (s + i) + 1 /\ i + 1 \in 0 .. g
    <3>1. s >= 1
      <4>1. steps \in 1 .. StepsMax
        BY <1>1 DEF Paid
      <4>2. QED
        BY <1>2, <1>3, <4>1
    <3>2. QED
      BY <1>3, <3>1
  <2>4. Retirable(ch) # {}
    BY <2>1
  <2>5. Grown[i + 1].chunks = ch - Retire(ch) /\ Grown[i + 1].retired = Append(re, Retire(ch))
    <3>1. Grown[i + 1] = OneMore(Grown[i])
      BY <2>3, GrownIs
    <3>2. OneMore(Grown[i]) = [chunks |-> ch - Retire(ch), retired |-> Append(re, Retire(ch))]
      BY <2>1, Zenon DEF OneMore
    <3>3. QED
      BY <3>1, <3>2
  <2>6. PICK t : t = s + i
    OBVIOUS
  <2>7. \E c2 : Paid(c2, t + 1, ch - Retire(ch), Append(re, Retire(ch)))
    BY <2>2, <2>3, <2>4, <2>6, PaidGrow
  <2>8. QED
    BY <2>3, <2>5, <2>6, <2>7
<1>6. g \in T
  <2> HIDE DEF T
  <2>1. \A i \in 0 .. (g - 1) : i \in T => i + 1 \in T
    BY <1>5
  <2>2. QED
    BY <1>3, <1>4, <2>1, CountUp
<1>7. PICK c : Paid(c, s + g, Grown[g].chunks, Grown[g].retired)
  BY <1>6
<1>8. Paid(c, steps', chunks', retired')
  BY <1>2, <1>7 DEF GrowBy
<1>9. QED
  BY <1>8 DEF StackInv

(* A shrink undoes the last growth.                                         *)
LEMMA ShrinkStack ==
  ASSUME StackInv, NEW E, Shrink(E)
  PROVE  StackInv'
<1>1. PICK c, s, ch, re : /\ Paid(c, s, ch, re)
                          /\ s = steps /\ ch = chunks /\ re = retired
  BY DEF StackInv
<1>2. /\ s > 1 /\ steps' = s - 1 /\ chunks' = ch + re[Len(re)]
      /\ retired' = SubSeq(re, 1, Len(re) - 1)
  BY <1>1 DEF Shrink, RestoredChunks
<1>3. PICK c2 : Paid(c2, s - 1, ch + re[Len(re)], SubSeq(re, 1, Len(re) - 1))
  BY <1>1, <1>2, PaidShrink
<1>4. Paid(c2, steps', chunks', retired')
  BY <1>2, <1>3
<1>5. QED
  BY <1>4 DEF StackInv

LEMMA StackSays ==
  ASSUME StackInv
  PROVE  MemoryBudgetKept /\ StackMatches
<1>1. PICK c : Paid(c, steps, chunks, retired)
  BY DEF StackInv
<1>2. /\ steps \in 1 .. StepsMax /\ Len(retired) = steps - 1
      /\ c \in [0 .. (steps - 1) -> MinChunks .. AllChunks]
      /\ c[0] = AllChunks /\ c[steps - 1] = chunks
      /\ \A i \in 0 .. (steps - 1) : i * StepBytes <= Freed(AllChunks, AllChunks - c[i])
  BY <1>1, Zenon DEF Paid
<1>3. steps - 1 \in 0 .. (steps - 1) /\ steps <= StepsMax /\ steps \in Nat
  BY <1>2, ChunksAre
<1>4. MemoryBudgetKept
  BY <1>2, <1>3 DEF MemoryBudgetKept
<1>5. chunks \in MinChunks .. AllChunks
  BY <1>2, <1>3
<1>6. StackMatches
  BY <1>2, <1>3, <1>5, ChunksAre DEF StackMatches
<1>7. QED
  BY <1>4, <1>6

-----------------------------------------------------------------------------
(* The sizes stay numbers.                                                  *)

LEMMA NeededFinite ==
  ASSUME NEW B \in SUBSET Reqs, NEW c, NEW d
  PROVE  IsFiniteSet(Needed(B, c, d))
<1>1. Needed(B, c, d) \subseteq Reqs \X Positions
  BY DEF Needed
<1>2. QED
  BY <1>1, PagesFinite, FS_Subset

LEMMA FreeAfterFinite ==
  ASSUME IsFiniteSet(free), NEW g
  PROVE  IsFiniteSet(FreeAfter(g))
<1>1. FreeAfter(g) \subseteq free \cup Pages
  BY DEF FreeAfter, StepPages
<1>2. IsFiniteSet(free \cup Pages)
  BY PagesFinite, FS_Union
<1>3. QED
  BY <1>1, <1>2, FS_Subset

(* A function has no more values than arguments.                            *)
LEMMA ValuesFinite ==
  ASSUME NEW S, IsFiniteSet(S), NEW F, F = [x \in S |-> F[x]]
  PROVE  IsFiniteSet({F[x] : x \in S})
<1>1. PICK T : T = {F[x] : x \in S}
  OBVIOUS
<1>2. F \in [S -> T] /\ \A p \in T : \E x \in S : F[x] = p
  BY <1>1
<1>3. F \in Surjection(S, T)
  BY <1>2, Fun_IsSurj
<1>4. QED
  BY <1>1, <1>3, FS_Surjection

(* The pages of some prefixes are no more than the prefixes.                *)
LEMMA CachedFinite ==
  ASSUME IsFiniteSet(DOMAIN tree), NEW E \in SUBSET DOMAIN tree
  PROVE  IsFiniteSet({tree[k] : k \in E})
<1>1. IsFiniteSet(E)
  BY FS_Subset
<1>2. PICK F : F = [k \in E |-> tree[k]]
  OBVIOUS
<1>3. F = [k \in E |-> F[k]] /\ {tree[k] : k \in E} = {F[k] : k \in E}
  BY <1>2
<1>4. IsFiniteSet({F[k] : k \in E})
  BY <1>1, <1>3, ValuesFinite
<1>5. QED
  BY <1>3, <1>4, Zenon

LEMMA SizesAlloc ==
  ASSUME SizesInv, NEW B \in SUBSET Reqs, NEW c, NEW d \in [Reqs -> Nat],
         NEW f, IsFiniteSet(f), NEW rows, NEW E \in SUBSET DOMAIN tree,
         AllocatePaged(B, c, d, f, rows, E)
  PROVE  /\ IsFiniteSet(free') /\ IsFiniteSet(DOMAIN tree')
         /\ alloc' \in [Reqs -> Nat]
<1>1. /\ IsFiniteSet(free) /\ IsFiniteSet(DOMAIN tree) /\ alloc \in [Reqs -> Nat]
  BY DEF SizesInv
<1>2. /\ free' \subseteq f \cup {tree[k] : k \in E}
      /\ DOMAIN tree' \subseteq DOMAIN tree
      /\ alloc' = [r \in Reqs |->
                    IF r \in B /\ HorizonNow > 0 THEN Max2(alloc[r], LastPage(r, d[r]))
                    ELSE alloc[r]]
  BY DEF AllocatePaged
<1>3. IsFiniteSet(f \cup {tree[k] : k \in E})
  BY <1>1, CachedFinite, FS_Union
<1>4. IsFiniteSet(free') /\ IsFiniteSet(DOMAIN tree')
  BY <1>1, <1>2, <1>3, FS_Subset
<1>5. Horizon \in Nat /\ Width \in Nat
  BY RequestAssumption
<1>6. HorizonNow \in Nat
  BY <1>5 DEF HorizonNow
<1>7. ASSUME NEW r \in Reqs
      PROVE  Max2(alloc[r], LastPage(r, d[r])) \in Nat
  BY <1>1, <1>5, <1>6 DEF Max2, Min2, LastPage
<1>8. QED
  BY <1>1, <1>2, <1>4, <1>7

LEMMA SizesComplete ==
  ASSUME SizesInv, NEW B \in SUBSET Reqs, NEW d \in [Reqs -> Nat], CompleteOne(B, d)
  PROVE  cached' \in [Reqs -> Nat] /\ dev' \in [Reqs -> Nat]
BY DEF SizesInv, CompleteOne

LEMMA SizesPrefill ==
  ASSUME SizesInv, NEW r \in Reqs, NEW f, IsFiniteSet(f), NEW growable,
         NEW E \in SUBSET DOMAIN tree, Prefill(r, f, growable, E)
  PROVE  SizesInv'
<1>1. PICK c, d, rows : c = PrefillHandle(r) /\ d = [dev EXCEPT ![r] = InLen[r]] /\ rows = MatchedRow(r)
  OBVIOUS
<1>2. AllocatePaged({r}, c, d, f, rows, E) /\ CompleteOne({r}, d) /\ handle' = c
  BY <1>1 DEF Prefill
<1>3. InLen[r] \in Nat \ {0}
  BY LengthsAre
<1>4. d \in [Reqs -> Nat]
  BY <1>1, <1>3 DEF SizesInv
<1>5. MatchLen(r, InLen[r] - 1) \in Nat
  <2>1. PICK n \in Nat : n = InLen[r] - 1
    BY <1>3
  <2>2. MatchLen(r, n) \in 0 .. n
    BY MatchLenIs
  <2>3. QED
    BY <2>1, <2>2
<1>6. handle' \in [Reqs -> Nat]
  BY <1>1, <1>2, <1>5 DEF PrefillHandle, SizesInv
<1>7. QED
  BY <1>2, <1>4, <1>6, SizesAlloc, SizesComplete DEF SizesInv

LEMMA SizesDecode ==
  ASSUME SizesInv, NEW f, IsFiniteSet(f), NEW E \in SUBSET DOMAIN tree, DecodeAlloc(f, E)
  PROVE  SizesInv'
<1>1. PICK B, c, d, rows : B = Running /\ c = cached /\ d = dev /\ rows = row
  OBVIOUS
<1>2. AllocatePaged(B, c, d, f, rows, E) /\ CompleteOne(B, d) /\ handle' = handle
  BY <1>1 DEF DecodeAlloc
<1>3. d \in [Reqs -> Nat] /\ B \in SUBSET Reqs
  BY <1>1 DEF SizesInv, Running
<1>4. QED
  BY <1>2, <1>3, SizesAlloc, SizesComplete DEF SizesInv

LEMMA SizesProcess ==
  ASSUME SizesInv, ProcessStep
  PROVE  SizesInv'
<1>1. ASSUME NEW r \in Reqs, Process(r)
      PROVE  SizesInv'
  <2>1. /\ cached' = cached /\ dev' = dev /\ alloc' = alloc
        /\ tree' = Inserted(r)
        /\ free' \subseteq free \cup Duplicates(r) \cup PaddedTail(r)
        /\ handle' = [handle EXCEPT ![r] = cached[r]] \/ handle' = [handle EXCEPT ![r] = 0]
    BY <1>1 DEF Process, CommitUnfinished, CommitFinished
  <2>2. PICK a \in Nat, b \in Nat, h \in Nat, n \in Nat :
          a = cached[r] /\ b = Max2(cached[r], alloc[r]) /\ h = handle[r] /\ n = MatchLen(r, cached[r])
    <3>1. cached[r] \in Nat /\ alloc[r] \in Nat /\ handle[r] \in Nat
      BY DEF SizesInv
    <3>2. MatchLen(r, cached[r]) \in 0 .. cached[r]
      BY <3>1, MatchLenIs
    <3>3. QED
      BY <3>1, <3>2 DEF Max2
  <2>3. /\ IsFiniteSet(h .. (n - 1)) /\ IsFiniteSet(a .. (b - 1)) /\ IsFiniteSet((n + 1) .. a)
    BY FS_Interval
  <2>4. IsFiniteSet(Duplicates(r)) /\ IsFiniteSet(PaddedTail(r))
    <3>1. /\ Duplicates(r) = {row[r][j] : j \in h .. (n - 1)}
          /\ PaddedTail(r) = {row[r][j] : j \in a .. (b - 1)}
      BY <2>2 DEF Duplicates, PaddedTail, RowPages
    <3>2. ASSUME NEW S, IsFiniteSet(S)
          PROVE  IsFiniteSet({row[r][j] : j \in S})
      <4>1. PICK F : F = [j \in S |-> row[r][j]]
        OBVIOUS
      <4>2. F = [j \in S |-> F[j]] /\ {row[r][j] : j \in S} = {F[j] : j \in S}
        BY <4>1
      <4>3. QED
        BY <3>2, <4>2, ValuesFinite
    <3>3. IsFiniteSet({row[r][j] : j \in h .. (n - 1)}) /\ IsFiniteSet({row[r][j] : j \in a .. (b - 1)})
      BY <2>3, <3>2
    <3>4. QED
      BY <3>1, <3>3, Zenon
  <2>5. IsFiniteSet(free')
    <3>1. IsFiniteSet(free \cup Duplicates(r) \cup PaddedTail(r))
      BY <2>4, FS_Union DEF SizesInv
    <3>2. QED
      BY <2>1, <3>1, FS_Subset
  <2>6. IsFiniteSet(DOMAIN tree')
    <3>1. DOMAIN tree' = DOMAIN tree \cup {Tok(r, i) : i \in (n + 1) .. a}
      BY <2>1, <2>2 DEF Inserted
    <3>2. IsFiniteSet({Tok(r, i) : i \in (n + 1) .. a})
      <4>1. PICK S : S = (n + 1) .. a
        OBVIOUS
      <4>2. PICK F : F = [i \in S |-> Tok(r, i)]
        OBVIOUS
      <4>3. F = [i \in S |-> F[i]] /\ {Tok(r, i) : i \in S} = {F[i] : i \in S}
        BY <4>2, Zenon
      <4>4. IsFiniteSet({F[i] : i \in S})
        BY <2>3, <4>1, <4>3, ValuesFinite
      <4>5. QED
        BY <4>1, <4>3, <4>4, Zenon
    <3>3. PICK N : N = {Tok(r, i) : i \in (n + 1) .. a}
      OBVIOUS
    <3>4. IsFiniteSet(N) /\ IsFiniteSet(DOMAIN tree)
      BY <3>2, <3>3, Zenon DEF SizesInv
    <3>5. IsFiniteSet(DOMAIN tree \cup N)
      BY <3>4, FS_Union
    <3>6. QED
      BY <3>1, <3>3, <3>5, Zenon
  <2>7. handle' \in [Reqs -> Nat]
    BY <2>1 DEF SizesInv
  <2>8. QED
    BY <2>1, <2>5, <2>6, <2>7 DEF SizesInv
<1>2. CASE EndTurn
  BY <1>2 DEF EndTurn, SizesInv, poolVars, reqVars
<1>3. QED
  BY <1>1, <1>2 DEF ProcessStep

LEMMA SizesShrink ==
  ASSUME SizesInv, NEW E \in SUBSET DOMAIN tree, Shrink(E)
  PROVE  SizesInv'
<1>1. /\ alloc' = alloc /\ cached' = cached /\ dev' = dev /\ handle' = handle
      /\ DOMAIN tree' = DOMAIN Kept(E)
      /\ free' \subseteq Room(E)
  BY DEF Shrink, reqVars
<1>2. DOMAIN Kept(E) \subseteq DOMAIN tree
  BY DEF Kept
<1>3. Room(E) \subseteq free \cup {tree[k] : k \in E}
  BY DEF Room
<1>4. IsFiniteSet(free \cup {tree[k] : k \in E})
  BY CachedFinite, FS_Union DEF SizesInv
<1>5. IsFiniteSet(free') /\ IsFiniteSet(DOMAIN tree')
  BY <1>1, <1>2, <1>3, <1>4, FS_Subset DEF SizesInv
<1>6. QED
  BY <1>1, <1>5 DEF SizesInv

-----------------------------------------------------------------------------
(* The budget of bytes.                                                     *)

LEMMA InitSizes ==
  ASSUME EInit
  PROVE  SizesInv /\ StackInv
<1>1. /\ free = InitialFree /\ DOMAIN tree = {}
      /\ cached = [r \in Reqs |-> 0] /\ dev = [r \in Reqs |-> 0]
      /\ alloc = [r \in Reqs |-> 0] /\ handle = [r \in Reqs |-> 0]
      /\ steps = 1 /\ chunks = AllChunks /\ retired = <<>>
  BY DEF EInit, Init
<1>2. IsFiniteSet(InitialFree)
  BY RequestAssumption, PagesFinite, FS_Subset
<1>3. SizesInv
  BY <1>1, <1>2, FS_EmptySet DEF SizesInv
<1>4. Paid([i \in 0 .. 0 |-> AllChunks], 1, AllChunks, <<>>)
  <2>1. /\ 1 \in 1 .. StepsMax /\ 1 - 1 = 0 /\ AllChunks \in MinChunks .. AllChunks
        /\ 0 * StepBytes = 0 /\ AllChunks - AllChunks = 0
    BY ChunksAre
  <2>2. Freed(AllChunks, 0) = 0
    BY ChunksAre DEF Freed
  <2>3. /\ [i \in 0 .. 0 |-> AllChunks][0] = AllChunks
        /\ \A i \in 0 .. 0 : i = 0
    OBVIOUS
  <2>4. /\ \A i \in 0 .. (1 - 1) : i * StepBytes <=
              Freed(AllChunks, AllChunks - [x \in 0 .. 0 |-> AllChunks][i])
    BY <2>1, <2>2, <2>3
  <2>5. <<>> \in Seq(Nat) /\ Len(<<>>) = 1 - 1 /\ 1 .. (1 - 1) = {}
    OBVIOUS
  <2>6. [i \in 0 .. 0 |-> AllChunks] \in [0 .. (1 - 1) -> MinChunks .. AllChunks]
    BY <2>1
  <2>7. QED
    BY <2>1, <2>3, <2>4, <2>5, <2>6 DEF Paid
<1>5. StackInv
  BY <1>1, <1>4 DEF StackInv
<1>6. QED
  BY <1>3, <1>5

(* A shrink at an idle moment or between batches is a shrink.               *)
LEMMA ShrinksAre ==
  ASSUME IdleShrink \/ BusyShrink
  PROVE  \E E \in SUBSET DOMAIN tree : \E allow \in BOOLEAN :
           E \in ShrinkEvictions(allow) /\ Shrink(E)
<1>1. PICK allow, E : allow \in BOOLEAN /\ E \in ShrinkEvictions(allow) /\ Shrink(E)
  BY DEF IdleShrink, BusyShrink
<1>2. E \in SUBSET DOMAIN tree
  BY <1>1 DEF ShrinkEvictions, Evictions
<1>3. QED
  BY <1>1, <1>2

LEMMA NextSizes ==
  ASSUME SizesInv, StackInv, [ENext]_allVars
  PROVE  SizesInv' /\ StackInv'
<1>1. ASSUME NEW r \in Reqs, NEW E \in SUBSET DOMAIN tree, NEW g, g = PrefillGrowth(r),
             Prefill(r, FreeAfter(g), GrowableTokens, E), GrowBy(g)
      PROVE  SizesInv' /\ StackInv'
  <2>1. PICK need, locked, f, growable :
          /\ need = PrefillNeed(r) /\ locked = Locked(Live \cup {r}, PrefillHandle(r))
          /\ f = FreeAfter(g) /\ growable = GrowableTokens
    OBVIOUS
  <2>2. IsFiniteSet(need)
    <3>1. PICK c, d, B : /\ c = PrefillHandle(r) /\ d = [dev EXCEPT ![r] = InLen[r]]
                         /\ B = {r}
      OBVIOUS
    <3>2. need = Needed(B, c, d)
      BY <2>1, <3>1, Zenon DEF PrefillNeed
    <3>3. QED
      BY <3>1, <3>2, NeededFinite
  <2>3. g = GrowthFor(need, locked)
    BY <1>1, <2>1, Zenon DEF PrefillGrowth
  <2>4. g \in 0 .. (StepsMax - steps) /\ \A i \in 0 .. (g - 1) : Retirable(Grown[i].chunks) # {}
    BY <2>2, <2>3, GrowthIs
  <2>5. StackInv'
    BY <1>1, <2>4, GrowStack
  <2>6. IsFiniteSet(f)
    BY <2>1, FreeAfterFinite DEF SizesInv
  <2>7. Prefill(r, f, growable, E)
    BY <1>1, <2>1
  <2>8. QED
    BY <2>5, <2>6, <2>7, SizesPrefill
<1>2. ASSUME NEW E \in SUBSET DOMAIN tree, NEW g, g = DecodeGrowth, NEW f, f = FreeAfter(g),
             DecodePop(f, E) \/ DecodeRound(f, E) \/ DecodePlain(f, E), GrowBy(g)
      PROVE  SizesInv' /\ StackInv'
  <2>1. PICK need, locked : need = DecodeNeed /\ locked = Locked(Live, handle)
    OBVIOUS
  <2>2. IsFiniteSet(need)
    <3>1. PICK c, d, B : c = cached /\ d = dev /\ B = Running
      OBVIOUS
    <3>2. need = Needed(B, c, d) /\ B \in SUBSET Reqs
      BY <2>1, <3>1, Zenon DEF DecodeNeed, Running
    <3>3. QED
      BY <3>2, NeededFinite
  <2>3. g = GrowthFor(need, locked)
    BY <1>2, <2>1, Zenon DEF DecodeGrowth
  <2>4. g \in 0 .. (StepsMax - steps) /\ \A i \in 0 .. (g - 1) : Retirable(Grown[i].chunks) # {}
    BY <2>2, <2>3, GrowthIs
  <2>5. StackInv'
    BY <1>2, <2>4, GrowStack
  <2>6. IsFiniteSet(f)
    BY <1>2, FreeAfterFinite DEF SizesInv
  <2>7. DecodeAlloc(f, E)
    BY <1>2, Zenon DEF DecodePop, DecodeRound, DecodePlain
  <2>8. QED
    BY <2>5, <2>6, <2>7, SizesDecode
<1>3. ASSUME UNCHANGED elasticVars
      PROVE  StackInv'
  BY <1>3 DEF elasticVars, StackInv
<1>4. CASE ScheduleNone /\ UNCHANGED elasticVars
  <2>1. SizesInv'
    BY <1>4 DEF ScheduleNone, SizesInv, poolVars, reqVars
  <2>2. QED
    BY <1>3, <1>4, <2>1
<1>5. CASE ProcessStep /\ UNCHANGED elasticVars
  BY <1>3, <1>5, SizesProcess
<1>6. CASE IdleShrink \/ BusyShrink
  <2>1. PICK E \in SUBSET DOMAIN tree : Shrink(E)
    BY <1>6, ShrinksAre
  <2>2. QED
    BY <2>1, SizesShrink, ShrinkStack
<1>7. CASE UNCHANGED allVars
  <2>1. SizesInv'
    BY <1>7 DEF allVars, vars, SizesInv, poolVars, reqVars
  <2>2. UNCHANGED elasticVars
    BY <1>7 DEF allVars
  <2>3. QED
    BY <1>3, <2>1, <2>2
<1>8. CASE EPrefill
  <2>1. PICK r \in Reqs, E \in SUBSET DOMAIN tree :
          Prefill(r, FreeAfter(PrefillGrowth(r)), GrowableTokens, E) /\ GrowBy(PrefillGrowth(r))
    BY <1>8, Zenon DEF EPrefill
  <2>2. PICK g : g = PrefillGrowth(r)
    OBVIOUS
  <2>3. Prefill(r, FreeAfter(g), GrowableTokens, E) /\ GrowBy(g)
    BY <2>1, <2>2
  <2>4. QED
    BY <1>1, <2>2, <2>3
<1>9. CASE EDecode
  <2>1. PICK E \in SUBSET DOMAIN tree :
          /\ \/ DecodePop(FreeAfter(DecodeGrowth), E)
             \/ DecodeRound(FreeAfter(DecodeGrowth), E)
             \/ DecodePlain(FreeAfter(DecodeGrowth), E)
          /\ GrowBy(DecodeGrowth)
    BY <1>9, Zenon DEF EDecode
  <2>2. PICK g, f : g = DecodeGrowth /\ f = FreeAfter(g)
    OBVIOUS
  <2>3. (DecodePop(f, E) \/ DecodeRound(f, E) \/ DecodePlain(f, E)) /\ GrowBy(g)
    BY <2>1, <2>2
  <2>4. QED
    BY <1>2, <2>2, <2>3
<1>10. QED
  BY <1>4, <1>5, <1>6, <1>7, <1>8, <1>9 DEF ENext

(* Whatever the scheduler does, every number of steps on the stack was paid *)
(* for when it was reached.                                                 *)
THEOREM SizesKept == ESpec => [](SizesInv /\ StackInv)
<1>1. EInit => SizesInv /\ StackInv
  BY InitSizes
<1>2. SizesInv /\ StackInv /\ [ENext]_allVars => (SizesInv /\ StackInv)'
  BY NextSizes
<1>3. QED
  BY <1>1, <1>2, PTL DEF ESpec

(* The KV pool and the expert cache never map more bytes than at startup,   *)
(* through any sequence of grows and shrinks: elastic grow retires chunks   *)
(* before it maps, and shrink gives back no more than the step frees.       *)
THEOREM BudgetHeld == ESpec => []MemoryBudgetKept
<1>1. StackInv => MemoryBudgetKept
  BY StackSays
<1>2. QED
  BY <1>1, SizesKept, PTL

(* Each grown step has its entry on the stack, the floor of the expert      *)
(* cache holds, and with no step grown all the chunks are back.             *)
THEOREM StackHeld == ESpec => []StackMatches
<1>1. StackInv => StackMatches
  BY StackSays
<1>2. QED
  BY <1>1, SizesKept, PTL

-----------------------------------------------------------------------------
(* The pages of the steps.                                                  *)

LEMMA StepsApart ==
  ASSUME NEW s \in Nat, NEW t \in Nat, s < t
  PROVE  /\ StepPages(s) \cap StepPages(t) = {}
         /\ t = StepsMax => StepPages(s) \cap TailPages = {}
<1>1. PICK d \in Nat : t = (s + 1) + d
  <2>1. t - (s + 1) \in Nat
    OBVIOUS
  <2>2. QED
    BY <2>1
<1>2. PICK a \in Nat, b \in Nat, e \in Nat :
        a = (s + 1) * Step /\ b = t * Step /\ e = d * Step /\ Step \in Nat
  BY ChunksAre
<1>3. b = a + e
  BY <1>1, <1>2
<1>4. \A p \in Pages : p < a => p < b
  <2>1. Pages \subseteq Int
    BY DEF Pages
  <2>2. QED
    BY <1>3, <2>1
<1>5. \A p \in Pages : ~(p < b /\ b <= p)
  BY DEF Pages
<1>6. /\ \A p \in StepPages(s) : p \in Pages /\ p < a
      /\ \A p \in StepPages(t) : p \in Pages /\ b <= p
      /\ t = StepsMax => \A p \in TailPages : p \in Pages /\ b <= p
  <2>1. \A p \in Pages : p >= b <=> b <= p
    BY DEF Pages
  <2>2. QED
    BY <1>2, <2>1 DEF StepPages, TailPages
<1>7. QED
  BY <1>4, <1>5, <1>6

(* What g more steps bring was not in circulation.                          *)
Steps(s, g) == UNION {StepPages(i) : i \in s .. s + g - 1}

LEMMA MoreSteps ==
  ASSUME NEW s \in Nat, NEW g \in Nat, s + g <= StepsMax
  PROVE  /\ Circulating(s + g) = Circulating(s) \cup Steps(s, g)
         /\ Steps(s, g) \cap Circulating(s) = {}
         /\ Steps(s, g) \subseteq Pages /\ Circulating(s) \subseteq Pages
<1>1. StepsMax \in Nat
  BY ChunksAre
<1>2. PICK A, B, D : A = 0 .. s - 1 /\ B = s .. s + g - 1 /\ D = 0 .. (s + g) - 1
  OBVIOUS
<1>3. D = A \cup B
  BY <1>2
<1>4. /\ Circulating(s) = TailPages \cup UNION {StepPages(i) : i \in A}
      /\ Circulating(s + g) = TailPages \cup UNION {StepPages(i) : i \in D}
      /\ Steps(s, g) = UNION {StepPages(i) : i \in B}
  BY <1>2, Zenon DEF Circulating, Steps
<1>5. \A i \in B : /\ StepPages(i) \cap TailPages = {}
                   /\ \A j \in A : StepPages(i) \cap StepPages(j) = {}
  <2>1. ASSUME NEW i \in B
        PROVE  StepPages(i) \cap TailPages = {}
    <3>1. i \in Nat /\ i < StepsMax
      BY <1>1, <1>2
    <3>2. QED
      BY <1>1, <3>1, StepsApart
  <2>2. ASSUME NEW i \in B, NEW j \in A
        PROVE  StepPages(i) \cap StepPages(j) = {}
    <3>1. i \in Nat /\ j \in Nat /\ j < i
      BY <1>2
    <3>2. StepPages(j) \cap StepPages(i) = {}
      BY <3>1, StepsApart
    <3>3. QED
      BY <3>2
  <2>3. QED
    BY <2>1, <2>2
<1>6. \A i : StepPages(i) \subseteq Pages
  BY DEF StepPages
<1>7. TailPages \subseteq Pages
  BY DEF TailPages
<1> HIDE DEF StepPages, TailPages
<1>8. Circulating(s + g) = Circulating(s) \cup Steps(s, g)
  BY <1>3, <1>4
<1>9. Steps(s, g) \cap Circulating(s) = {}
  BY <1>4, <1>5
<1>10. Steps(s, g) \subseteq Pages /\ Circulating(s) \subseteq Pages
  BY <1>4, <1>6, <1>7
<1>11. QED
  BY <1>8, <1>9, <1>10

(* The free list of a pool that has grown.                                  *)
LEMMA GrownJoins ==
  ASSUME NEW C, PoolInv(C), StackInv, C = Circulating(steps),
         NEW g \in 0 .. (StepsMax - steps), NEW f, f = FreeAfter(g)
  PROVE  Joins(C, f) /\ C \cup f = Circulating(steps + g)
<1>1. PICK s \in Nat : s = steps /\ s + g <= StepsMax /\ g \in Nat
  <2>1. steps \in 1 .. StepsMax
    BY DEF StackInv, Paid
  <2>2. steps \in Nat /\ steps + g <= StepsMax /\ g \in Nat
    BY <2>1, ChunksAre
  <2>3. QED
    BY <2>2
<1>2. /\ Circulating(s + g) = Circulating(s) \cup Steps(s, g)
      /\ Steps(s, g) \cap Circulating(s) = {}
      /\ Steps(s, g) \subseteq Pages
  BY <1>1, MoreSteps
<1>3. f = free \cup Steps(s, g)
  BY <1>1, Zenon DEF FreeAfter, Steps
<1>4. free \subseteq C /\ free \subseteq Pages
  BY Zenon DEF PoolInv, TableInv, Partition
<1>5. QED
  BY <1>1, <1>2, <1>3, <1>4 DEF Joins

-----------------------------------------------------------------------------
(* The batches in flight.                                                   *)

(* Who took the last step is in the batch launched or in the one before it. *)
LoopInv ==
  /\ last = [kind |-> last.kind, reqs |-> last.reqs]
  /\ ongoing = [kind |-> ongoing.kind, reqs |-> ongoing.reqs]
  /\ \A r \in Reqs : st[r] = "last" => r \in last.reqs \cup ongoing.reqs
  /\ turn = "schedule" => ongoing.reqs = {}

LEMMA LoopLaunch ==
  ASSUME LoopInv, NEW kind, NEW B, Launch(kind, B), turn = "schedule",
         \A r \in Reqs \ B : st'[r] = st[r]
  PROVE  LoopInv'
<1>1. /\ ongoing' = [kind |-> kind, reqs |-> B] /\ turn' = "process" /\ last' = last
  BY DEF Launch
<1>2. \A r \in Reqs : st'[r] = "last" => r \in last.reqs \cup B
  BY DEF LoopInv
<1>3. QED
  BY <1>1, <1>2 DEF LoopInv

LEMMA LoopProcess ==
  ASSUME LoopInv, NEW C, PoolInv(C), ProcessStep
  PROVE  LoopInv'
<1>1. /\ last = [kind |-> last.kind, reqs |-> last.reqs]
      /\ ongoing = [kind |-> ongoing.kind, reqs |-> ongoing.reqs]
      /\ \A r \in Reqs : st[r] = "last" => r \in last.reqs \cup ongoing.reqs
  BY DEF LoopInv
<1>2. st \in [Reqs -> Statuses]
  BY DEF PoolInv, TableInv, TableTypes
<1>3. ASSUME NEW q \in Reqs, Process(q)
      PROVE  LoopInv'
  <2>1. /\ turn' = turn /\ turn = "process" /\ ongoing' = ongoing
        /\ last' = [last EXCEPT !.reqs = @ \ {q}]
        /\ \/ ~Finished(q) /\ st' = st
           \/ st' = [st EXCEPT ![q] = "done"]
    BY <1>3 DEF Process, CommitUnfinished, CommitFinished
  <2>2. /\ last'.kind = last.kind /\ last'.reqs = last.reqs \ {q}
        /\ last' = [kind |-> last'.kind, reqs |-> last'.reqs]
    <3>1. last' = [kind |-> last.kind, reqs |-> last.reqs \ {q}]
      BY <1>1, <2>1
    <3>2. QED
      BY <3>1
  <2>3. ASSUME NEW r \in Reqs, st'[r] = "last"
        PROVE  r \in last'.reqs \cup ongoing'.reqs
    <3>1. st[r] = "last" /\ (r = q => q \in ongoing.reqs)
      BY <1>2, <2>1, <2>3 DEF Finished
    <3>2. QED
      BY <1>1, <2>1, <2>2, <3>1
  <2>4. QED
    BY <1>1, <2>1, <2>2, <2>3 DEF LoopInv
<1>4. CASE EndTurn
  <2>1. /\ ToCommit = {} /\ last' = ongoing /\ ongoing' = [kind |-> "none", reqs |-> {}]
        /\ st' = st
    BY <1>4 DEF EndTurn, NoBatch, reqVars
  <2>2. \A r \in Reqs : st[r] = "last" => r \in ongoing.reqs
    BY <1>1, <2>1 DEF ToCommit, Finished
  <2>3. QED
    BY <1>1, <2>1, <2>2 DEF LoopInv
<1>5. QED
  BY <1>3, <1>4 DEF ProcessStep

(* A live request is running or its results come next: between batches, no  *)
(* live row refers to the top step unless PinsTop says so.                  *)
LEMMA Unpinned ==
  ASSUME NEW C, PoolInv(C), LoopInv, turn = "schedule", Live = {} \/ ~PinsTop
  PROVE  \A r \in Live : \A j \in 0 .. (RowEnd(r) - 1) : row[r][j] \notin Top
<1> SUFFICES ASSUME NEW r \in Live, NEW j \in 0 .. (RowEnd(r) - 1), row[r][j] \in Top
             PROVE  FALSE
  OBVIOUS
<1>1. r \in Running \cup {q \in last.reqs : st[q] # "done"}
  BY DEF LoopInv, Live, Running
<1>2. /\ RowEnd(r) \in Nat /\ cached[r] \in Nat /\ alloc[r] \in Nat /\ dev[r] = cached[r] + 1
  BY RowEnds DEF PoolInv, TableInv
<1>3. j \in 0 .. Max2(dev[r], alloc[r]) - 1
  <2>1. PICK a \in Nat, c \in Nat : a = alloc[r] /\ c = cached[r] /\ dev[r] = c + 1
    BY <1>2
  <2>2. RowEnd(r) = Max2(c, a) /\ Max2(dev[r], alloc[r]) = Max2(c + 1, a)
    BY <2>1 DEF RowEnd
  <2>3. Max2(c, a) <= Max2(c + 1, a) /\ Max2(c + 1, a) \in Nat /\ Max2(c, a) \in Nat
    BY <2>1 DEF Max2
  <2>4. QED
    BY <2>2, <2>3
<1>4. PinsTop
  BY <1>1, <1>3 DEF PinsTop
<1>5. QED
  BY <1>4

-----------------------------------------------------------------------------
(* A shrink.                                                                *)

(* F sends each page of M to the page of R of the same rank.                *)
Ranked(M, R, F) ==
  F = [p \in M |-> CHOOSE q \in R :
         Cardinality({x \in R : x < q}) = Cardinality({x \in M : x < p})]

(* Where there is room, every page of M has a place of its own in R, in the *)
(* same order.                                                              *)
LEMMA RankedIs ==
  ASSUME NEW M \in SUBSET Int, IsFiniteSet(M), NEW R \in SUBSET Int, IsFiniteSet(R),
         Cardinality(M) <= Cardinality(R), NEW F, Ranked(M, R, F)
  PROVE  F \in [M -> R] /\ \A p, q \in M : F[p] = F[q] => p = q
<1> DEFINE InM(p) == Cardinality({x \in M : x < p})
           InR(q) == Cardinality({x \in R : x < q})
<1>1. \A p, q \in M : p < q => InM(p) < InM(q)
  BY PageRanks
<1>2. \A k \in Nat : k < Cardinality(R) => \E q \in R : InR(q) = k
  BY PageRanks
<1>3. Cardinality(M) \in Nat /\ Cardinality(R) \in Nat
  BY FS_CardinalityType
<1>4. ASSUME NEW p \in M
      PROVE  InM(p) \in Nat /\ InM(p) < Cardinality(M)
  <2> DEFINE B == {x \in M : x < p}
  <2>1. B \subseteq M /\ p \notin B
    OBVIOUS
  <2> HIDE DEF B
  <2>2. /\ IsFiniteSet(B) /\ Cardinality(B) <= Cardinality(M)
        /\ Cardinality(M) = Cardinality(B) => M = B
    BY <2>1, FS_Subset
  <2>3. Cardinality(B) \in Nat
    BY <2>2, FS_CardinalityType
  <2>4. Cardinality(B) < Cardinality(M)
    BY <1>3, <2>1, <2>2, <2>3
  <2>5. QED
    BY <2>3, <2>4 DEF B
<1>5. F = [p \in M |-> CHOOSE q \in R : InR(q) = InM(p)]
  BY Zenon DEF Ranked
<1> HIDE DEF InM, InR
<1>6. ASSUME NEW p \in M
      PROVE  F[p] \in R /\ InR(F[p]) = InM(p)
  <2>1. \E q \in R : InR(q) = InM(p)
    BY <1>2, <1>3, <1>4
  <2>2. F[p] = CHOOSE q \in R : InR(q) = InM(p)
    BY <1>5
  <2>3. QED
    BY <2>1, <2>2
<1>7. ASSUME NEW p \in M, NEW q \in M, F[p] = F[q]
      PROVE  p = q
  <2>1. InM(p) = InM(q) /\ InM(p) \in Nat /\ InM(q) \in Nat
    BY <1>4, <1>6, <1>7
  <2>2. ~(p < q) /\ ~(q < p)
    BY <1>1, <2>1
  <2>3. QED
    BY <2>2
<1>8. QED
  BY <1>5, <1>6, <1>7

(* The KV of the pages of M goes along to where F sends them, and that of T *)
(* is gone.                                                                 *)
CarriesKv(T, M, F) ==
  kv' = [p \in Pages |-> IF p \in T THEN Torn
                         ELSE IF p \in Range(F)
                         THEN kv[CHOOSE o \in M : F[o] = p] ELSE kv[p]]

(* What a shrink does to the pages: T the top step, M the cached pages that *)
(* move, R the pages they may move to, F where each goes.                   *)
Compacts(E, T, M, R, F) ==
  /\ T = Top /\ T \subseteq Pages
  /\ M = {tree[k] : k \in DOMAIN tree \ E} \cap T
  /\ R = (free \cup {tree[k] : k \in E}) \ T
  /\ F \in [M -> R] /\ \A p, q \in M : F[p] = F[q] => p = q
  /\ DOMAIN tree' = DOMAIN tree \ E
  /\ tree' = [k \in DOMAIN tree \ E |-> IF tree[k] \in T THEN F[tree[k]] ELSE tree[k]]
  /\ CarriesKv(T, M, F)
  /\ free' = R \ Range(F)

LEMMA ShrinkCompacts ==
  ASSUME NEW C, PoolInv(C), NEW E \in SUBSET DOMAIN tree, Shrink(E)
  PROVE  \E T, M, R, F : Compacts(E, T, M, R, F)
<1>1. PICK T, M, R, F : T = Top /\ M = Moved(E) /\ R = Room(E) /\ F = NewPage(E)
  OBVIOUS
<1>2. free \subseteq Pages /\ tree \in [DOMAIN tree -> Pages]
  BY Zenon DEF PoolInv, TableInv, Partition
<1>3. T \subseteq Pages
  BY <1>1 DEF Top, StepPages
<1>4. /\ M = {tree[k] : k \in DOMAIN tree \ E} \cap T
      /\ R = (free \cup {tree[k] : k \in E}) \ T
  BY <1>1, Zenon DEF Moved, Room
<1>5. M \in SUBSET Pages /\ R \in SUBSET Pages /\ Pages \subseteq Int
  BY <1>2, <1>4 DEF Pages
<1>6. IsFiniteSet(M) /\ IsFiniteSet(R)
  BY <1>5, PagesFinite, FS_Subset
<1>7. Cardinality(M) <= Cardinality(R)
  BY <1>1, Zenon DEF Shrink, Fits
<1>8. Ranked(M, R, F)
  <2>1. Ranked(Moved(E), Room(E), NewPage(E))
    BY Zenon DEF Ranked, NewPage
  <2>2. QED
    BY <1>1, <2>1
<1>9. F \in [M -> R] /\ \A p, q \in M : F[p] = F[q] => p = q
  <2>1. M \in SUBSET Int /\ R \in SUBSET Int
    BY <1>5
  <2>2. QED
    BY <1>6, <1>7, <1>8, <2>1, RankedIs
<1>10. DOMAIN Kept(E) = DOMAIN tree \ E /\ \A k \in DOMAIN tree \ E : Kept(E)[k] = tree[k]
  BY DEF Kept
<1>11. tree' = [k \in DOMAIN Kept(E) |->
                  IF Kept(E)[k] \in T THEN F[Kept(E)[k]] ELSE Kept(E)[k]]
  BY <1>1 DEF Shrink
<1>12. tree' = [k \in DOMAIN tree \ E |-> IF tree[k] \in T THEN F[tree[k]] ELSE tree[k]]
  BY <1>10, <1>11
<1>13. CarriesKv(T, M, F)
  <2>1. CarriesKv(Top, Moved(E), NewPage(E))
    BY Zenon DEF CarriesKv, Shrink, MovedKv
  <2>2. QED
    BY <1>1, <2>1
<1>14. free' = R \ Range(F)
  BY <1>1, Zenon DEF Shrink
<1>15. DOMAIN tree' = DOMAIN tree \ E
  BY <1>12
<1>16. Compacts(E, T, M, R, F)
  BY <1>1, <1>3, <1>4, <1>9, <1>12, <1>13, <1>14, <1>15, Zenon DEF Compacts
<1>17. QED
  BY <1>16

(* The pages below the top step stay partitioned, and what moved took its   *)
(* KV along.                                                                *)
LEMMA CompactPages ==
  ASSUME NEW C, PoolInv(C), NEW E \in SUBSET DOMAIN tree, NEW T, NEW M, NEW R, NEW F,
         Compacts(E, T, M, R, F), \A x \in Claims : At(row, x) \notin T
  PROVE  /\ Partition(C \ T, free', tree', row, Claims)
         /\ TreeRight'
         /\ \A p \in Pages : p \notin T /\ p \notin free /\ (\A k \in E : tree[k] # p)
              => kv'[p] = kv[p]
<1>1. /\ T \subseteq Pages
      /\ M = {tree[k] : k \in DOMAIN tree \ E} \cap T
      /\ R = (free \cup {tree[k] : k \in E}) \ T
      /\ F \in [M -> R] /\ \A p, q \in M : F[p] = F[q] => p = q
      /\ tree' = [k \in DOMAIN tree \ E |-> IF tree[k] \in T THEN F[tree[k]] ELSE tree[k]]
      /\ free' = R \ Range(F)
  BY Zenon DEF Compacts
<1>2. kv' = [p \in Pages |-> IF p \in T THEN Torn
                             ELSE IF p \in Range(F)
                             THEN kv[CHOOSE o \in M : F[o] = p] ELSE kv[p]]
  BY Zenon DEF Compacts, CarriesKv
<1>3. /\ free \subseteq Pages
      /\ tree \in [DOMAIN tree -> Pages]
      /\ \A a, b \in DOMAIN tree : tree[a] = tree[b] => a = b
      /\ \A k \in DOMAIN tree : tree[k] \notin free
      /\ \A x \in Claims : At(row, x) \in Pages /\ At(row, x) \notin free
      /\ \A x \in Claims : \A k \in DOMAIN tree : tree[k] # At(row, x)
      /\ \A x, y \in Claims : At(row, x) = At(row, y) => x = y
      /\ C = free \cup {tree[k] : k \in DOMAIN tree} \cup {At(row, x) : x \in Claims}
  BY Zenon DEF PoolInv, TableInv, Partition
<1>4. \A k \in DOMAIN tree : tree[k] \in Pages /\ kv[tree[k]] = k
  BY DEF PoolInv, TreeRight
<1> HIDE DEF At
<1>5. Range(F) = {F[o] : o \in M} /\ Range(F) \subseteq R
  BY <1>1 DEF Range
<1>6. R \subseteq Pages /\ R \cap T = {}
  BY <1>1, <1>3
<1>7. DOMAIN tree' = DOMAIN tree \ E
  BY <1>1
<1>8. ASSUME NEW k \in DOMAIN tree'
      PROVE  /\ k \in DOMAIN tree /\ k \notin E
             /\ tree[k] \in T => /\ tree[k] \in M /\ tree'[k] = F[tree[k]]
                                 /\ tree'[k] \in Range(F) /\ tree'[k] \in R
             /\ tree[k] \notin T => /\ tree'[k] = tree[k] /\ tree[k] \notin R
                                    /\ tree[k] \notin Range(F)
  <2>1. k \in DOMAIN tree /\ k \notin E
    BY <1>7
  <2>2. tree'[k] = IF tree[k] \in T THEN F[tree[k]] ELSE tree[k]
    BY <1>1, <2>1
  <2>3. tree[k] \in T => tree[k] \in M
    BY <1>1, <2>1
  <2>4. tree[k] \notin R
    BY <1>1, <1>3, <2>1
  <2>5. QED
    BY <1>1, <1>5, <2>1, <2>2, <2>3, <2>4
<1>9. \A x \in Claims : At(row, x) \notin R
  BY <1>1, <1>3
<1>10. free' \subseteq Pages /\ free' \subseteq R
  BY <1>1, <1>6
<1>11. tree' \in [DOMAIN tree' -> Pages]
  <2>1. \A k \in DOMAIN tree' : tree'[k] \in Pages
    BY <1>3, <1>6, <1>8
  <2>2. tree' = [k \in DOMAIN tree' |-> tree'[k]]
    BY <1>1
  <2>3. QED
    BY <2>1, <2>2
<1>12. \A a, b \in DOMAIN tree' : tree'[a] = tree'[b] => a = b
  <2>1. ASSUME NEW a \in DOMAIN tree', NEW b \in DOMAIN tree', tree'[a] = tree'[b]
        PROVE  tree[a] = tree[b]
    <3>1. CASE tree[a] \in T /\ tree[b] \in T
      BY <1>1, <1>8, <2>1, <3>1
    <3>2. CASE ~(tree[a] \in T /\ tree[b] \in T)
      BY <1>8, <2>1, <3>2
    <3>3. QED
      BY <3>1, <3>2
  <2>2. QED
    BY <1>3, <1>8, <2>1
<1>13. \A k \in DOMAIN tree' : tree'[k] \notin free'
  BY <1>1, <1>8, <1>10
<1>14. \A x \in Claims : /\ At(row, x) \in Pages /\ At(row, x) \notin free'
                         /\ \A k \in DOMAIN tree' : tree'[k] # At(row, x)
  BY <1>3, <1>8, <1>9, <1>10
<1>15. C \ T = free' \cup {tree'[k] : k \in DOMAIN tree'} \cup {At(row, x) : x \in Claims}
  <2>1. ASSUME NEW p, p \in C, p \notin T
        PROVE  p \in free' \cup {tree'[k] : k \in DOMAIN tree'} \cup {At(row, x) : x \in Claims}
    <3>1. CASE p \in R
      <4>1. CASE p \in Range(F)
        <5>1. PICK o \in M : p = F[o]
          BY <1>5, <4>1
        <5>2. PICK k \in DOMAIN tree \ E : o = tree[k] /\ tree[k] \in T
          BY <1>1
        <5>3. k \in DOMAIN tree' /\ tree'[k] = p
          BY <1>7, <1>8, <5>1, <5>2
        <5>4. QED
          BY <5>3
      <4>2. CASE ~(p \in Range(F))
        BY <1>1, <3>1, <4>2
      <4>3. QED
        BY <4>1, <4>2
    <3>2. CASE ~(p \in R)
      <4>1. p \in {tree[k] : k \in DOMAIN tree \ E} \cup {At(row, x) : x \in Claims}
        BY <1>1, <1>3, <2>1, <3>2
      <4>2. ASSUME NEW k \in DOMAIN tree \ E, p = tree[k]
            PROVE  k \in DOMAIN tree' /\ p = tree'[k]
        BY <1>7, <1>8, <2>1, <4>2
      <4>3. QED
        BY <4>1, <4>2
    <3>3. QED
      BY <3>1, <3>2
  <2>2. ASSUME NEW p \in free' \cup {tree'[k] : k \in DOMAIN tree'}
        PROVE  p \in C /\ p \notin T
    <3>1. R \subseteq C
      BY <1>1, <1>3
    <3>2. ASSUME NEW k \in DOMAIN tree'
          PROVE  tree'[k] \in C /\ tree'[k] \notin T
      BY <1>3, <1>6, <1>8, <3>1
    <3>3. free' \subseteq C /\ free' \cap T = {}
      BY <1>6, <1>10, <3>1
    <3>4. QED
      BY <3>2, <3>3
  <2>3. \A x \in Claims : At(row, x) \in C /\ At(row, x) \notin T
    BY <1>3
  <2>4. QED
    BY <2>1, <2>2, <2>3
<1>16. Partition(C \ T, free', tree', row, Claims)
  BY <1>3, <1>10, <1>11, <1>12, <1>13, <1>14, <1>15, Zenon DEF Partition
<1>17. TreeRight'
  <2>1. ASSUME NEW k \in DOMAIN tree'
        PROVE  tree'[k] \in Pages /\ kv'[tree'[k]] = k
    <3>1. PICK p \in Pages : p = tree'[k]
      BY <1>11
    <3>2. CASE tree[k] \in T
      <4>1. PICK o \in M : o = tree[k] /\ F[o] = p
        BY <1>8, <3>1, <3>2
      <4>2. \A a \in M : F[a] = p => a = o
        BY <1>1, <4>1
      <4>3. o = CHOOSE a \in M : F[a] = p
        BY <4>1, <4>2
      <4>4. p \notin T /\ p \in Range(F)
        BY <1>6, <1>8, <3>1, <3>2
      <4>5. kv'[p] = kv[CHOOSE a \in M : F[a] = p]
        BY <1>2, <4>4
      <4>6. kv'[p] = kv[o]
        BY <4>3, <4>5
      <4>7. QED
        BY <1>4, <1>8, <3>1, <4>1, <4>6
    <3>3. CASE ~(tree[k] \in T)
      <4>1. p = tree[k] /\ p \notin T /\ p \notin Range(F)
        BY <1>8, <3>1, <3>3
      <4>2. kv'[p] = kv[p]
        BY <1>2, <4>1
      <4>3. QED
        BY <1>4, <1>8, <3>1, <4>1, <4>2
    <3>4. QED
      BY <3>2, <3>3
  <2>2. QED
    BY <2>1 DEF TreeRight
<1>18. ASSUME NEW p \in Pages, p \notin T, p \notin free, \A k \in E : tree[k] # p
       PROVE  kv'[p] = kv[p]
  <2>1. p \notin R
    BY <1>1, <1>18
  <2>2. p \notin Range(F)
    BY <1>5, <2>1
  <2>3. QED
    BY <1>2, <1>18, <2>2
<1>19. QED
  BY <1>16, <1>17, <1>18

(* Between batches, when no live row refers to the top step, a shrink keeps *)
(* what the rows and the prefix cache hold, over the pages that are left.   *)
LEMMA ShrinkPool ==
  ASSUME NEW C, PoolInv(C), NEW E \in SUBSET DOMAIN tree, NEW T, T = Top,
         E \cap Locked(Live, handle) = {},
         \A j \in E : \A k \in DOMAIN tree : Extends(k, j) => k \in E,
         Shrink(E),
         \A r \in Live : \A j \in 0 .. (RowEnd(r) - 1) : row[r][j] \notin T
  PROVE  PoolInv(C \ T)'
<1>1. /\ TableTypes /\ Lengths /\ TreeClosed /\ Shared
      /\ KvTypes /\ TreeRight /\ VerifiedRight /\ KeyBehind
  BY DEF PoolInv, TableInv
<1>2. PICK M, R, F : Compacts(E, T, M, R, F)
  <2>1. PICK T2, M, R, F : Compacts(E, T2, M, R, F)
    BY ShrinkCompacts
  <2>2. T2 = T
    BY <2>1, Zenon DEF Compacts
  <2>3. QED
    BY <2>1, <2>2
<1>3. /\ row' = row /\ alloc' = alloc /\ st' = st /\ cached' = cached /\ dev' = dev
      /\ handle' = handle /\ spec' = spec /\ last' = last /\ ongoing' = ongoing
  BY DEF Shrink, reqVars, loopVars
<1>4. Live' = Live /\ Claims' = Claims
  BY <1>3 DEF Live, Claims, RowEnd
<1>5. ASSUME NEW r \in Live, NEW j \in 0 .. (RowEnd(r) - 1)
      PROVE  /\ r \in Reqs /\ j \in Positions /\ row[r][j] \notin T
             /\ handle[r] <= j => <<r, j>> \in Claims /\ At(row, <<r, j>>) = row[r][j]
             /\ handle[r] \in Nat /\ handle[r] <= RowEnd(r) /\ RowEnd(r) \in Nat
  <2>1. /\ r \in Reqs /\ RowEnd(r) \in Nat /\ RowEnd(r) <= Width
        /\ handle[r] \in Nat /\ cached[r] \in Nat /\ handle[r] <= cached[r]
        /\ cached[r] <= RowEnd(r) /\ Positions = 0 .. (Width - 1) /\ Width \in Nat
    BY <1>1, RowEnds
  <2>2. j \in Positions /\ j < RowEnd(r)
    BY <2>1
  <2>3. <<r, j>> \in Reqs \X Positions /\ <<r, j>>[1] = r /\ <<r, j>>[2] = j
    BY <2>1, <2>2
  <2>4. handle[r] <= j => <<r, j>> \in Claims /\ At(row, <<r, j>>) = row[r][j]
    BY <2>2, <2>3 DEF Claims, At
  <2>5. QED
    BY <2>1, <2>2, <2>4
<1>6. \A x \in Claims : At(row, x) \notin T
  <2>1. ASSUME NEW x \in Claims
        PROVE  At(row, x) \notin T
    <3>1. x[1] \in Live /\ x[2] \in Positions /\ x[2] < RowEnd(x[1])
      BY DEF Claims
    <3>2. x[2] \in 0 .. (RowEnd(x[1]) - 1)
      BY <1>1, <3>1, RowEnds
    <3>3. QED
      BY <3>1, <3>2 DEF At
  <2>2. QED
    BY <2>1
<1>7. /\ Partition(C \ T, free', tree', row, Claims)
      /\ TreeRight'
      /\ \A p \in Pages : p \notin T /\ p \notin free /\ (\A k \in E : tree[k] # p)
           => kv'[p] = kv[p]
  BY <1>2, <1>6, CompactPages
<1>8. /\ DOMAIN tree' = DOMAIN tree \ E
      /\ \A k \in DOMAIN tree' : tree[k] \notin T => tree'[k] = tree[k]
  <2>1. /\ DOMAIN tree' = DOMAIN tree \ E
        /\ tree' = [k \in DOMAIN tree \ E |-> IF tree[k] \in T THEN F[tree[k]] ELSE tree[k]]
    BY <1>2, Zenon DEF Compacts
  <2>2. QED
    BY <2>1
<1>9. TreeClosed'
  BY <1>1, <1>8, EvictClosed
<1>10. ASSUME NEW r \in Live, NEW i \in 1 .. handle[r]
       PROVE  /\ Tok(r, i) \in DOMAIN tree' /\ Tok(r, i) \in DOMAIN tree
              /\ row[r][i - 1] = tree[Tok(r, i)] /\ tree'[Tok(r, i)] = tree[Tok(r, i)]
  <2>1. Tok(r, i) \in DOMAIN tree /\ row[r][i - 1] = tree[Tok(r, i)]
    BY <1>1 DEF Shared
  <2>2. Tok(r, i) \in Locked(Live, handle)
    BY <2>1 DEF Locked
  <2>3. i - 1 \in 0 .. (RowEnd(r) - 1)
    BY <1>1, RowEnds
  <2>4. row[r][i - 1] \notin T
    BY <2>3
  <2>5. QED
    BY <1>8, <2>1, <2>2, <2>4
<1>11. Shared'
  BY <1>3, <1>4, <1>10 DEF Shared
<1>12. TableTypes'
  BY <1>1, <1>3, <1>4 DEF TableTypes
<1>13. Lengths'
  BY <1>1, <1>3, <1>4 DEF Lengths
<1>14. ASSUME NEW r \in Live, NEW j \in 0 .. (RowEnd(r) - 1), row[r][j] \in Pages
       PROVE  kv'[row[r][j]] = kv[row[r][j]]
  <2>1. /\ \A a, b \in DOMAIN tree : tree[a] = tree[b] => a = b
        /\ \A k \in DOMAIN tree : tree[k] \notin free
        /\ \A x \in Claims : At(row, x) \notin free
        /\ \A x \in Claims : \A k \in DOMAIN tree : tree[k] # At(row, x)
    BY Zenon DEF PoolInv, TableInv, Partition
  <2>2. row[r][j] \notin T
    OBVIOUS
  <2>3. row[r][j] \notin free /\ \A k \in E : tree[k] # row[r][j]
    <3>1. CASE handle[r] <= j
      <4>1. <<r, j>> \in Claims /\ At(row, <<r, j>>) = row[r][j]
        BY <1>5, <3>1
      <4>2. \A k \in E : k \in DOMAIN tree
        OBVIOUS
      <4>3. QED
        BY <2>1, <4>1, <4>2, Zenon
    <3>2. CASE ~(handle[r] <= j)
      <4>1. PICK i \in 1 .. handle[r] : i = j + 1 /\ i - 1 = j
        <5>1. handle[r] \in Nat /\ j \in Nat
          <6>1. handle[r] \in Nat /\ RowEnd(r) \in Nat
            BY <1>1, RowEnds
          <6>2. QED
            BY <6>1
        <5>2. j + 1 \in 1 .. handle[r] /\ (j + 1) - 1 = j
          BY <3>2, <5>1
        <5>3. QED
          BY <5>2
      <4>2. /\ Tok(r, i) \in DOMAIN tree /\ Tok(r, i) \notin E
            /\ row[r][j] = tree[Tok(r, i)]
        BY <1>8, <1>10, <4>1
      <4>3. QED
        BY <2>1, <4>2
    <3>3. QED
      BY <3>1, <3>2
  <2>4. QED
    BY <1>7, <1>14, <2>2, <2>3
<1>15. VerifiedRight'
  <2>1. ASSUME NEW r \in Live
        PROVE  Verified(r)' <= RowEnd(r)' /\ Holds(r, Verified(r))'
    <3>1. PICK m \in Nat : m = Verified(r)
      BY <1>1, VerifiedIs
    <3>2. RowEnd(r) \in Nat /\ m <= RowEnd(r) /\ Holds(r, m)
      BY <1>1, <3>1, RowEnds DEF VerifiedRight
    <3>3. Verified(r)' = m /\ RowEnd(r)' = RowEnd(r)
      BY <1>3, <3>1 DEF Verified, Keyed, RowEnd
    <3>4. \A j \in 0 .. (m - 1) : row[r][j] \in Pages /\ kv[row[r][j]] = Tok(r, j + 1)
      BY <3>2 DEF Holds
    <3>5. \A j \in 0 .. (m - 1) : j \in 0 .. (RowEnd(r) - 1)
      BY <3>2
    <3>6. \A j \in 0 .. (m - 1) : row'[r][j] \in Pages /\ kv'[row'[r][j]] = Tok(r, j + 1)
      BY <1>3, <1>14, <3>4, <3>5
    <3>7. Holds(r, m)'
      BY <3>6 DEF Holds
    <3>8. QED
      BY <3>2, <3>3, <3>7 DEF Holds
  <2>2. QED
    BY <1>4, <2>1 DEF VerifiedRight
<1>16. KvTypes'
  <2>1. kv' = [p \in Pages |-> kv'[p]]
    <3>1. kv' = [p \in Pages |-> IF p \in T THEN Torn
                                 ELSE IF p \in Range(F)
                                 THEN kv[CHOOSE o \in M : F[o] = p] ELSE kv[p]]
      BY <1>2, Zenon DEF Compacts, CarriesKv
    <3>2. QED
      BY <3>1
  <2>2. QED
    BY <1>1, <1>3, <2>1 DEF KvTypes
<1>17. KeyBehind'
  BY <1>1, <1>3 DEF KeyBehind
<1>18. TableInv(C \ T)'
  BY <1>3, <1>4, <1>7, <1>9, <1>11, <1>12, <1>13 DEF TableInv, Partition, At
<1>19. QED
  BY <1>7, <1>15, <1>16, <1>17, <1>18 DEF PoolInv

-----------------------------------------------------------------------------
(* Every step keeps the pages in circulation.                               *)

PagesInv == \E C : C = Circulating(steps) /\ PoolInv(C)

(* The pages of the top step are those a shrink takes out of circulation.   *)
LEMMA FewerSteps ==
  ASSUME StackInv, steps > 1
  PROVE  Circulating(steps - 1) = Circulating(steps) \ Top
<1>1. PICK s \in Nat : steps = s + 1 /\ steps - 1 = s /\ s + 1 <= StepsMax
  <2>1. steps \in 1 .. StepsMax /\ StepsMax \in Nat
    BY ChunksAre DEF StackInv, Paid
  <2>2. steps - 1 \in Nat /\ steps = (steps - 1) + 1 /\ steps <= StepsMax
    BY <2>1
  <2>3. QED
    BY <2>2
<1>2. /\ Circulating(s + 1) = Circulating(s) \cup Steps(s, 1)
      /\ Steps(s, 1) \cap Circulating(s) = {}
  BY <1>1, MoreSteps
<1>3. Steps(s, 1) = StepPages(s)
  <2>1. s .. s + 1 - 1 = {s}
    OBVIOUS
  <2> HIDE DEF StepPages
  <2>2. QED
    BY <2>1 DEF Steps
<1>4. Top = StepPages(s)
  BY <1>1 DEF Top
<1>5. QED
  BY <1>1, <1>2, <1>3, <1>4

(* What a shrink evicts is unlocked and closed.                             *)
LEMMA ShrinkEvicts ==
  ASSUME NEW allow, NEW E, E \in ShrinkEvictions(allow)
  PROVE  /\ E \in SUBSET DOMAIN tree /\ E \cap Locked(Live, handle) = {}
         /\ \A j \in E : \A k \in DOMAIN tree : Extends(k, j) => k \in E
BY DEF ShrinkEvictions, Evictions

LEMMA ShrinkKeeps ==
  ASSUME PagesInv, LoopInv, StackInv, IdleShrink \/ BusyShrink
  PROVE  PagesInv' /\ LoopInv'
<1>1. PICK C : C = Circulating(steps) /\ PoolInv(C)
  BY DEF PagesInv
<1>2. PICK allow, E : E \in ShrinkEvictions(allow) /\ Shrink(E)
  BY DEF IdleShrink, BusyShrink
<1>3. turn = "schedule" /\ (Live = {} \/ ~PinsTop)
  BY DEF IdleShrink, BusyShrink, Idle
<1>4. PICK T : T = Top
  OBVIOUS
<1>5. \A r \in Live : \A j \in 0 .. (RowEnd(r) - 1) : row[r][j] \notin T
  BY <1>1, <1>3, <1>4, Unpinned
<1>6. PoolInv(C \ T)'
  BY <1>1, <1>2, <1>4, <1>5, ShrinkEvicts, ShrinkPool
<1>7. C \ T = Circulating(steps')
  <2>1. steps > 1 /\ steps' = steps - 1
    BY <1>2 DEF Shrink
  <2>2. QED
    BY <1>1, <1>4, <2>1, FewerSteps
<1>8. PagesInv'
  BY <1>6, <1>7 DEF PagesInv
<1>9. LoopInv'
  BY <1>2 DEF Shrink, reqVars, loopVars, LoopInv
<1>10. QED
  BY <1>8, <1>9

(* A batch over a pool that has grown by g steps.                           *)
LEMMA GrownKeeps ==
  ASSUME NEW C, C = Circulating(steps), PoolInv(C), StackInv,
         NEW g \in 0 .. (StepsMax - steps), NEW f, f = FreeAfter(g), GrowBy(g),
         PoolInv(C \cup f)'
  PROVE  PagesInv'
<1>1. C \cup f = Circulating(steps + g)
  BY GrownJoins
<1>2. steps' = steps + g
  BY DEF GrowBy
<1>3. C \cup f = Circulating(steps')
  BY <1>1, <1>2
<1>4. QED
  BY <1>3 DEF PagesInv

LEMMA EPrefillKeeps ==
  ASSUME PagesInv, LoopInv, SizesInv, StackInv, Steady, EPrefill
  PROVE  PagesInv' /\ LoopInv'
<1>1. PICK C : C = Circulating(steps) /\ PoolInv(C)
  BY DEF PagesInv
<1>2. PICK r \in Reqs, E \in SUBSET DOMAIN tree :
        Prefill(r, FreeAfter(PrefillGrowth(r)), GrowableTokens, E) /\ GrowBy(PrefillGrowth(r))
  BY Zenon DEF EPrefill
<1>3. PICK g, f, growable :
        g = PrefillGrowth(r) /\ f = FreeAfter(g) /\ growable = GrowableTokens
  OBVIOUS
<1>4. Prefill(r, f, growable, E) /\ GrowBy(g)
  BY <1>2, <1>3
<1>5. g \in 0 .. (StepsMax - steps)
  <2>1. PICK need, locked, c, d, B :
          /\ need = PrefillNeed(r) /\ locked = Locked(Live \cup {r}, PrefillHandle(r))
          /\ c = PrefillHandle(r) /\ d = [dev EXCEPT ![r] = InLen[r]] /\ B = {r}
    OBVIOUS
  <2>2. need = Needed(B, c, d)
    BY <2>1, Zenon DEF PrefillNeed
  <2>3. IsFiniteSet(need)
    BY <2>1, <2>2, NeededFinite
  <2>4. g = GrowthFor(need, locked)
    BY <1>3, <2>1, Zenon DEF PrefillGrowth
  <2>5. QED
    BY <2>3, <2>4, GrowthIs
<1>6. Joins(C, f)
  BY <1>1, <1>3, <1>5, GrownJoins
<1>7. PoolInv(C \cup f)'
  BY <1>1, <1>4, <1>6, PrefillKeeps
<1>8. PagesInv'
  BY <1>1, <1>3, <1>4, <1>5, <1>7, GrownKeeps
<1>9. LoopInv'
  <2>1. PICK B : B = {r}
    OBVIOUS
  <2>2. /\ turn = "schedule" /\ Launch("prefill", B)
        /\ \A q \in Reqs \ B : st'[q] = st[q]
    BY <1>4, <2>1 DEF Prefill, CompleteOne
  <2>3. QED
    BY <2>2, LoopLaunch
<1>10. QED
  BY <1>8, <1>9

LEMMA EDecodeKeeps ==
  ASSUME PagesInv, LoopInv, SizesInv, StackInv, Steady, EDecode
  PROVE  PagesInv' /\ LoopInv'
<1>1. PICK C : C = Circulating(steps) /\ PoolInv(C)
  BY DEF PagesInv
<1>2. PICK E \in SUBSET DOMAIN tree :
        /\ \/ DecodePop(FreeAfter(DecodeGrowth), E)
           \/ DecodeRound(FreeAfter(DecodeGrowth), E)
           \/ DecodePlain(FreeAfter(DecodeGrowth), E)
        /\ GrowBy(DecodeGrowth)
  BY Zenon DEF EDecode
<1>3. PICK g, f : g = DecodeGrowth /\ f = FreeAfter(g)
  OBVIOUS
<1>4. (DecodePop(f, E) \/ DecodeRound(f, E) \/ DecodePlain(f, E)) /\ GrowBy(g)
  BY <1>2, <1>3
<1>5. g \in 0 .. (StepsMax - steps)
  <2>1. PICK need, locked, c, d, B :
          /\ need = DecodeNeed /\ locked = Locked(Live, handle)
          /\ c = cached /\ d = dev /\ B = Running
    OBVIOUS
  <2>2. need = Needed(B, c, d) /\ B \in SUBSET Reqs
    BY <2>1, Zenon DEF DecodeNeed, Running
  <2>3. IsFiniteSet(need)
    BY <2>2, NeededFinite
  <2>4. g = GrowthFor(need, locked)
    BY <1>3, <2>1, Zenon DEF DecodeGrowth
  <2>5. QED
    BY <2>3, <2>4, GrowthIs
<1>6. Joins(C, f)
  BY <1>1, <1>3, <1>5, GrownJoins
<1>7. PoolInv(C \cup f)'
  BY <1>1, <1>4, <1>6, DecodeKeeps
<1>8. PagesInv'
  BY <1>1, <1>3, <1>4, <1>5, <1>7, GrownKeeps
<1>9. LoopInv'
  <2>1. DecodeAlloc(f, E)
    BY <1>4, Zenon DEF DecodePop, DecodeRound, DecodePlain
  <2>2. PICK B : B = Running
    OBVIOUS
  <2>3. /\ turn = "schedule" /\ Launch("decode", B)
        /\ \A q \in Reqs \ B : st'[q] = st[q]
    BY <2>1, <2>2 DEF DecodeAlloc, CompleteOne
  <2>4. QED
    BY <2>3, LoopLaunch
<1>10. QED
  BY <1>8, <1>9

LEMMA NextPages ==
  ASSUME PagesInv, LoopInv, SizesInv, StackInv, Steady, [ENext]_allVars
  PROVE  PagesInv' /\ LoopInv'
<1>1. PICK C : C = Circulating(steps) /\ PoolInv(C)
  BY DEF PagesInv
<1>2. ASSUME PoolInv(C)', UNCHANGED elasticVars
      PROVE  PagesInv'
  BY <1>1, <1>2 DEF elasticVars, PagesInv
<1>3. CASE ScheduleNone /\ UNCHANGED elasticVars
  <2>1. PoolInv(C)'
    BY <1>1, <1>3, NoneKeeps
  <2>2. /\ turn = "schedule" /\ Launch("none", {}) /\ st' = st
    BY <1>3 DEF ScheduleNone, reqVars
  <2>3. LoopInv'
    BY <2>2, LoopLaunch
  <2>4. QED
    BY <1>2, <1>3, <2>1, <2>3
<1>4. CASE ProcessStep /\ UNCHANGED elasticVars
  BY <1>1, <1>2, <1>4, ProcessKeeps, LoopProcess
<1>5. CASE UNCHANGED allVars
  <2>1. /\ UNCHANGED <<poolVars, reqVars, spec>> /\ last' = last /\ ongoing' = ongoing
        /\ turn' = turn /\ st' = st /\ UNCHANGED elasticVars
    BY <1>5 DEF allVars, vars, reqVars, loopVars
  <2>2. /\ last = [kind |-> last.kind, reqs |-> last.reqs]
        /\ ongoing = [kind |-> ongoing.kind, reqs |-> ongoing.reqs]
        /\ last.reqs \subseteq Live /\ ongoing.reqs \subseteq Live
    BY <1>1 DEF PoolInv, TableInv, TableTypes
  <2>3. PoolInv(C)'
    BY <1>1, <2>1, <2>2, StutterKeeps
  <2>4. LoopInv'
    BY <2>1 DEF LoopInv
  <2>5. QED
    BY <1>2, <2>1, <2>3, <2>4
<1>6. QED
  BY <1>3, <1>4, <1>5, EPrefillKeeps, EDecodeKeeps, ShrinkKeeps DEF ENext

LEMMA InitPages ==
  ASSUME EInit
  PROVE  PagesInv /\ LoopInv
<1>1. PoolInv(InitialFree) /\ steps = 1 /\ InitialFree = Circulating(1)
  BY InitPool, ElasticAssumption DEF EInit
<1>2. PagesInv
  BY <1>1 DEF PagesInv
<1>3. LoopInv
  BY DEF EInit, Init, NoBatch, LoopInv
<1>4. QED
  BY <1>2, <1>3

(* Growing and shrinking keep the pages partitioned and every KV in place:  *)
(* the pages in circulation are always those of the mapped steps.           *)
THEOREM PagesKept == ESpec /\ []Steady => [](PagesInv /\ LoopInv)
<1>1. EInit => PagesInv /\ LoopInv
  BY InitPages
<1>2. PagesInv /\ LoopInv /\ SizesInv /\ StackInv /\ Steady /\ [ENext]_allVars
        => (PagesInv /\ LoopInv)'
  BY NextPages
<1>3. QED
  BY <1>1, <1>2, SizesKept, PTL DEF ESpec

(* A row, the prefix cache or the free list never names an unmapped page,   *)
(* and neither a grow nor the compaction of a shrink loses or doubles one.  *)
THEOREM NothingUnmapped == ESpec /\ []Steady => []ElasticAccounted
<1>1. PagesInv => ElasticAccounted
  BY PoolAccounts DEF PagesInv, ElasticAccounted
<1>2. QED
  BY <1>1, PagesKept, PTL

(* The elastic pool keeps what PagedAlloc promises: a request attends its   *)
(* own KV and the prefix cache holds what it was given, though a shrink has *)
(* moved their pages.                                                       *)
THEOREM ElasticKvRight == ESpec /\ []Steady => [](RowsRight /\ TreeRight)
<1>1. PagesInv => RowsRight /\ TreeRight
  BY PoolRows DEF PagesInv, PoolInv
<1>2. QED
  BY <1>1, PagesKept, PTL

-----------------------------------------------------------------------------
(* A shrink is possible when nothing pins the top step.                     *)

(* As many prefixes as are cached, so many pages.                           *)
LEMMA CachedCount ==
  ASSUME IsFiniteSet(DOMAIN tree), NEW E \in SUBSET DOMAIN tree,
         \A a, b \in DOMAIN tree : tree[a] = tree[b] => a = b
  PROVE  /\ IsFiniteSet(E) /\ IsFiniteSet({tree[k] : k \in E})
         /\ Cardinality({tree[k] : k \in E}) = Cardinality(E)
<1>1. IsFiniteSet(E)
  BY FS_Subset
<1>2. PICK F : F = [k \in E |-> tree[k]]
  OBVIOUS
<1>3. /\ F = [k \in E |-> F[k]] /\ {tree[k] : k \in E} = {F[k] : k \in E}
      /\ \A x, y \in E : F[x] = F[y] => x = y
  BY <1>2
<1>4. IsFiniteSet({F[k] : k \in E}) /\ Cardinality({F[k] : k \in E}) = Cardinality(E)
  BY <1>1, <1>3, ValuesCount
<1>5. QED
  BY <1>1, <1>3, <1>4

(* What the prefix cache may evict is closed: a locked prefix has all its   *)
(* prefixes locked.                                                         *)
LEMMA UnlockedClosed ==
  ASSUME NEW C, PoolInv(C), NEW L, L = Locked(Live, handle),
         NEW j \in DOMAIN tree \ L, NEW k \in DOMAIN tree, Extends(k, j)
  PROVE  k \notin L
<1>1. PICK R, hd : R = Live /\ hd = handle
  OBVIOUS
<1>2. TreeClosed /\ R \in SUBSET Reqs /\ Within(R, hd) /\ L = Locked(R, hd)
  BY <1>1, HandlesWithin
<1>3. QED
  BY <1>2, LockedClosed

(* The counts of a shrink: M0 pages of the top step are cached, R0 pages    *)
(* below it are free; evicting E leaves no more to move than there is room. *)
LEMMA ShrinkCounts ==
  ASSUME NEW C, C = Circulating(steps), PoolInv(C), SizesInv, StackInv, steps > 1,
         \A r \in Live : \A j \in 0 .. (RowEnd(r) - 1) : row[r][j] \notin Top
  PROVE  /\ Moved({}) = Top \ free
         /\ IsFiniteSet(Moved({})) /\ IsFiniteSet(Room({}))
         /\ Cardinality(Moved({})) \in Nat /\ Cardinality(Room({})) \in Nat
         /\ Short = Cardinality(Moved({})) - Cardinality(Room({}))
<1>1. PICK T : T = Top
  OBVIOUS
<1>2. /\ tree \in [DOMAIN tree -> Pages] /\ free \subseteq Pages
      /\ \A k \in DOMAIN tree : tree[k] \notin free
      /\ C = free \cup {tree[k] : k \in DOMAIN tree} \cup {At(row, x) : x \in Claims}
  BY Zenon DEF PoolInv, TableInv, Partition
<1>3. T \subseteq C
  <2>1. steps - 1 \in 0 .. steps - 1
    BY ChunksAre DEF StackInv, Paid
  <2> HIDE DEF StepPages
  <2>2. QED
    BY <1>1, <2>1 DEF Top, Circulating
<1>4. \A x \in Claims : At(row, x) \notin T
  <2>1. ASSUME NEW x \in Claims
        PROVE  At(row, x) \notin T
    <3>1. x[1] \in Live /\ x[2] \in Positions /\ x[2] < RowEnd(x[1])
      BY DEF Claims
    <3>2. x[2] \in 0 .. (RowEnd(x[1]) - 1)
      BY <3>1, RowEnds DEF PoolInv, TableInv
    <3>3. QED
      BY <1>1, <3>1, <3>2 DEF At
  <2>2. QED
    BY <2>1
<1> HIDE DEF At
<1>5. /\ Moved({}) = {tree[k] : k \in DOMAIN tree} \cap T
      /\ Room({}) = free \ T
  BY <1>1 DEF Moved, Room
<1>6. Moved({}) = T \ free
  BY <1>2, <1>3, <1>4, <1>5
<1>7. IsFiniteSet(Moved({})) /\ IsFiniteSet(Room({}))
  <2>1. Moved({}) \subseteq Pages /\ Room({}) \subseteq Pages
    BY <1>2, <1>5
  <2>2. QED
    BY <2>1, PagesFinite, FS_Subset
<1>8. Cardinality(Moved({})) \in Nat /\ Cardinality(Room({})) \in Nat
  BY <1>7, FS_CardinalityType
<1>9. Short = Cardinality(Moved({})) - Cardinality(Room({}))
  BY <1>1, <1>5, <1>6 DEF Short, TopLive, LowFree
<1>10. QED
  BY <1>1, <1>6, <1>7, <1>8, <1>9

(* Evicting at least what is short makes the rest fit.                      *)
LEMMA EnoughEvicted ==
  ASSUME NEW C, C = Circulating(steps), PoolInv(C), SizesInv, StackInv, steps > 1,
         \A r \in Live : \A j \in 0 .. (RowEnd(r) - 1) : row[r][j] \notin Top,
         NEW E \in SUBSET DOMAIN tree, Cardinality(E) >= Short
  PROVE  Fits(E)
<1>1. PICK T, M0, R0, M, R, V :
        /\ T = Top /\ M0 = Moved({}) /\ R0 = Room({}) /\ M = Moved(E) /\ R = Room(E)
        /\ V = {tree[k] : k \in E}
  OBVIOUS
<1>2. /\ IsFiniteSet(M0) /\ IsFiniteSet(R0)
      /\ Cardinality(M0) \in Nat /\ Cardinality(R0) \in Nat
      /\ Short = Cardinality(M0) - Cardinality(R0)
  BY <1>1, ShrinkCounts
<1>3. /\ \A a, b \in DOMAIN tree : tree[a] = tree[b] => a = b
      /\ \A k \in DOMAIN tree : tree[k] \notin free
  BY Zenon DEF PoolInv, TableInv, Partition
<1>4. /\ M0 = {tree[k] : k \in DOMAIN tree} \cap T /\ R0 = free \ T
      /\ M = {tree[k] : k \in DOMAIN tree \ E} \cap T /\ R = (free \cup V) \ T
  <2>1. Moved({}) = {tree[k] : k \in DOMAIN tree} \cap Top /\ Room({}) = free \ Top
    BY DEF Moved, Room
  <2>2. QED
    BY <1>1, <2>1 DEF Moved, Room
<1>5. IsFiniteSet(V) /\ Cardinality(V) = Cardinality(E) /\ Cardinality(E) \in Nat
  BY <1>1, <1>3, CachedCount, FS_CardinalityType DEF SizesInv
<1>6. /\ M0 = M \cup (V \cap T) /\ M \cap (V \cap T) = {}
      /\ R = R0 \cup (V \ T) /\ R0 \cap (V \ T) = {}
      /\ V = (V \cap T) \cup (V \ T) /\ (V \cap T) \cap (V \ T) = {}
  <2>1. V \cap free = {}
    BY <1>1, <1>3
  <2>2. M \cap V = {}
    BY <1>1, <1>3, <1>4
  <2>3. {tree[k] : k \in DOMAIN tree} = {tree[k] : k \in DOMAIN tree \ E} \cup V
    BY <1>1
  <2>4. QED
    BY <1>4, <2>1, <2>2, <2>3
<1>7. PICK I, O : I = V \cap T /\ O = V \ T
  OBVIOUS
<1>8. IsFiniteSet(M) /\ IsFiniteSet(I) /\ IsFiniteSet(O)
  BY <1>2, <1>5, <1>6, <1>7, FS_Subset
<1>9. /\ Cardinality(M0) = Cardinality(M) + Cardinality(I)
      /\ Cardinality(M) \in Nat /\ Cardinality(I) \in Nat
  BY <1>6, <1>7, <1>8, PartsCount
<1>10. /\ Cardinality(R) = Cardinality(R0) + Cardinality(O)
       /\ Cardinality(O) \in Nat /\ Cardinality(R) \in Nat
  BY <1>2, <1>6, <1>7, <1>8, PartsCount
<1>11. Cardinality(V) = Cardinality(I) + Cardinality(O)
  BY <1>6, <1>7, <1>8, PartsCount
<1>12. Cardinality(M) <= Cardinality(R)
  BY <1>2, <1>5, <1>9, <1>10, <1>11
<1>13. QED
  BY <1>1, <1>12 DEF Fits

(* All that is not locked is enough: no cached page of the top step is.     *)
LEMMA EnoughUnlocked ==
  ASSUME NEW C, C = Circulating(steps), PoolInv(C), SizesInv, StackInv, steps > 1,
         \A r \in Live : \A j \in 0 .. (RowEnd(r) - 1) : row[r][j] \notin Top,
         NEW L, L = Locked(Live, handle)
  PROVE  Short <= Cardinality(DOMAIN tree \ L)
<1>1. PICK T, M0, D, V : /\ T = Top /\ M0 = Moved({}) /\ D = DOMAIN tree \ L
                         /\ V = {tree[k] : k \in D}
  OBVIOUS
<1>2. /\ IsFiniteSet(M0) /\ Cardinality(M0) \in Nat /\ Cardinality(Room({})) \in Nat
      /\ Short = Cardinality(M0) - Cardinality(Room({}))
  BY <1>1, ShrinkCounts
<1>3. \A a, b \in DOMAIN tree : tree[a] = tree[b] => a = b
  BY Zenon DEF PoolInv, TableInv, Partition
<1>4. /\ IsFiniteSet(V) /\ Cardinality(V) = Cardinality(D) /\ Cardinality(D) \in Nat
  BY <1>1, <1>3, CachedCount, FS_CardinalityType DEF SizesInv
<1>5. ASSUME NEW k \in DOMAIN tree, k \in L
      PROVE  tree[k] \notin T
  <2>1. PICK r \in Live : \E i \in 1 .. handle[r] : k = Tok(r, i)
    BY <1>5 DEF Locked
  <2>2. PICK i \in 1 .. handle[r] : k = Tok(r, i)
    BY <2>1
  <2>3. row[r][i - 1] = tree[k]
    BY <2>2 DEF PoolInv, TableInv, Shared
  <2>4. i - 1 \in 0 .. (RowEnd(r) - 1)
    BY RowEnds DEF PoolInv, TableInv
  <2>5. QED
    BY <1>1, <2>3, <2>4
<1>6. M0 = {tree[k] : k \in DOMAIN tree} \cap T
  BY <1>1 DEF Moved
<1>7. M0 \subseteq V
  BY <1>1, <1>5, <1>6
<1>8. Cardinality(M0) <= Cardinality(V)
  BY <1>4, <1>7, FS_Subset
<1>9. QED
  BY <1>1, <1>2, <1>4, <1>8

LEMMA PagesFeasible ==
  ASSUME PagesInv, LoopInv, SizesInv, StackInv
  PROVE  ShrinkFeasible
<1> SUFFICES ASSUME turn = "schedule", steps > 1, ~PinsTop
             PROVE  /\ ShrinkEvictions(TRUE) # {}
                    /\ \A E \in ShrinkEvictions(TRUE) : Fits(E)
  BY DEF ShrinkFeasible
<1>1. PICK C : C = Circulating(steps) /\ PoolInv(C)
  BY DEF PagesInv
<1>2. \A r \in Live : \A j \in 0 .. (RowEnd(r) - 1) : row[r][j] \notin Top
  BY <1>1, Unpinned
<1>3. CASE Fits({})
  BY <1>3 DEF ShrinkEvictions
<1>4. CASE ~Fits({})
  <2>1. PICK n, L : n = Short /\ L = Locked(Live, handle)
    OBVIOUS
  <2>2. /\ n \in Int /\ ~(n <= 0)
    BY <1>1, <1>2, <1>4, <2>1, ShrinkCounts DEF Fits
  <2>3. ShrinkEvictions(TRUE) =
          {E \in SUBSET (DOMAIN tree \ L) :
             /\ Cardinality(E) >= n
             /\ \A j \in E : \A k \in DOMAIN tree : Extends(k, j) => k \in E}
    BY <1>4, <2>1, <2>2 DEF ShrinkEvictions, Evictions
  <2>4. n <= Cardinality(DOMAIN tree \ L)
    BY <1>1, <1>2, <2>1, EnoughUnlocked
  <2>5. Cardinality(DOMAIN tree \ L) \in Nat
    <3>1. IsFiniteSet(DOMAIN tree \ L)
      BY FS_Difference DEF SizesInv
    <3>2. QED
      BY <3>1, FS_CardinalityType
  <2>6. DOMAIN tree \ L \in ShrinkEvictions(TRUE)
    <3>1. \A j \in DOMAIN tree \ L : \A k \in DOMAIN tree : Extends(k, j) => k \in DOMAIN tree \ L
      BY <1>1, <2>1, UnlockedClosed
    <3>2. Cardinality(DOMAIN tree \ L) >= n
      BY <2>2, <2>4, <2>5
    <3>3. QED
      BY <2>3, <3>1, <3>2
  <2>7. ASSUME NEW E \in ShrinkEvictions(TRUE)
        PROVE  Fits(E)
    <3>1. E \in SUBSET DOMAIN tree /\ Cardinality(E) >= Short
      BY <2>1, <2>3
    <3>2. QED
      BY <1>1, <1>2, <3>1, EnoughEvicted
  <2>8. QED
    BY <2>6, <2>7
<1>5. QED
  BY <1>3, <1>4

(* When no live row refers to the top step a shrink is always possible: the *)
(* prefix cache can give back as much as does not fit below, for whatever   *)
(* it holds of the top step is unlocked, and the rest then fits.            *)
THEOREM ShrinksWhenUnpinned == ESpec /\ []Steady => []ShrinkFeasible
<1>1. PagesInv /\ LoopInv /\ SizesInv /\ StackInv => ShrinkFeasible
  BY PagesFeasible
<1>2. QED
  BY <1>1, PagesKept, SizesKept, PTL

(* Without speculative decoding nothing is asked of the free list.          *)
THEOREM ElasticRight ==
  ASSUME Horizon = 0
  PROVE  ESpec => [](ElasticAccounted /\ RowsRight /\ TreeRight /\ ShrinkFeasible)
<1>1. Steady
  BY DEF Steady
<1>2. EInit => PagesInv /\ LoopInv
  BY InitPages
<1>3. PagesInv /\ LoopInv /\ SizesInv /\ StackInv /\ [ENext]_allVars => (PagesInv /\ LoopInv)'
  BY <1>1, NextPages
<1>4. PagesInv /\ LoopInv /\ SizesInv /\ StackInv
        => ElasticAccounted /\ RowsRight /\ TreeRight /\ ShrinkFeasible
  BY PoolAccounts, PoolRows, PagesFeasible DEF PagesInv, PoolInv, ElasticAccounted
<1>5. QED
  BY <1>2, <1>3, <1>4, SizesKept, PTL DEF ESpec

-----------------------------------------------------------------------------
(* What admission promises, over pages that are only there once the pool    *)
(* has grown.                                                               *)

(* a chunks pay for the first step grown, the partial one among them, and b *)
(* for any later one: there are enough above the floor for every step.      *)
Enough(a, b) ==
  StepsMax > 1 =>
    /\ a * ChunkBytes >= StepBytes + (ChunkBytes - TopBytes)
    /\ b * ChunkBytes >= StepBytes
    /\ MinChunks + a + (StepsMax - 2) * b <= AllChunks
Funded == \E a, b \in Nat : Enough(a, b)

(* No step on the stack cost more.                                          *)
Costs(a, b, re) == \A i \in 1 .. Len(re) : re[i] <= (IF i = 1 THEN a ELSE b)

(* k chunks that are there and hold a step are enough to grow, and no more  *)
(* are retired.                                                             *)
LEMMA RetireLeast ==
  ASSUME NEW n \in MinChunks .. AllChunks, NEW k \in 1 .. n,
         n - k >= MinChunks, Freed(n, k) >= StepBytes
  PROVE  Retirable(n) # {} /\ Retire(n) \in Nat /\ Retire(n) <= k
<1>1. n \in Nat
  BY ChunksAre
<1>2. k \in Retirable(n)
  BY DEF Retirable
<1>3. Retirable(n) \in SUBSET Nat
  BY <1>1 DEF Retirable
<1>4. \E m \in Retirable(n) : \A j \in Retirable(n) : m <= j
  BY <1>2, <1>3, NatLeast
<1>5. Retire(n) \in Retirable(n) /\ \A j \in Retirable(n) : Retire(n) <= j
  BY <1>4, Zenon DEF Retire
<1>6. QED
  BY <1>2, <1>3, <1>5

(* What is left after t + 1 steps that cost no more.                        *)
LEMMA CostsLeave ==
  ASSUME NEW a \in Nat, NEW b \in Nat, NEW t \in Nat, NEW c, NEW ch, NEW re,
         Paid(c, t + 2, ch, re), Costs(a, b, re)
  PROVE  ch >= AllChunks - a - t * b
<1>1. /\ re \in Seq(Nat) /\ Len(re) = t + 1 /\ c \in [0 .. (t + 1) -> MinChunks .. AllChunks]
      /\ c[0] = AllChunks /\ c[t + 1] = ch /\ \A i \in 1 .. (t + 1) : c[i] = c[i - 1] - re[i]
  <2>1. (t + 2) - 1 = t + 1
    OBVIOUS
  <2>2. QED
    BY <2>1 DEF Paid
<1>2. AllChunks \in Nat /\ MinChunks \in Nat
  BY ChunksAre
<1>3. ASSUME NEW i \in 1 .. (t + 1)
      PROVE  /\ re[i] \in Nat /\ re[i] <= (IF i = 1 THEN a ELSE b)
             /\ c[i] \in Nat /\ c[i - 1] \in Nat /\ c[i] = c[i - 1] - re[i]
  <2>1. i \in 1 .. Len(re) /\ i \in 0 .. (t + 1) /\ i - 1 \in 0 .. (t + 1)
    BY <1>1
  <2>2. re[i] \in Nat
    <3>1. re \in Seq(Nat) /\ i \in 1 .. Len(re)
      BY <1>1, <2>1
    <3>2. QED
      BY <3>1
  <2>3. re[i] <= (IF i = 1 THEN a ELSE b)
    BY <2>1 DEF Costs
  <2>4. c[i] \in MinChunks .. AllChunks /\ c[i - 1] \in MinChunks .. AllChunks
    BY <1>1, <2>1
  <2>5. c[i] \in Nat /\ c[i - 1] \in Nat
    BY <1>2, <2>4
  <2>6. c[i] = c[i - 1] - re[i]
    BY <1>1
  <2>7. QED
    BY <2>2, <2>3, <2>5, <2>6
<1> DEFINE U == {i \in 0 .. t : c[i + 1] >= AllChunks - a - i * b}
<1>4. 0 \in U
  <2>1. /\ 1 \in 1 .. (t + 1) /\ 0 \in 0 .. t
    OBVIOUS
  <2>2. /\ re[1] \in Nat /\ re[1] <= a /\ c[1] = c[0] - re[1] /\ c[1] \in Nat
    BY <1>3, <2>1
  <2>3. c[1] >= AllChunks - a - 0
    BY <1>1, <1>2, <2>2
  <2>4. 0 * b = 0 /\ 0 + 1 = 1
    OBVIOUS
  <2>5. QED
    BY <2>1, <2>3, <2>4
<1>5. ASSUME NEW i \in 0 .. (t - 1), i \in U
      PROVE  i + 1 \in U
  <2>1. i + 2 \in 1 .. (t + 1) /\ i + 2 # 1 /\ (i + 2) - 1 = i + 1 /\ (i + 1) + 1 = i + 2 /\ i + 1 \in 0 .. t
    OBVIOUS
  <2>2. PICK x \in Nat, y \in Nat, z \in Nat : x = c[i + 1] /\ y = c[i + 2] /\ z = re[i + 2]
    BY <1>3, <2>1
  <2>3. y = x - z /\ z <= b
    BY <1>3, <2>1, <2>2
  <2>4. PICK p \in Nat : p = i * b /\ (i + 1) * b = p + b
    OBVIOUS
  <2>5. x >= AllChunks - a - p
    BY <1>5, <2>2, <2>4
  <2>6. y >= AllChunks - a - (p + b)
    BY <1>2, <2>3, <2>5
  <2>7. QED
    BY <2>1, <2>2, <2>4, <2>6
<1>6. t \in U
  <2> HIDE DEF U
  <2>1. \A i \in 0 .. (t - 1) : i \in U => i + 1 \in U
    BY <1>5
  <2>2. QED
    BY <1>4, <2>1, CountUp
<1>7. QED
  BY <1>1, <1>6

(* One more step can be paid for, and costs no more.                        *)
LEMMA AffordIs ==
  ASSUME NEW a \in Nat, NEW b \in Nat, Enough(a, b),
         NEW c, NEW s, NEW ch, NEW re, Paid(c, s, ch, re), Costs(a, b, re), s < StepsMax
  PROVE  Retirable(ch) # {} /\ Costs(a, b, Append(re, Retire(ch)))
<1>1. /\ s \in 1 .. StepsMax /\ re \in Seq(Nat) /\ Len(re) = s - 1
      /\ c \in [0 .. (s - 1) -> MinChunks .. AllChunks]
      /\ c[0] = AllChunks /\ c[s - 1] = ch
      /\ \A i \in 0 .. (s - 1) : i * StepBytes <= Freed(AllChunks, AllChunks - c[i])
  BY Zenon DEF Paid
<1>2. /\ StepsMax \in Nat /\ AllChunks \in Nat /\ MinChunks \in Nat /\ StepBytes \in Nat
      /\ StepBytes > 0 /\ ChunkBytes \in Nat /\ ChunkBytes > 0 /\ TopBytes \in 1 .. ChunkBytes
  BY ChunksAre
<1>3. ch \in MinChunks .. AllChunks /\ s \in Nat /\ s >= 1 /\ StepsMax > 1
  <2>1. s - 1 \in 0 .. (s - 1)
    BY <1>1, <1>2
  <2>2. QED
    BY <1>1, <1>2, <2>1
<1>4. PICK x \in Nat, y \in Nat, p \in Nat :
        x = a * ChunkBytes /\ y = b * ChunkBytes /\ p = ChunkBytes - TopBytes
  <2>1. a * ChunkBytes \in Nat /\ b * ChunkBytes \in Nat /\ ChunkBytes - TopBytes \in Nat
    BY <1>2
  <2>2. QED
    BY <2>1
<1>5. x >= StepBytes + p /\ y >= StepBytes /\ MinChunks + a + (StepsMax - 2) * b <= AllChunks
  BY <1>3, <1>4 DEF Enough
<1>6. a > 0 /\ b > 0
  <2>1. a = 0 => x = 0
    BY <1>2, <1>4
  <2>2. b = 0 => y = 0
    BY <1>2, <1>4
  <2>3. QED
    BY <1>2, <1>4, <1>5, <2>1, <2>2
<1>7. PICK k \in Nat : k = IF s = 1 THEN a ELSE b
  OBVIOUS
<1>8. ch - k >= MinChunks /\ Freed(ch, k) >= StepBytes
  <2>1. CASE s = 1
    <3>1. ch = AllChunks
      BY <1>1, <2>1
    <3>2. PICK u \in Nat : u = (StepsMax - 2) * b
      <4>1. StepsMax - 2 \in Nat
        BY <1>2, <1>3
      <4>2. (StepsMax - 2) * b \in Nat
        BY <4>1
      <4>3. QED
        BY <4>2
    <3>3. Freed(ch, k) = x - p
      BY <1>4, <1>6, <1>7, <2>1, <3>1 DEF Freed
    <3>4. ch - k >= MinChunks
      BY <1>2, <1>5, <1>7, <2>1, <3>1, <3>2
    <3>5. QED
      BY <1>2, <1>5, <3>3, <3>4
  <2>2. CASE s # 1
    <3>1. PICK t \in Nat : s = t + 2 /\ s - 1 = t + 1
      <4>1. s - 2 \in Nat /\ s = (s - 2) + 2 /\ s - 1 = (s - 2) + 1
        BY <1>3, <2>2
      <4>2. QED
        BY <4>1
    <3>2. ch >= AllChunks - a - t * b
      <4>1. PICK d : d = t + 2
        OBVIOUS
      <4>2. Paid(c, t + 2, ch, re)
        BY <3>1
      <4>3. QED
        BY <4>2, CostsLeave
    <3>3. PICK u \in Nat : StepsMax - 2 = (t + 1) + u
      <4>1. (StepsMax - 2) - (t + 1) \in Nat /\ StepsMax - 2 = (t + 1) + ((StepsMax - 2) - (t + 1))
        BY <1>2, <3>1
      <4>2. QED
        BY <4>1
    <3>4. PICK v \in Nat, w \in Nat : v = t * b /\ w = u * b
      OBVIOUS
    <3>5. (StepsMax - 2) * b = v + b + w
      <4>1. ((t + 1) + u) * b = t * b + b + u * b
        OBVIOUS
      <4>2. QED
        BY <3>3, <3>4, <4>1
    <3>6. ch - k >= MinChunks
      BY <1>2, <1>3, <1>5, <1>7, <2>2, <3>2, <3>4, <3>5
    <3>7. ch # AllChunks
      <4>1. SUFFICES ASSUME ch = AllChunks
                     PROVE  FALSE
        OBVIOUS
      <4>2. (t + 1) * StepBytes <= Freed(AllChunks, AllChunks - ch)
        <5>1. t + 1 \in 0 .. (s - 1)
          BY <3>1
        <5>2. QED
          BY <1>1, <3>1, <5>1
      <4>3. AllChunks - ch = 0 /\ Freed(AllChunks, 0) = 0
        BY <1>2, <4>1 DEF Freed
      <4>4. (t + 1) * StepBytes = t * StepBytes + StepBytes /\ t * StepBytes \in Nat
        BY <1>2
      <4>5. QED
        BY <1>2, <4>2, <4>3, <4>4
    <3>8. Freed(ch, k) = y
      BY <1>4, <1>7, <2>2, <3>7 DEF Freed
    <3>9. QED
      BY <1>5, <3>6, <3>8
  <2>3. QED
    BY <2>1, <2>2
<1>9. k \in 1 .. ch
  BY <1>2, <1>3, <1>6, <1>7, <1>8
<1>10. Retirable(ch) # {} /\ Retire(ch) \in Nat /\ Retire(ch) <= k
  BY <1>3, <1>8, <1>9, RetireLeast
<1>11. Costs(a, b, Append(re, Retire(ch)))
  <2>1. PICK r \in Nat : r = Retire(ch)
    BY <1>10
  <2>2. /\ Len(Append(re, r)) = s /\ Append(re, r)[s] = r
        /\ \A i \in 1 .. s : i # s => i \in 1 .. Len(re) /\ Append(re, r)[i] = re[i]
    <3>1. re \in Seq(Nat) /\ r \in Nat /\ s = Len(re) + 1
      BY <1>1, <1>3
    <3>2. \A i \in 1 .. Len(re) : Append(re, r)[i] = re[i]
      BY <3>1
    <3>3. Len(Append(re, r)) = s /\ Append(re, r)[s] = r
      BY <3>1
    <3>4. \A i \in 1 .. s : i # s => i \in 1 .. Len(re)
      BY <3>1
    <3>5. QED
      BY <3>2, <3>3, <3>4
  <2>3. ASSUME NEW i \in 1 .. s
        PROVE  Append(re, r)[i] <= (IF i = 1 THEN a ELSE b)
    <3>1. CASE i = s
      BY <1>7, <1>10, <2>1, <2>2, <3>1
    <3>2. CASE i # s
      BY <2>2, <3>2 DEF Costs
    <3>3. QED
      BY <3>1, <3>2
  <2>4. QED
    BY <2>1, <2>2, <2>3 DEF Costs
<1>12. QED
  BY <1>10, <1>11

(* However far the pool grows, the next step can be paid for.               *)
LEMMA GrownAfford ==
  ASSUME NEW a \in Nat, NEW b \in Nat, Enough(a, b), StackInv, Costs(a, b, retired),
         NEW g \in 0 .. (StepsMax - steps)
  PROVE  /\ Costs(a, b, Grown[g].retired)
         /\ g < StepsMax - steps => Retirable(Grown[g].chunks) # {}
<1>1. PICK c0 : Paid(c0, steps, chunks, retired)
  BY DEF StackInv
<1>2. PICK s \in Nat : s = steps /\ s >= 1
  <2>1. steps \in 1 .. StepsMax
    BY <1>1 DEF Paid
  <2>2. QED
    BY <2>1, ChunksAre
<1>3. StepsMax \in Nat /\ g \in Nat /\ s + g <= StepsMax
  BY <1>2, ChunksAre
<1> DEFINE Good(i) == \E c : /\ Paid(c, s + i, Grown[i].chunks, Grown[i].retired)
                             /\ Costs(a, b, Grown[i].retired)
           U == {i \in 0 .. g : Good(i)}
<1>4. 0 \in U
  <2>1. Grown[0].chunks = chunks /\ Grown[0].retired = retired /\ s + 0 = s /\ 0 \in 0 .. g
    BY <1>2, <1>3, GrownIs DEF Start
  <2>2. Paid(c0, s + 0, Grown[0].chunks, Grown[0].retired)
    BY <1>1, <1>2, <2>1
  <2>3. Costs(a, b, Grown[0].retired)
    BY <2>1
  <2>4. QED
    BY <2>1, <2>2, <2>3
<1>5. ASSUME NEW i \in 0 .. g, i \in U, s + i < StepsMax
      PROVE  \E c, t, ch, re : /\ t = s + i /\ ch = Grown[i].chunks /\ re = Grown[i].retired
                               /\ Paid(c, t, ch, re) /\ Costs(a, b, re)
                               /\ Retirable(ch) # {} /\ Costs(a, b, Append(re, Retire(ch)))
  <2>1. PICK t, ch, re : t = s + i /\ ch = Grown[i].chunks /\ re = Grown[i].retired
    OBVIOUS
  <2>2. PICK c : Paid(c, t, ch, re) /\ Costs(a, b, re)
    BY <1>5, <2>1
  <2>3. t < StepsMax
    BY <1>5, <2>1
  <2>4. Retirable(ch) # {} /\ Costs(a, b, Append(re, Retire(ch)))
    BY <2>2, <2>3, AffordIs
  <2>5. QED
    BY <2>1, <2>2, <2>4
<1>6. ASSUME NEW i \in 0 .. (g - 1), i \in U
      PROVE  i + 1 \in U
  <2>1. /\ s + i < StepsMax /\ i \in 0 .. (StepsMax - 1) /\ s + (i + 1) = (s + i) + 1
        /\ i + 1 \in 0 .. g /\ i \in 0 .. g
    BY <1>2, <1>3
  <2> HIDE DEF U
  <2>2. PICK c, t, ch, re :
          /\ t = s + i /\ ch = Grown[i].chunks /\ re = Grown[i].retired
          /\ Paid(c, t, ch, re) /\ Costs(a, b, re)
          /\ Retirable(ch) # {} /\ Costs(a, b, Append(re, Retire(ch)))
    BY <1>5, <1>6, <2>1
  <2>3. Grown[i + 1].chunks = ch - Retire(ch) /\ Grown[i + 1].retired = Append(re, Retire(ch))
    <3>1. Grown[i + 1] = OneMore(Grown[i])
      BY <2>1, GrownIs
    <3>2. OneMore(Grown[i]) = [chunks |-> ch - Retire(ch), retired |-> Append(re, Retire(ch))]
      BY <2>2, Zenon DEF OneMore
    <3>3. QED
      BY <3>1, <3>2
  <2>4. t < StepsMax
    BY <2>1, <2>2
  <2>5. PICK c2 : Paid(c2, t + 1, ch - Retire(ch), Append(re, Retire(ch)))
    BY <2>2, <2>4, PaidGrow
  <2>6. Good(i + 1)
    BY <2>1, <2>2, <2>3, <2>5
  <2>7. QED
    BY <2>1, <2>6 DEF U
<1>7. g \in U
  <2> HIDE DEF U
  <2>1. \A i \in 0 .. (g - 1) : i \in U => i + 1 \in U
    BY <1>6
  <2>2. QED
    BY <1>3, <1>4, <2>1, CountUp
<1>8. Costs(a, b, Grown[g].retired)
  BY <1>7
<1>9. ASSUME g < StepsMax - steps
      PROVE  Retirable(Grown[g].chunks) # {}
  <2>1. s + g < StepsMax /\ g \in 0 .. g
    BY <1>2, <1>3, <1>9
  <2> HIDE DEF U
  <2>2. QED
    BY <1>5, <1>7, <2>1
<1>10. QED
  BY <1>8, <1>9

(* The pages of one step, and of several.                                   *)
LEMMA StepPagesCount ==
  ASSUME NEW s \in Nat, s < StepsMax
  PROVE  IsFiniteSet(StepPages(s)) /\ Cardinality(StepPages(s)) = Step
<1>1. PICK d \in Nat : StepsMax = (s + 1) + d
  <2>1. StepsMax - (s + 1) \in Nat /\ StepsMax = (s + 1) + (StepsMax - (s + 1))
    BY ChunksAre
  <2>2. QED
    BY <2>1
<1>2. PICK w \in Nat, x \in Nat, y \in Nat, z \in Nat :
        w = Step /\ x = s * Step /\ y = (s + 1) * Step /\ z = d * Step
  <2>1. Step \in Nat /\ s * Step \in Nat /\ (s + 1) * Step \in Nat /\ d * Step \in Nat
    BY ChunksAre
  <2>2. QED
    BY <2>1
<1>3. y = x + w /\ StepsMax * Step = y + z
  <2>1. (s + 1) * w = s * w + w /\ ((s + 1) + d) * w = (s + 1) * w + d * w
    BY <1>2
  <2>2. QED
    BY <1>1, <1>2, <2>1
<1>4. NumPages = StepsMax * Step + Tail1 /\ Tail1 \in Nat
  BY ElasticAssumption
<1>5. StepPages(s) = x .. (y - 1)
  <2>1. Pages = 0 .. ((y + z + Tail1) - 1)
    BY <1>3, <1>4 DEF Pages
  <2>2. StepPages(s) = {p \in Pages : x <= p /\ p < y}
    BY <1>2, Zenon DEF StepPages
  <2>3. QED
    BY <1>4, <2>1, <2>2
<1>6. /\ IsFiniteSet(x .. (y - 1))
      /\ Cardinality(x .. (y - 1)) = IF x > y - 1 THEN 0 ELSE (y - 1) - x + 1
  <2>1. x \in Int /\ y - 1 \in Int
    OBVIOUS
  <2>2. QED
    BY <2>1, FS_Interval
<1>7. (IF x > y - 1 THEN 0 ELSE (y - 1) - x + 1) = w
  BY <1>3
<1>8. QED
  BY <1>2, <1>5, <1>6, <1>7

LEMMA StepsCount ==
  ASSUME NEW s \in Nat, NEW g \in Nat, s + g <= StepsMax
  PROVE  IsFiniteSet(Steps(s, g)) /\ Cardinality(Steps(s, g)) = g * Step /\ g * Step \in Nat
<1>1. StepsMax \in Nat /\ Step \in Nat
  BY ChunksAre
<1> DEFINE U == {i \in 0 .. g : IsFiniteSet(Steps(s, i)) /\ Cardinality(Steps(s, i)) = i * Step}
<1>2. 0 \in U
  <2>1. s .. s + 0 - 1 = {}
    OBVIOUS
  <2>2. Steps(s, 0) = {}
    BY <2>1 DEF Steps
  <2>3. 0 * Step = 0 /\ 0 \in 0 .. g
    BY <1>1
  <2>4. IsFiniteSet({}) /\ Cardinality({}) = 0
    BY FS_EmptySet
  <2>5. QED
    BY <2>2, <2>3, <2>4
<1>3. ASSUME NEW i \in 0 .. (g - 1), i \in U
      PROVE  i + 1 \in U
  <2>1. PICK t \in Nat : t = s + i /\ t < StepsMax
    BY <1>1
  <2>2. /\ i \in Nat /\ i + 1 \in 0 .. g
        /\ s .. s + (i + 1) - 1 = (s .. s + i - 1) \cup {t}
    BY <2>1
  <2>3. Steps(s, i + 1) = Steps(s, i) \cup StepPages(t)
    <3>1. PICK B, B2 : B = s .. s + i - 1 /\ B2 = s .. s + (i + 1) - 1
      OBVIOUS
    <3>2. Steps(s, i) = UNION {StepPages(j) : j \in B}
      BY <3>1, Zenon DEF Steps
    <3>3. Steps(s, i + 1) = UNION {StepPages(j) : j \in B2}
      BY <3>1, Zenon DEF Steps
    <3> HIDE DEF StepPages
    <3>4. B2 = B \cup {t}
      BY <2>2, <3>1
    <3>5. QED
      BY <3>2, <3>3, <3>4
  <2>4. Steps(s, i) \cap StepPages(t) = {}
    <3>1. ASSUME NEW j \in s .. s + i - 1
          PROVE  StepPages(j) \cap StepPages(t) = {}
      <4>1. j \in Nat /\ j < t
        BY <2>1
      <4>2. QED
        BY <4>1, StepsApart
    <3> HIDE DEF StepPages
    <3>2. QED
      BY <3>1 DEF Steps
  <2>5. IsFiniteSet(StepPages(t)) /\ Cardinality(StepPages(t)) = Step
    BY <2>1, StepPagesCount
  <2>6. PICK A, B, V : A = Steps(s, i) /\ B = StepPages(t) /\ V = Steps(s, i + 1)
    OBVIOUS
  <2>7. IsFiniteSet(A) /\ IsFiniteSet(B) /\ A \cap B = {} /\ V = A \cup B
    BY <1>3, <2>3, <2>4, <2>5, <2>6
  <2>8. IsFiniteSet(V) /\ Cardinality(V) = Cardinality(A) + Cardinality(B)
    BY <2>7, PartsCount, FS_Union
  <2>9. (i + 1) * Step = i * Step + Step
    BY <1>1, <2>2
  <2>10. Cardinality(V) = (i + 1) * Step
    BY <1>3, <2>5, <2>6, <2>8, <2>9
  <2>11. QED
    BY <2>2, <2>6, <2>8, <2>10
<1>4. g \in U
  <2> HIDE DEF U
  <2>1. \A i \in 0 .. (g - 1) : i \in U => i + 1 \in U
    BY <1>3
  <2>2. QED
    BY <1>2, <2>1, CountUp
<1>5. g * Step \in Nat
  BY <1>1
<1>6. QED
  BY <1>4, <1>5

(* How far the pool grows for the next batch.                               *)
LEMMA DecodeGrowthIs ==
  ASSUME SizesInv, StackInv, NEW L, L = Locked(Live, handle), NEW g, g = DecodeGrowth
  PROVE  /\ g \in 0 .. (StepsMax - steps)
         /\ \/ Cardinality(DecodeNeed) <= Cardinality(free) + Cardinality(DOMAIN tree \ L) + g * Step
            \/ g = StepsMax - steps
            \/ Retirable(Grown[g].chunks) = {}
<1>1. PICK need, c, d, B : need = DecodeNeed /\ c = cached /\ d = dev /\ B = Running
  OBVIOUS
<1>2. need = Needed(B, c, d) /\ B \in SUBSET Reqs
  BY <1>1, Zenon DEF DecodeNeed, Running
<1>3. IsFiniteSet(need)
  BY <1>2, NeededFinite
<1>4. g = GrowthFor(need, L)
  BY <1>1, Zenon DEF DecodeGrowth
<1>5. QED
  BY <1>1, <1>3, <1>4, GrowthIs

LEMMA PrefillGrowthIs ==
  ASSUME SizesInv, StackInv, NEW r \in Reqs,
         NEW L, L = Locked(Live \cup {r}, PrefillHandle(r)), NEW g, g = PrefillGrowth(r)
  PROVE  /\ g \in 0 .. (StepsMax - steps)
         /\ \/ Cardinality(PrefillNeed(r)) <= Cardinality(free) + Cardinality(DOMAIN tree \ L)
                                               + g * Step
            \/ g = StepsMax - steps
            \/ Retirable(Grown[g].chunks) = {}
<1>1. PICK need, c, d, B :
        /\ need = PrefillNeed(r) /\ c = PrefillHandle(r) /\ d = [dev EXCEPT ![r] = InLen[r]]
        /\ B = {r}
  OBVIOUS
<1>2. need = Needed(B, c, d)
  BY <1>1, Zenon DEF PrefillNeed
<1>3. IsFiniteSet(need)
  BY <1>1, <1>2, NeededFinite
<1>4. g = GrowthFor(need, L)
  BY <1>1, Zenon DEF PrefillGrowth
<1>5. QED
  BY <1>1, <1>3, <1>4, GrowthIs

(* The free pages of a pool that has grown, and all it may ever have.       *)
LEMMA GrownCount ==
  ASSUME NEW C, PoolInv(C), StackInv, C = Circulating(steps),
         NEW g \in 0 .. (StepsMax - steps), NEW f, f = FreeAfter(g)
  PROVE  /\ IsFiniteSet(f) /\ Cardinality(f) = Cardinality(free) + g * Step /\ g * Step \in Nat
<1>1. PICK s \in Nat : s = steps /\ s + g <= StepsMax /\ g \in Nat
  <2>1. steps \in 1 .. StepsMax
    BY DEF StackInv, Paid
  <2>2. steps \in Nat /\ steps + g <= StepsMax /\ g \in Nat
    BY <2>1, ChunksAre
  <2>3. QED
    BY <2>2
<1>2. PICK N : N = Steps(s, g)
  OBVIOUS
<1>3. IsFiniteSet(N) /\ Cardinality(N) = g * Step /\ g * Step \in Nat
  BY <1>1, <1>2, StepsCount
<1>4. f = free \cup N
  BY <1>1, <1>2, Zenon DEF FreeAfter, Steps
<1>5. free \cap N = {}
  <2>1. free \subseteq C
    BY Zenon DEF PoolInv, TableInv, Partition
  <2>2. N \cap Circulating(s) = {}
    BY <1>1, <1>2, MoreSteps
  <2>3. QED
    BY <1>1, <2>1, <2>2
<1>6. IsFiniteSet(free)
  BY PromisedFinite
<1>7. Cardinality(f) = Cardinality(free) + Cardinality(N) /\ IsFiniteSet(f)
  BY <1>3, <1>4, <1>5, <1>6, PartsCount, FS_Union
<1>8. QED
  BY <1>3, <1>7

Whole == Cardinality(Circulating(StepsMax))

LEMMA WholeIs ==
  ASSUME NEW C, StackInv, C = Circulating(steps)
  PROVE  /\ GrowableTokens \in Nat /\ Cardinality(C) \in Nat /\ Whole \in Nat
         /\ Whole = Cardinality(C) + GrowableTokens
<1>1. PICK s \in Nat, g \in Nat : s = steps /\ s + g = StepsMax /\ g = StepsMax - steps
  <2>1. steps \in 1 .. StepsMax
    BY DEF StackInv, Paid
  <2>2. /\ steps \in Nat /\ StepsMax - steps \in Nat /\ steps + (StepsMax - steps) = StepsMax
    BY <2>1, ChunksAre
  <2>3. QED
    BY <2>2
<1>2. PICK N, W : N = Steps(s, g) /\ W = Circulating(StepsMax)
  OBVIOUS
<1>3. IsFiniteSet(N) /\ Cardinality(N) = g * Step /\ g * Step \in Nat
  BY <1>1, <1>2, StepsCount
<1>4. W = C \cup N /\ N \cap C = {} /\ C \subseteq Pages
  BY <1>1, <1>2, MoreSteps
<1>5. IsFiniteSet(C)
  BY <1>4, PagesFinite, FS_Subset
<1>6. /\ Cardinality(W) = Cardinality(C) + Cardinality(N)
      /\ Cardinality(W) \in Nat /\ Cardinality(C) \in Nat
  BY <1>3, <1>4, <1>5, PartsCount
<1>7. GrowableTokens = g * Step
  BY <1>1 DEF GrowableTokens
<1>8. QED
  BY <1>2, <1>3, <1>6, <1>7 DEF Whole

(* What admission counts on: the costs of the steps that are mapped, and a  *)
(* whole pool that holds what is promised.                                  *)
PromiseInv(a, b) == Costs(a, b, retired) /\ Promised(Whole)

LEMMA CostsGrow ==
  ASSUME NEW a \in Nat, NEW b \in Nat, Enough(a, b), StackInv, Costs(a, b, retired),
         NEW g \in 0 .. (StepsMax - steps), GrowBy(g)
  PROVE  Costs(a, b, retired)'
<1>1. Costs(a, b, Grown[g].retired)
  BY GrownAfford
<1>2. PICK re : re = Grown[g].retired
  OBVIOUS
<1>3. retired' = re
  BY <1>2 DEF GrowBy
<1>4. QED
  BY <1>1, <1>2, <1>3 DEF Costs

LEMMA PromiseShrink ==
  ASSUME NEW a \in Nat, NEW b \in Nat, PromiseInv(a, b), PagesInv, StackInv,
         NEW E, Shrink(E)
  PROVE  PromiseInv(a, b)'
<1>1. PICK C : C = Circulating(steps) /\ PoolInv(C)
  BY DEF PagesInv
<1>2. Costs(a, b, retired)'
  <2>1. PICK re : re = retired
    OBVIOUS
  <2>2. PICK t \in Nat : re \in Seq(Nat) /\ Len(re) = t + 1 /\ t \in 0 .. Len(re)
    <3>1. steps > 1 /\ retired \in Seq(Nat) /\ Len(retired) = steps - 1 /\ steps \in 1 .. StepsMax
      BY DEF Shrink, StackInv, Paid
    <3>2. steps - 2 \in Nat /\ Len(re) = (steps - 2) + 1 /\ steps - 2 \in 0 .. Len(re)
      BY <2>1, <3>1, ChunksAre
    <3>3. QED
      BY <2>1, <3>1, <3>2
  <2>3. retired' = SubSeq(re, 1, t)
    <3>1. retired' = SubSeq(re, 1, Len(re) - 1)
      BY <2>1 DEF Shrink
    <3>2. Len(re) - 1 = t
      BY <2>2
    <3>3. QED
      BY <3>1, <3>2
  <2>4. /\ Len(SubSeq(re, 1, t)) = t
        /\ \A i \in 1 .. t : SubSeq(re, 1, t)[i] = re[i]
    BY <2>2
  <2>5. \A i \in 1 .. t : re[i] <= (IF i = 1 THEN a ELSE b)
    BY <2>1, <2>2 DEF PromiseInv, Costs
  <2>6. QED
    BY <2>3, <2>4, <2>5 DEF Costs
<1>3. Promised(Whole)'
  <2>1. PICK T \in Nat : T = Whole
    BY <1>1, WholeIs
  <2>2. /\ st' = st /\ cached' = cached /\ dev' = dev /\ handle' = handle /\ alloc' = alloc
        /\ DOMAIN tree' \subseteq DOMAIN tree
    BY DEF Shrink, Kept, reqVars
  <2>3. Live' = Live /\ Running' = Running
    BY <2>2 DEF Live, Running
  <2>4. Owed' \subseteq Owed /\ Claims' \subseteq Claims
    BY <2>2, <2>3 DEF Owed, Claims, MaxDeviceLen, RowEnd
  <2>5. Locked(Live, handle)' \subseteq Locked(Live, handle)
    BY <2>2, <2>3 DEF Locked, Tok
  <2>6. Promised(T)
    BY <2>1 DEF PromiseInv
  <2>7. Promised(T)'
    BY <1>1, <2>4, <2>5, <2>6, PromisedSame
  <2>8. Whole' = Whole
    BY DEF Whole, Circulating, TailPages, StepPages, Pages
  <2>9. QED
    BY <2>1, <2>7, <2>8
<1>4. QED
  BY <1>2, <1>3 DEF PromiseInv

LEMMA NextPromise ==
  ASSUME Horizon = 0, NEW a \in Nat, NEW b \in Nat, Enough(a, b), PromiseInv(a, b),
         PagesInv, PagesInv', SizesInv, StackInv, [ENext]_allVars
  PROVE  PromiseInv(a, b)'
<1>1. PICK C : C = Circulating(steps) /\ PoolInv(C)
  BY DEF PagesInv
<1>2. PICK D : PoolInv(D)'
  BY DEF PagesInv
<1>3. PICK T \in Nat, growable \in Nat :
        T = Whole /\ growable = GrowableTokens /\ Cardinality(C) + growable <= T
  <2>1. /\ GrowableTokens \in Nat /\ Whole \in Nat /\ Cardinality(C) \in Nat
        /\ Whole = Cardinality(C) + GrowableTokens
    BY <1>1, WholeIs
  <2>2. Cardinality(C) + GrowableTokens <= Whole
    BY <2>1
  <2>3. QED
    BY <2>1, <2>2
<1>4. Promised(T) /\ Costs(a, b, retired)
  BY <1>3 DEF PromiseInv
<1>5. ASSUME Promised(T)', Costs(a, b, retired)'
      PROVE  PromiseInv(a, b)'
  <2>1. Whole' = Whole
    BY DEF Whole, Circulating, TailPages, StepPages, Pages
  <2>2. QED
    BY <1>3, <1>5, <2>1 DEF PromiseInv
<1>6. ASSUME UNCHANGED elasticVars
      PROVE  Costs(a, b, retired)'
  BY <1>4, <1>6 DEF elasticVars, Costs
<1>7. CASE EPrefill
  <2>1. PICK r \in Reqs, E \in SUBSET DOMAIN tree :
          Prefill(r, FreeAfter(PrefillGrowth(r)), GrowableTokens, E) /\ GrowBy(PrefillGrowth(r))
    BY <1>7, Zenon DEF EPrefill
  <2>2. PICK L, g, f : /\ L = Locked(Live \cup {r}, PrefillHandle(r))
                       /\ g = PrefillGrowth(r) /\ f = FreeAfter(g)
    OBVIOUS
  <2>3. Prefill(r, f, growable, E) /\ GrowBy(g)
    BY <1>3, <2>1, <2>2
  <2>4. g \in 0 .. (StepsMax - steps)
    BY <2>2, PrefillGrowthIs
  <2>5. Promised(T)'
    BY <1>1, <1>2, <1>3, <1>4, <2>3, PromisedPrefill
  <2>6. Costs(a, b, retired)'
    BY <1>4, <2>3, <2>4, CostsGrow
  <2>7. QED
    BY <1>5, <2>5, <2>6
<1>8. CASE EDecode
  <2>1. PICK E \in SUBSET DOMAIN tree :
          /\ \/ DecodePop(FreeAfter(DecodeGrowth), E)
             \/ DecodeRound(FreeAfter(DecodeGrowth), E)
             \/ DecodePlain(FreeAfter(DecodeGrowth), E)
          /\ GrowBy(DecodeGrowth)
    BY <1>8, Zenon DEF EDecode
  <2>2. PICK L, g, f : L = Locked(Live, handle) /\ g = DecodeGrowth /\ f = FreeAfter(g)
    OBVIOUS
  <2>3. DecodeAlloc(f, E) /\ GrowBy(g)
    BY <2>1, <2>2, Zenon DEF DecodePop, DecodeRound, DecodePlain
  <2>4. g \in 0 .. (StepsMax - steps)
    BY <2>2, DecodeGrowthIs
  <2>5. Promised(T)'
    BY <1>1, <1>2, <1>4, <2>3, PromisedDecode
  <2>6. Costs(a, b, retired)'
    BY <1>4, <2>3, <2>4, CostsGrow
  <2>7. QED
    BY <1>5, <2>5, <2>6
<1>9. CASE ScheduleNone /\ UNCHANGED elasticVars
  <2>1. Promised(T)'
    BY <1>4, <1>9, PromisedStays DEF ScheduleNone
  <2>2. QED
    BY <1>5, <1>6, <1>9, <2>1
<1>10. CASE ProcessStep /\ UNCHANGED elasticVars
  <2>1. Promised(T)'
    BY <1>1, <1>2, <1>4, <1>10, PromisedProcess
  <2>2. QED
    BY <1>5, <1>6, <1>10, <2>1
<1>11. CASE IdleShrink \/ BusyShrink
  <2>1. PICK E : Shrink(E)
    BY <1>11 DEF IdleShrink, BusyShrink
  <2>2. QED
    BY <2>1, PromiseShrink
<1>12. CASE UNCHANGED allVars
  <2>1. UNCHANGED <<poolVars, reqVars>> /\ UNCHANGED elasticVars
    BY <1>12 DEF allVars, vars
  <2>2. Promised(T)'
    BY <1>4, <2>1, PromisedStays
  <2>3. QED
    BY <1>5, <1>6, <2>1, <2>2
<1>13. QED
  BY <1>7, <1>8, <1>9, <1>10, <1>11, <1>12 DEF ENext

(* The next batch is served: growing stops when its pages suffice or when   *)
(* everything is mapped, and everything holds what was promised.            *)
LEMMA PromiseServes ==
  ASSUME Horizon = 0, NEW a \in Nat, NEW b \in Nat, Enough(a, b), PromiseInv(a, b),
         PagesInv, SizesInv, StackInv
  PROVE  GrownServed
<1>1. PICK C : C = Circulating(steps) /\ PoolInv(C)
  BY DEF PagesInv
<1>2. PICK T \in Nat, growable \in Nat :
        T = Whole /\ growable = GrowableTokens /\ T = Cardinality(C) + growable
  BY <1>1, WholeIs
<1>3. Promised(T) /\ Costs(a, b, retired)
  BY <1>2 DEF PromiseInv
<1>4. ASSUME NEW g \in 0 .. (StepsMax - steps),
             g = StepsMax - steps \/ Retirable(Grown[g].chunks) = {}
      PROVE  g * Step = growable
  <2>1. g = StepsMax - steps
    <3>1. steps \in 1 .. StepsMax
      BY DEF StackInv, Paid
    <3>2. g < StepsMax - steps \/ g = StepsMax - steps
      BY <3>1, ChunksAre
    <3>3. g < StepsMax - steps => Retirable(Grown[g].chunks) # {}
      BY <1>3, GrownAfford
    <3>4. QED
      BY <1>4, <3>2, <3>3
  <2>2. QED
    BY <1>2, <2>1 DEF GrowableTokens
<1>5. Served(DecodeNeed, FreeAfter(DecodeGrowth), Locked(Live, handle))
  <2>1. PICK L, g, f : L = Locked(Live, handle) /\ g = DecodeGrowth /\ f = FreeAfter(g)
    OBVIOUS
  <2>2. /\ g \in 0 .. (StepsMax - steps)
        /\ \/ Cardinality(DecodeNeed) <= Cardinality(free) + Cardinality(DOMAIN tree \ L) + g * Step
           \/ g = StepsMax - steps
           \/ Retirable(Grown[g].chunks) = {}
    BY <2>1, DecodeGrowthIs
  <2>3. PICK x \in Nat : x = g * Step /\ IsFiniteSet(f) /\ Cardinality(f) = Cardinality(free) + x
    BY <1>1, <2>1, <2>2, GrownCount
  <2>4. \/ Cardinality(DecodeNeed) <= Cardinality(free) + Cardinality(DOMAIN tree \ L) + x
        \/ T <= Cardinality(C) + x
    <3>1. CASE g = StepsMax - steps \/ Retirable(Grown[g].chunks) = {}
      <4>1. x = growable
        BY <1>4, <2>2, <2>3, <3>1
      <4>2. T <= T
        BY <1>2
      <4>3. QED
        BY <1>2, <4>1, <4>2
    <3>2. QED
      BY <2>2, <2>3, <3>1
  <2>5. Served(DecodeNeed, f, L)
    BY <1>1, <1>3, <2>1, <2>3, <2>4, DecodeServed
  <2>6. QED
    BY <2>1, <2>5
<1>6. ASSUME NEW r \in Reqs, st[r] = "new", Admits(r, GrowableTokens)
      PROVE  Served(PrefillNeed(r), FreeAfter(PrefillGrowth(r)),
                    Locked(Live \cup {r}, PrefillHandle(r)))
  <2>1. PICK L, g, f : /\ L = Locked(Live \cup {r}, PrefillHandle(r))
                       /\ g = PrefillGrowth(r) /\ f = FreeAfter(g)
    OBVIOUS
  <2>2. /\ g \in 0 .. (StepsMax - steps)
        /\ \/ Cardinality(PrefillNeed(r)) <= Cardinality(free) + Cardinality(DOMAIN tree \ L)
                                              + g * Step
           \/ g = StepsMax - steps
           \/ Retirable(Grown[g].chunks) = {}
    BY <2>1, PrefillGrowthIs
  <2>3. PICK x \in Nat : x = g * Step /\ IsFiniteSet(f) /\ Cardinality(f) = Cardinality(free) + x
    BY <1>1, <2>1, <2>2, GrownCount
  <2>4. \/ Cardinality(PrefillNeed(r)) <= Cardinality(free) + Cardinality(DOMAIN tree \ L) + x
        \/ growable <= x
    <3>1. CASE g = StepsMax - steps \/ Retirable(Grown[g].chunks) = {}
      <4>1. x = growable
        BY <1>4, <2>2, <2>3, <3>1
      <4>2. QED
        BY <4>1
    <3>2. QED
      BY <2>2, <2>3, <3>1
  <2>5. Admits(r, growable)
    BY <1>2, <1>6
  <2>6. Served(PrefillNeed(r), f, L)
    BY <1>1, <1>6, <2>1, <2>3, <2>4, <2>5, PrefillServed
  <2>7. QED
    BY <2>1, <2>6
<1>7. QED
  BY <1>5, <1>6 DEF GrownServed, NextBatchServed

(* With MTP off, and enough expert chunks above the floor to pay for every  *)
(* step, admission keeps its promise over pages that are not mapped yet:    *)
(* neither the next decode step nor the prefill of a request that           *)
(* available_size admits meets the assertion of _allocate once              *)
(* _elastic_grow_for has grown, through shrinks and growth between them.    *)
THEOREM AdmittedServed ==
  ASSUME Horizon = 0, Funded
  PROVE  ESpec => []GrownServed
<1>1. PICK a \in Nat, b \in Nat : Enough(a, b)
  BY DEF Funded
<1>2. Steady
  BY DEF Steady
<1>3. EInit => PagesInv /\ LoopInv /\ PromiseInv(a, b)
  <2>1. SUFFICES ASSUME EInit
                 PROVE  PagesInv /\ LoopInv /\ PromiseInv(a, b)
    OBVIOUS
  <2>2. PagesInv /\ LoopInv
    BY <2>1, InitPages
  <2>3. PICK T \in Nat : T = Whole
    <3>1. IsFiniteSet(Circulating(StepsMax))
      <4>1. Circulating(StepsMax) \subseteq Pages
        BY DEF Circulating, TailPages, StepPages
      <4>2. QED
        BY <4>1, PagesFinite, FS_Subset
    <3>2. QED
      BY <3>1, FS_CardinalityType DEF Whole
  <2>4. Init /\ retired = <<>>
    BY <2>1 DEF EInit
  <2>5. Promised(T)
    BY <2>4, PromisedInit
  <2>6. Costs(a, b, retired)
    <3>1. Len(retired) = 0
      BY <2>4
    <3>2. QED
      BY <3>1 DEF Costs
  <2>7. QED
    BY <2>2, <2>3, <2>5, <2>6 DEF PromiseInv
<1>4. PagesInv /\ LoopInv /\ SizesInv /\ StackInv /\ PromiseInv(a, b) /\ [ENext]_allVars
        => (PagesInv /\ LoopInv /\ PromiseInv(a, b))'
  <2>1. SUFFICES ASSUME PagesInv, LoopInv, SizesInv, StackInv, PromiseInv(a, b), [ENext]_allVars
                 PROVE  (PagesInv /\ LoopInv /\ PromiseInv(a, b))'
    OBVIOUS
  <2>2. PagesInv' /\ LoopInv'
    BY <1>2, <2>1, NextPages
  <2>3. PromiseInv(a, b)'
    BY <1>1, <2>1, <2>2, NextPromise
  <2>4. QED
    BY <2>2, <2>3
<1>5. PagesInv /\ SizesInv /\ StackInv /\ PromiseInv(a, b) => GrownServed
  BY <1>1, PromiseServes
<1>6. QED
  BY <1>3, <1>4, <1>5, SizesKept, PTL DEF ESpec

=============================================================================
