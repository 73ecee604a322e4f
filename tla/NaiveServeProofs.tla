-------------------------- MODULE NaiveServeProofs --------------------------
(* The Naive stream for any geometry and any stream of requests: who holds   *)
(* the slots of both pools, what a selection picks, what the slots contain   *)
(* and so what a query reads.                                                *)
EXTENDS NaiveServe, DsaTopkProofs

-----------------------------------------------------------------------------
(* The lowest members of a set of slots.                                     *)

LEMMA LowestIs ==
  ASSUME NEW S \in SUBSET Int, IsFiniteSet(S), NEW n \in Nat, n <= Cardinality(S)
  PROVE  /\ Lowest(S, n) \in Seq(S) /\ Len(Lowest(S, n)) = n
         /\ \A i, j \in 1 .. n : Lowest(S, n)[i] = Lowest(S, n)[j] => i = j
<1>1. PICK L : L = Ascending(S)
  OBVIOUS
<1>2. /\ L \in Seq(S) /\ Len(L) = Cardinality(S) /\ Cardinality(S) \in Nat
      /\ \A i, j \in 1 .. Cardinality(S) : L[i] = L[j] => i = j
  BY <1>1, AscendingIs
<1>3. Lowest(S, n) = SubSeq(L, 1, n)
  BY <1>1 DEF Lowest
<1>4. \A i \in 1 .. n : L[i] \in S
  BY <1>2
<1>5. /\ SubSeq(L, 1, n) \in Seq(S) /\ Len(SubSeq(L, 1, n)) = n
      /\ \A i \in 1 .. n : SubSeq(L, 1, n)[i] = L[i]
  BY <1>2, <1>4
<1>6. QED
  BY <1>2, <1>3, <1>5

-----------------------------------------------------------------------------
(* The slots of the mapped steps.                                           *)

Backed(m) == (UNION {StepSlots(s) : s \in 0 .. (m - 1)}) \cup (InitialFree \ StepSlots(0))

LEMMA SizesAre ==
  /\ StepLen \in Nat \ {0} /\ TailLen \in Nat \ {0} /\ StepsMax \in Nat \ {0}
  /\ SwaTokens \in Nat \ {0}
BY PoolAssumption

LEMMA TimesMore ==
  ASSUME NEW a \in Nat, NEW b \in Nat, a <= b, NEW k \in Nat
  PROVE  a * k <= b * k /\ a * k \in Nat /\ b * k \in Nat /\ (a + 1) * k = a * k + k
<1>1. PICK d \in Nat : b = a + d
  <2>1. b - a \in Nat /\ b = a + (b - a)
    OBVIOUS
  <2>2. QED
    BY <2>1
<1>2. PICK x \in Nat, y \in Nat : x = a * k /\ y = d * k
  OBVIOUS
<1>3. b * k = x + y
  BY <1>1, <1>2
<1>4. (a + 1) * k = x + k
  BY <1>2
<1>5. QED
  BY <1>2, <1>3, <1>4

LEMMA TotalIs ==
  \E e \in Nat : /\ e = StepsMax * StepLen /\ TotalTokens = e + TailLen
                 /\ FullSlots = 0 .. (e + TailLen - 1) /\ DummySlot = e + TailLen - 1
                 /\ InitialFree = StepSlots(0) \cup (e .. (e + TailLen - 2))
<1>1. PICK e \in Nat : e = StepsMax * StepLen
  BY SizesAre
<1>2. (DummySlot - 1) = e + TailLen - 2
  BY <1>1, SizesAre DEF DummySlot, TotalTokens
<1>3. TotalTokens = e + TailLen /\ FullSlots = 0 .. (e + TailLen - 1)
      /\ DummySlot = e + TailLen - 1
  <2>1. PICK t \in Nat : t = TotalTokens /\ t = e + TailLen
    BY <1>1, SizesAre DEF TotalTokens
  <2>2. t - 1 = e + TailLen - 1
    BY <2>1, SizesAre
  <2>3. FullSlots = 0 .. (t - 1) /\ DummySlot = t - 1
    BY <2>1 DEF FullSlots, DummySlot
  <2>4. QED
    BY <2>1, <2>2, <2>3
<1>4. InitialFree = StepSlots(0) \cup (e .. (e + TailLen - 2))
  <2>1. PICK d : d = DummySlot - 1 /\ d = e + TailLen - 2
    BY <1>2
  <2>2. InitialFree = StepSlots(0) \cup (e .. d)
    BY <1>1, <2>1 DEF InitialFree
  <2>3. QED
    BY <2>1, <2>2
<1>5. QED
  BY <1>1, <1>3, <1>4

(* A step lies below the tail, and below every later step.                  *)
LEMMA StepIs ==
  ASSUME NEW s \in Nat, s < StepsMax
  PROVE  /\ \A x \in StepSlots(s) : x \in Nat /\ x < StepsMax * StepLen
         /\ \A u \in Nat : s < u => \A x \in StepSlots(s), y \in StepSlots(u) : x < y
<1>1. PICK k \in Nat : k = StepLen
  BY SizesAre
<1>2. \A u \in Nat : s < u =>
        \A x \in StepSlots(s) : x \in Nat /\ x < u * k
  <2> SUFFICES ASSUME NEW u \in Nat, s < u, NEW x \in StepSlots(s)
               PROVE  x \in Nat /\ x < u * k
    OBVIOUS
  <2>1. s * k \in Nat /\ (s + 1) * k = s * k + k
    BY TimesMore
  <2>2. PICK v \in Nat : v = s + 1 /\ v <= u
    OBVIOUS
  <2>3. v * k <= u * k /\ v * k \in Nat /\ u * k \in Nat
    BY <2>2, TimesMore
  <2>4. PICK a \in Nat, b \in Nat, c \in Nat : a = s * k /\ b = v * k /\ c = u * k
    BY <2>1, <2>3
  <2>5. x \in a .. (b - 1)
    BY <1>1, <2>2, <2>4 DEF StepSlots
  <2>6. QED
    BY <2>3, <2>4, <2>5
<1>3. ASSUME NEW u \in Nat, s < u, NEW x \in StepSlots(s), NEW y \in StepSlots(u)
      PROVE  x < y
  <2>1. PICK c \in Nat : c = u * k
    BY TimesMore
  <2>2. x \in Nat /\ x < c
    BY <1>2, <1>3, <2>1
  <2>3. y \in Int /\ c <= y
    <3>1. (u + 1) * k = u * k + k
      BY TimesMore
    <3>2. y \in c .. (c + k - 1)
      BY <1>1, <2>1, <3>1 DEF StepSlots
    <3>3. QED
      BY <3>2
  <2>4. QED
    BY <2>2, <2>3
<1>4. StepsMax \in Nat
  BY SizesAre
<1>5. QED
  BY <1>1, <1>2, <1>3, <1>4

LEMMA BackedIs ==
  ASSUME NEW m \in 1 .. StepsMax
  PROVE  /\ Backed(m) \subseteq FullSlots \ {DummySlot}
         /\ m < StepsMax => /\ Backed(m + 1) = Backed(m) \cup StepSlots(m)
                            /\ Backed(m) \cap StepSlots(m) = {}
         /\ 1 < m => /\ StepSlots(m - 1) \subseteq Backed(m)
                     /\ Backed(m - 1) = Backed(m) \ StepSlots(m - 1)
         /\ IsFiniteSet(Backed(m))
<1>1. PICK e \in Nat : /\ e = StepsMax * StepLen /\ DummySlot = e + TailLen - 1
                       /\ FullSlots = 0 .. (e + TailLen - 1)
                       /\ InitialFree = StepSlots(0) \cup (e .. (e + TailLen - 2))
  BY TotalIs
<1>2. PICK tail : tail = InitialFree \ StepSlots(0)
  OBVIOUS
<1>3. \A x \in tail : x \in e .. (e + TailLen - 2)
  BY <1>1, <1>2
<1>4. \A s \in 0 .. (StepsMax - 1) : \A x \in StepSlots(s) : x \in Nat /\ x < e
  BY <1>1, StepIs, SizesAre
<1>5. m \in Nat /\ m <= StepsMax /\ StepsMax \in Nat /\ TailLen \in Nat \ {0}
  BY SizesAre
<1>6. \A k \in Nat : \A x : x \in Backed(k) <=> x \in tail \/ \E s \in 0 .. (k - 1) : x \in StepSlots(s)
  <2> SUFFICES ASSUME NEW k \in Nat, NEW x
               PROVE  x \in Backed(k) <=> x \in tail \/ \E s \in 0 .. (k - 1) : x \in StepSlots(s)
    OBVIOUS
  <2>1. PICK U : U = UNION {StepSlots(s) : s \in 0 .. (k - 1)}
    OBVIOUS
  <2>2. x \in U <=> \E s \in 0 .. (k - 1) : x \in StepSlots(s)
    BY <2>1, Zenon
  <2>3. Backed(k) = U \cup tail
    BY <1>2, <2>1, Zenon DEF Backed
  <2>4. QED
    BY <2>2, <2>3
<1>7. Backed(m) \subseteq FullSlots \ {DummySlot}
  <2> SUFFICES ASSUME NEW x \in Backed(m)
               PROVE  x \in FullSlots \ {DummySlot}
    OBVIOUS
  <2>1. CASE x \in tail
    BY <1>1, <1>3, <1>5, <2>1
  <2>2. ASSUME NEW s \in 0 .. (m - 1), x \in StepSlots(s)
        PROVE  x \in FullSlots \ {DummySlot}
    <3>1. x \in Nat /\ x < e
      BY <1>4, <1>5, <2>2
    <3>2. QED
      BY <1>1, <1>5, <3>1
  <2>3. QED
    BY <1>5, <1>6, <2>1, <2>2
<1>8. ASSUME NEW k \in Nat, k >= 1, k < StepsMax
      PROVE  Backed(k + 1) = Backed(k) \cup StepSlots(k) /\ Backed(k) \cap StepSlots(k) = {}
  <2>1. Backed(k + 1) = Backed(k) \cup StepSlots(k)
    <3>1. \A s : s \in 0 .. ((k + 1) - 1) <=> s \in 0 .. (k - 1) \/ s = k
      BY <1>8
    <3>2. k + 1 \in Nat
      OBVIOUS
    <3>3. QED
      BY <1>6, <3>1, <3>2
  <2>2. ASSUME NEW x \in Backed(k), x \in StepSlots(k)
        PROVE  FALSE
    <3>1. x \in Nat /\ x < e
      BY <1>4, <1>5, <1>8, <2>2
    <3>2. CASE x \in tail
      BY <1>3, <1>5, <3>1, <3>2
    <3>3. ASSUME NEW s \in 0 .. (k - 1), x \in StepSlots(s)
          PROVE  FALSE
      <4>1. s \in Nat /\ s < StepsMax /\ s < k
        BY <1>5, <1>8, <3>3
      <4>2. x < x
        BY <1>8, <2>2, <3>3, <4>1, StepIs
      <4>3. QED
        BY <3>1, <4>2
    <3>4. QED
      BY <1>6, <2>2, <3>2, <3>3
  <2>3. QED
    BY <2>1, <2>2
<1>9. 1 < m => /\ StepSlots(m - 1) \subseteq Backed(m)
               /\ Backed(m - 1) = Backed(m) \ StepSlots(m - 1)
  <2> SUFFICES ASSUME 1 < m
               PROVE  /\ StepSlots(m - 1) \subseteq Backed(m)
                      /\ Backed(m - 1) = Backed(m) \ StepSlots(m - 1)
    OBVIOUS
  <2>1. PICK k \in Nat : k = m - 1 /\ k >= 1 /\ k < StepsMax /\ k + 1 = m
    BY <1>5
  <2>2. Backed(k + 1) = Backed(k) \cup StepSlots(k) /\ Backed(k) \cap StepSlots(k) = {}
    BY <1>8, <2>1
  <2>3. QED
    BY <2>1, <2>2
<1>10. IsFiniteSet(Backed(m))
  <2>1. IsFiniteSet(FullSlots)
    <3>1. 0 \in Int /\ e + TailLen - 1 \in Int
      BY <1>5
    <3>2. IsFiniteSet(0 .. (e + TailLen - 1))
      BY <3>1, FS_Interval
    <3>3. QED
      BY <1>1, <3>2
  <2>2. QED
    BY <1>7, <2>1, FS_Subset
<1>11. QED
  BY <1>5, <1>7, <1>8, <1>9, <1>10

-----------------------------------------------------------------------------
(* Who holds a slot, and the window slot behind it.                         *)

(* The window slots behind the slots of H.                                  *)
Behind(map, H) == Img(map, H) \ {0}

(* A map that gives the slots of S window slots, or has not changed there.  *)
Mapped(map, S) == \A s \in S : map[s] # 0
Same(map2, map, S) == \A s \in S : map2[s] = map[s]

(* Of the slots B, L are held and f are free; sf are the free window slots. *)
Owned(L, f, sf, map, B) ==
  /\ map \in [FullSlots -> SwaSlots]
  /\ B \subseteq FullSlots /\ L \cup f = B /\ L \cap f = {}
  /\ \A s \in FullSlots : map[s] # 0 => s \in L
  /\ \A r, s \in L : map[r] # 0 /\ map[r] = map[s] => r = s
  /\ sf \subseteq SwaSlots \ {0}
  /\ \A s \in L : map[s] \notin sf
  /\ \A w \in SwaSlots \ {0} : w \notin sf => \E s \in L : map[s] = w

(* What Put leaves of a table, and what it writes.                          *)
Puts(P, table, slots, toks) ==
  /\ P = [s \in DOMAIN table |-> P[s]]
  /\ \A s \in DOMAIN table : (\A i \in DOMAIN slots : slots[i] # s) => P[s] = table[s]
  /\ \A i \in DOMAIN slots : slots[i] \in DOMAIN table => P[slots[i]] = toks[i]

LEMMA PutIs ==
  ASSUME NEW table, NEW slots, NEW toks, NoTwice(slots)
  PROVE  Puts(Put(table, slots, toks), table, slots, toks)
<1>1. PICK P : P = Put(table, slots, toks)
  OBVIOUS
<1>2. P = [s \in DOMAIN table |->
             IF \E i \in DOMAIN slots : slots[i] = s
             THEN toks[CHOOSE i \in DOMAIN slots : slots[i] = s] ELSE table[s]]
  BY <1>1 DEF Put
<1>3. ASSUME NEW i \in DOMAIN slots, slots[i] \in DOMAIN table
      PROVE  P[slots[i]] = toks[i]
  <2>1. PICK j : j = CHOOSE h \in DOMAIN slots : slots[h] = slots[i]
    OBVIOUS
  <2>2. j \in DOMAIN slots /\ slots[j] = slots[i]
    BY <1>3, <2>1
  <2>3. j = i
    BY <1>3, <2>2 DEF NoTwice
  <2>4. P[slots[i]] = toks[CHOOSE h \in DOMAIN slots : slots[h] = slots[i]]
    BY <1>2, <1>3
  <2>5. QED
    BY <2>1, <2>3, <2>4
<1>4. \A s \in DOMAIN table : (\A i \in DOMAIN slots : slots[i] # s) => P[s] = table[s]
  BY <1>2
<1>5. P = [s \in DOMAIN table |-> P[s]]
  BY <1>2
<1>6. QED
  BY <1>1, <1>3, <1>4, <1>5 DEF Puts

(* New slots from the free ones and those of H, which is released.          *)
LEMMA OwnedTake ==
  ASSUME NEW L, NEW f, NEW sf, NEW map, NEW B, Owned(L, f, sf, map, B),
         NEW H \in SUBSET L, NEW n \in Nat,
         NEW slots \in Seq(f \cup H), Len(slots) = n, NoTwice(slots),
         NEW news \in Seq(sf \cup Behind(map, H)), Len(news) = n, NoTwice(news),
         NEW map2, map2 = Put(Released(map, H), slots, news)
  PROVE  /\ Owned((L \ H) \cup Range(slots), (f \cup H) \ Range(slots),
                  (sf \cup Behind(map, H)) \ Range(news), map2, B)
         /\ Mapped(map2, Range(slots)) /\ Same(map2, map, L \ H)
<1>1. PICK R, N : R = Range(slots) /\ N = Range(news)
  OBVIOUS
<1>3. PICK L2, f2, sf2 : L2 = (L \ H) \cup R /\ f2 = (f \cup H) \ R /\ sf2 = (sf \cup Behind(map, H)) \ N
  OBVIOUS
<1>4. /\ DOMAIN slots = 1 .. n /\ DOMAIN news = 1 .. n
      /\ \A i \in 1 .. n : slots[i] \in f \cup H /\ slots[i] \in R
      /\ \A i \in 1 .. n : news[i] \in sf \cup Behind(map, H) /\ news[i] \in N
      /\ \A s \in R : \E i \in 1 .. n : slots[i] = s
      /\ \A w \in N : \E i \in 1 .. n : news[i] = w
  BY <1>1 DEF Range
<1>5. R \subseteq f \cup H /\ f \cup H \subseteq FullSlots /\ L \subseteq FullSlots /\ H \subseteq L
  BY <1>4 DEF Owned
<1>6. Released(map, H) = [s \in FullSlots |-> IF s \in H THEN 0 ELSE map[s]]
  BY DEF Released
<1>7. /\ map2 = [s \in FullSlots |-> map2[s]]
      /\ \A s \in FullSlots : s \notin R => map2[s] = IF s \in H THEN 0 ELSE map[s]
      /\ \A i \in 1 .. n : map2[slots[i]] = news[i]
  <2>1. PICK T : T = Released(map, H)
    OBVIOUS
  <2>2. DOMAIN T = FullSlots /\ \A s \in FullSlots : T[s] = IF s \in H THEN 0 ELSE map[s]
    BY <1>6, <2>1
  <2>3. /\ map2 = [s \in DOMAIN T |-> map2[s]]
        /\ \A s \in DOMAIN T : (\A i \in DOMAIN slots : slots[i] # s) => map2[s] = T[s]
        /\ \A i \in DOMAIN slots : slots[i] \in DOMAIN T => map2[slots[i]] = news[i]
    <3>1. Puts(map2, T, slots, news)
      BY <2>1, PutIs
    <3>2. QED
      BY <3>1 DEF Puts
  <2>4. \A i \in 1 .. n : slots[i] \in FullSlots
    BY <1>4, <1>5
  <2>5. QED
    BY <1>4, <2>2, <2>3, <2>4
<1>8. \A s \in FullSlots : map[s] \in SwaSlots /\ (map[s] # 0 => s \in L)
  BY DEF Owned
<1>9. \A w \in sf \cup Behind(map, H) : w \in SwaSlots \ {0} /\ \A s \in L \ H : map[s] # w
  <2>1. \A w \in sf : w \in SwaSlots \ {0} /\ \A s \in L : map[s] # w
    BY DEF Owned
  <2>2. ASSUME NEW h \in H, map[h] # 0
        PROVE  map[h] \in SwaSlots \ {0} /\ \A s \in L \ H : map[s] # map[h]
    BY <1>5, <1>8, <2>2 DEF Owned
  <2>3. QED
    BY <2>1, <2>2 DEF Behind, Img
<1>10. ASSUME NEW x \in R
       PROVE  /\ \E i \in 1 .. n : slots[i] = x /\ map2[x] = news[i]
              /\ map2[x] \in N /\ map2[x] \in SwaSlots \ {0} /\ \A s \in L \ H : map[s] # map2[x]
  <2>1. PICK i \in 1 .. n : slots[i] = x
    BY <1>4
  <2>2. map2[x] = news[i]
    BY <1>7, <2>1
  <2>3. news[i] \in N /\ news[i] \in sf \cup Behind(map, H)
    BY <1>4
  <2>4. QED
    BY <1>9, <2>1, <2>2, <2>3
<1>11. 0 \in SwaSlots
  BY SizesAre DEF SwaSlots
<1>12. map2 \in [FullSlots -> SwaSlots]
  <2>1. ASSUME NEW s \in FullSlots
        PROVE  map2[s] \in SwaSlots
    BY <1>7, <1>8, <1>11, <1>10
  <2>2. QED
    BY <1>7, <2>1
<1>13. \A s \in FullSlots : map2[s] # 0 => s \in L2
  <2> SUFFICES ASSUME NEW s \in FullSlots
               PROVE  map2[s] # 0 => s \in L2
    OBVIOUS
  <2>1. CASE s \in R
    BY <1>3, <1>10, <2>1
  <2>2. CASE s \notin R
    BY <1>3, <1>5, <1>7, <1>8, <2>2
  <2>3. QED
    BY <2>1, <2>2
<1>14. ASSUME NEW r \in L2, NEW s \in L2, map2[r] # 0, map2[r] = map2[s]
       PROVE  r = s
  <2>1. \A x \in L2 \ R : x \in L \ H /\ map2[x] = map[x]
    BY <1>3, <1>5, <1>7
  <2>2. CASE r \in R /\ s \in R
    <3>1. PICK i \in 1 .. n : slots[i] = r /\ map2[r] = news[i]
      BY <1>10, <2>2
    <3>2. PICK j \in 1 .. n : slots[j] = s /\ map2[s] = news[j]
      BY <1>10, <2>2
    <3>3. news[i] = news[j]
      BY <1>14, <3>1, <3>2
    <3>4. i = j
      BY <1>4, <3>3, Zenon DEF NoTwice
    <3>5. QED
      BY <3>1, <3>2, <3>4
  <2>3. ASSUME NEW x \in R, NEW y \in L2 \ R
        PROVE  map2[x] # map2[y]
    <3>1. y \in L \ H /\ map2[y] = map[y]
      BY <2>1
    <3>2. map[y] # map2[x]
      BY <1>10, <3>1
    <3>3. QED
      BY <3>1, <3>2
  <2>4. CASE r \in R /\ s \notin R
    BY <1>14, <2>3, <2>4
  <2>5. CASE r \notin R /\ s \in R
    BY <1>14, <2>3, <2>5
  <2>6. CASE r \notin R /\ s \notin R
    BY <1>14, <2>1, <2>6 DEF Owned
  <2>7. QED
    BY <2>2, <2>4, <2>5, <2>6
<1>15. sf2 \subseteq SwaSlots \ {0}
  BY <1>3, <1>9
<1>16. ASSUME NEW s \in L2
       PROVE  map2[s] \notin sf2
  <2>1. CASE s \in R
    BY <1>3, <1>10, <2>1
  <2>2. CASE s \notin R
    BY <1>3, <1>5, <1>7, <1>9, <2>2
  <2>3. QED
    BY <2>1, <2>2
<1>17. ASSUME NEW w \in SwaSlots \ {0}, w \notin sf2
       PROVE  \E s \in L2 : map2[s] = w
  <2>1. CASE w \in N
    <3>1. PICK i \in 1 .. n : news[i] = w
      BY <1>4, <2>1
    <3>2. slots[i] \in L2 /\ map2[slots[i]] = w
      BY <1>3, <1>4, <1>7, <3>1
    <3>3. QED
      BY <3>2
  <2>2. CASE w \notin N
    <3>1. w \notin sf /\ w \notin Behind(map, H)
      BY <1>3, <1>17, <2>2
    <3>2. PICK s \in L : map[s] = w
      BY <3>1 DEF Owned
    <3>3. s \notin H
      BY <1>17, <3>1, <3>2 DEF Behind, Img
    <3>4. s \notin R
      BY <1>5, <3>2, <3>3 DEF Owned
    <3>5. s \in L2 /\ map2[s] = w
      BY <1>3, <1>5, <1>7, <3>2, <3>3, <3>4
    <3>6. QED
      BY <3>5
  <2>3. QED
    BY <2>1, <2>2
<1>18. B \subseteq FullSlots /\ L2 \cup f2 = B /\ L2 \cap f2 = {}
  BY <1>3, <1>5 DEF Owned
<1>19. Owned(L2, f2, sf2, map2, B)
  BY <1>12, <1>13, <1>14, <1>15, <1>16, <1>17, <1>18 DEF Owned
<1>20. Same(map2, map, L \ H) /\ Mapped(map2, R)
  BY <1>5, <1>7, <1>10 DEF Owned, Same, Mapped
<1>21. QED
  BY <1>1, <1>3, <1>19, <1>20

(* The slots of H given back.                                               *)
LEMMA OwnedDrop ==
  ASSUME NEW L, NEW f, NEW sf, NEW map, NEW B, Owned(L, f, sf, map, B), NEW H \in SUBSET L
  PROVE  Owned(L \ H, f \cup H, sf \cup Behind(map, H), Released(map, H), B)
<1>1. PICK map2 : map2 = Released(map, H)
  OBVIOUS
<1>2. map2 = [s \in FullSlots |-> IF s \in H THEN 0 ELSE map[s]]
  BY <1>1 DEF Released
<1>3. PICK sf2 : sf2 = sf \cup Behind(map, H)
  OBVIOUS
<1>4. 0 \in SwaSlots /\ H \subseteq FullSlots /\ L \subseteq FullSlots
  BY SizesAre DEF SwaSlots, Owned
<1>5. map2 \in [FullSlots -> SwaSlots] /\ \A s \in FullSlots : map2[s] # 0 => s \in L \ H
  BY <1>2, <1>4 DEF Owned
<1>6. \A r, s \in L \ H : map2[r] # 0 /\ map2[r] = map2[s] => r = s
  BY <1>2, <1>4 DEF Owned
<1>7. sf2 \subseteq SwaSlots \ {0}
  BY <1>3, <1>4 DEF Behind, Img, Owned
<1>8. \A s \in L \ H : map2[s] \notin sf2
  BY <1>2, <1>3, <1>4 DEF Behind, Img, Owned
<1>9. ASSUME NEW w \in SwaSlots \ {0}, w \notin sf2
      PROVE  \E s \in L \ H : map2[s] = w
  <2>1. PICK s \in L : map[s] = w
    BY <1>3, <1>9 DEF Owned
  <2>2. s \notin H /\ map2[s] = w
    BY <1>2, <1>3, <1>4, <1>9, <2>1 DEF Behind, Img
  <2>3. QED
    BY <2>1, <2>2
<1>10. B \subseteq FullSlots /\ (L \ H) \cup (f \cup H) = B /\ (L \ H) \cap (f \cup H) = {}
  BY DEF Owned
<1>11. Owned(L \ H, f \cup H, sf2, map2, B)
  BY <1>5, <1>6, <1>7, <1>8, <1>9, <1>10 DEF Owned
<1>12. QED
  BY <1>1, <1>3, <1>11

(* The window slots of the slots of G given back, the slots still held.     *)
LEMMA OwnedFree ==
  ASSUME NEW L, NEW f, NEW sf, NEW map, NEW B, Owned(L, f, sf, map, B), NEW G \in SUBSET L
  PROVE  Owned(L, f, sf \cup Behind(map, G), Released(map, G), B)
<1>1. PICK map2 : map2 = Released(map, G)
  OBVIOUS
<1>2. map2 = [s \in FullSlots |-> IF s \in G THEN 0 ELSE map[s]]
  BY <1>1 DEF Released
<1>3. PICK sf2 : sf2 = sf \cup Behind(map, G)
  OBVIOUS
<1>4. 0 \in SwaSlots /\ G \subseteq FullSlots /\ L \subseteq FullSlots
  BY SizesAre DEF SwaSlots, Owned
<1>5. map2 \in [FullSlots -> SwaSlots] /\ \A s \in FullSlots : map2[s] # 0 => s \in L
  BY <1>2, <1>4 DEF Owned
<1>6. \A r, s \in L : map2[r] # 0 /\ map2[r] = map2[s] => r = s
  BY <1>2, <1>4 DEF Owned
<1>7. sf2 \subseteq SwaSlots \ {0}
  BY <1>3, <1>4 DEF Behind, Img, Owned
<1>8. ASSUME NEW s \in L
      PROVE  map2[s] \notin sf2
  <2>1. CASE map2[s] = 0
    BY <1>7, <2>1
  <2>2. CASE map2[s] # 0
    <3>1. s \notin G /\ map2[s] = map[s]
      BY <1>2, <1>4, <2>2
    <3>2. \A g \in G : map[g] # map[s]
      BY <1>4, <2>2, <3>1 DEF Owned
    <3>3. QED
      BY <1>3, <3>1, <3>2 DEF Behind, Img, Owned
  <2>3. QED
    BY <2>1, <2>2
<1>9. ASSUME NEW w \in SwaSlots \ {0}, w \notin sf2
      PROVE  \E s \in L : map2[s] = w
  <2>1. PICK s \in L : map[s] = w
    BY <1>3, <1>9 DEF Owned
  <2>2. map2[s] = w
    BY <1>2, <1>3, <1>4, <1>9, <2>1 DEF Behind, Img
  <2>3. QED
    BY <2>2
<1>10. Owned(L, f, sf2, map2, B)
  BY <1>5, <1>6, <1>7, <1>8, <1>9 DEF Owned
<1>11. QED
  BY <1>1, <1>3, <1>10

-----------------------------------------------------------------------------
(* Counting.                                                                *)

(* What covers a set is together no smaller.                                *)
LEMMA CoverSize ==
  ASSUME NEW A, IsFiniteSet(A), NEW B, IsFiniteSet(B), NEW S, S \subseteq A \cup B
  PROVE  /\ IsFiniteSet(S) /\ Cardinality(S) \in Nat
         /\ Cardinality(A) \in Nat /\ Cardinality(B) \in Nat
         /\ Cardinality(S) <= Cardinality(A) + Cardinality(B)
<1>1. PICK U : U = A \cup B
  OBVIOUS
<1>2. /\ IsFiniteSet(U)
      /\ Cardinality(U) = Cardinality(A) + Cardinality(B) - Cardinality(A \cap B)
  BY <1>1, FS_Union
<1>3. IsFiniteSet(A \cap B)
  BY FS_Subset
<1>4. IsFiniteSet(S) /\ Cardinality(S) <= Cardinality(U)
  BY <1>1, <1>2, FS_Subset
<1>5. /\ Cardinality(S) \in Nat /\ Cardinality(A) \in Nat /\ Cardinality(B) \in Nat
      /\ Cardinality(A \cap B) \in Nat
  BY <1>3, <1>4, FS_CardinalityType
<1>6. QED
  BY <1>2, <1>4, <1>5

-----------------------------------------------------------------------------
(* The rows of the cached texts and of the request.                         *)

LEMMA SmallerIs ==
  ASSUME NEW a \in Int, NEW b \in Int
  PROVE  Smaller(a, b) \in {a, b} /\ Smaller(a, b) <= a /\ Smaller(a, b) <= b
BY DEF Smaller

LEMMA PrefixIs ==
  ASSUME NEW S, NEW q \in Seq(S), NEW k \in Nat, k <= Len(q)
  PROVE  /\ SubSeq(q, 1, k) \in Seq(S) /\ Len(SubSeq(q, 1, k)) = k
         /\ \A i \in 1 .. k : i \in DOMAIN q /\ SubSeq(q, 1, k)[i] = q[i]
<1>1. \A i \in 1 .. k : q[i] \in S /\ i \in DOMAIN q
  OBVIOUS
<1>2. QED
  BY <1>1

LEMMA SuffixIs ==
  ASSUME NEW S, NEW q \in Seq(S), NEW k \in Nat
  PROVE  \A x : x \in Range(SubSeq(q, k + 1, Len(q))) <=> \E j \in DOMAIN q : j > k /\ q[j] = x
<1>0. PICK n \in Nat : n = Len(q)
  OBVIOUS
<1>1. PICK r : r = SubSeq(q, k + 1, n)
  OBVIOUS
<1>2. /\ Len(r) = IF k + 1 <= n THEN n - (k + 1) + 1 ELSE 0
      /\ \A i \in 1 .. n - (k + 1) + 1 : r[i] = q[(k + 1) + i - 1]
      /\ r \in Seq(S)
  <2>1. \A i \in (k + 1) .. n : q[i] \in S
    BY <1>0
  <2>2. k + 1 \in Int /\ n \in Int
    OBVIOUS
  <2>3. QED
    BY <1>1, <2>1, <2>2, SubSeqProperties
<1>3. DOMAIN q = 1 .. n /\ DOMAIN r = 1 .. Len(r) /\ Len(r) \in Nat
  BY <1>0, <1>2
<1>4. ASSUME NEW i \in DOMAIN r
      PROVE  k + i \in DOMAIN q /\ k + i > k /\ r[i] = q[k + i]
  <2>1. i \in 1 .. (n - (k + 1) + 1) /\ (k + 1) + i - 1 = k + i /\ k + i \in 1 .. n /\ k + i > k
    BY <1>2, <1>3
  <2>2. QED
    BY <1>2, <1>3, <2>1
<1>5. ASSUME NEW j \in DOMAIN q, j > k
      PROVE  \E i \in DOMAIN r : r[i] = q[j]
  <2>1. PICK i \in Int : i = j - k
    BY <1>3
  <2>2. j \in 1 .. n
    BY <1>3
  <2>3. k + 1 <= n /\ i \in 1 .. (n - (k + 1) + 1) /\ (k + 1) + i - 1 = j
    BY <1>5, <2>1, <2>2
  <2>4. i \in DOMAIN r
    BY <1>2, <1>3, <2>3
  <2>5. QED
    BY <1>2, <2>3, <2>4
<1>6. \A x : x \in Range(r) <=> \E i \in DOMAIN r : r[i] = x
  BY DEF Range
<1>7. \A x : x \in Range(r) <=> \E j \in DOMAIN q : j > k /\ q[j] = x
  BY <1>4, <1>5, <1>6
<1>8. QED
  BY <1>0, <1>1, <1>7

ServePhases == {"none", "prefill", "decode", "topk"}
ReqTypes ==
  /\ req = [phase |-> req.phase, text |-> req.text, prompt |-> req.prompt,
            matched |-> req.matched, row |-> req.row]
  /\ req.phase \in ServePhases /\ req.prompt \in Nat /\ req.matched \in Nat
  /\ req.row \in Seq(FullSlots)
  /\ req.phase # "none" => req.text \in Texts
  /\ req.phase = "none" => req.row = <<>> /\ req.matched = 0
  /\ req.phase = "prefill" => Len(req.row) <= req.prompt

(* No slot is in two places, but for the prefix the request matched, which  *)
(* it shares with the cached row of its own text at the same positions.     *)
RowsApart ==
  /\ cache \in [Texts -> Seq(FullSlots)]
  /\ \A t \in Texts : NoTwice(cache[t])
  /\ \A t, u \in Texts : \A i \in DOMAIN cache[t], j \in DOMAIN cache[u] :
       cache[t][i] = cache[u][j] => t = u
  /\ NoTwice(req.row)
  /\ \A i \in DOMAIN req.row : \A t \in Texts : \A j \in DOMAIN cache[t] :
       cache[t][j] = req.row[i] => t = req.text /\ j = i /\ i <= req.matched

(* What the queries to come read of the row in the window layers is still   *)
(* there, whatever else of it was given back.                               *)
Reach(phase) == IF phase = "topk" THEN Window ELSE Window - 1
NeedsKept == \A i \in Near(Len(req.row), Reach(req.phase)) : swaMap[req.row[i]] # 0

OwnInv ==
  /\ ReqTypes
  /\ RowsApart
  /\ NeedsKept
  /\ mapped \in 1 .. StepsMax
  /\ Owned(LiveSlots, free, swaFree, swaMap, Backed(mapped))

(* What the cache holds for the texts T.                                    *)
LEMMA HeldIs ==
  ASSUME NEW T, NEW x
  PROVE  x \in Held(T) <=> \E t \in T : \E j \in DOMAIN cache[t] : cache[t][j] = x
<1>1. x \in Held(T) <=> \E t \in T : x \in Range(cache[t])
  BY Zenon DEF Held
<1>2. \A t : x \in Range(cache[t]) <=> \E j \in DOMAIN cache[t] : cache[t][j] = x
  BY DEF Range
<1>3. QED
  BY <1>1, <1>2

(* The same of any cache, to speak of the next one.                         *)
HeldBy(c, T) == UNION {Range(c[t]) : t \in T}

LEMMA HeldByIs ==
  /\ \A c, T, x : x \in HeldBy(c, T) <=> \E t \in T : \E j \in DOMAIN c[t] : c[t][j] = x
  /\ \A T : Held(T) = HeldBy(cache, T) /\ Held(T)' = HeldBy(cache', T)
<1>1. ASSUME NEW c, NEW T, NEW x
      PROVE  x \in HeldBy(c, T) <=> \E t \in T : \E j \in DOMAIN c[t] : c[t][j] = x
  <2>1. x \in HeldBy(c, T) <=> \E t \in T : x \in Range(c[t])
    BY Zenon DEF HeldBy
  <2>2. \A t : x \in Range(c[t]) <=> \E j \in DOMAIN c[t] : c[t][j] = x
    BY DEF Range
  <2>3. QED
    BY <2>1, <2>2
<1>2. \A T : Held(T) = HeldBy(cache, T) /\ Held(T)' = HeldBy(cache', T)
  BY Zenon DEF Held, HeldBy
<1>3. QED
  BY <1>1, <1>2

(* What an eviction of texts T frees, and what it leaves in the cache.      *)
LEMMA EvictedIs ==
  ASSUME OwnInv, NEW T \in SUBSET Evictable
  PROVE  /\ T \in SUBSET Texts /\ Freed(T) \in SUBSET LiveSlots
         /\ SwaOf(Freed(T)) = Behind(swaMap, Freed(T))
         /\ Freed(T) \cap Range(req.row) = {}
         /\ Remaining(T) \in [Texts -> Seq(FullSlots)]
         /\ \A t \in Texts : \A j \in DOMAIN Remaining(T)[t] :
              j \in DOMAIN cache[t] /\ Remaining(T)[t][j] = cache[t][j] /\ cache[t][j] \notin Freed(T)
         /\ LiveSlots \ Freed(T) = HeldBy(Remaining(T), Texts) \cup Range(req.row)
<1>1. /\ T \subseteq Texts /\ cache \in [Texts -> Seq(FullSlots)]
      /\ \A t \in T : Len(cache[t]) > Locked(t)
      /\ \A t \in Texts : NoTwice(cache[t]) /\ Locked(t) \in Nat
      /\ \A t, u \in Texts : \A i \in DOMAIN cache[t], j \in DOMAIN cache[u] : cache[t][i] = cache[u][j] => t = u
  BY DEF OwnInv, RowsApart, ReqTypes, Evictable, Locked
<1>2. \A x : x \in Freed(T) <=> \E t \in T : \E j \in DOMAIN cache[t] : j > Locked(t) /\ cache[t][j] = x
  <2>1. \A x : x \in Freed(T) <=> \E t \in T : x \in Range(SubSeq(cache[t], Locked(t) + 1, Len(cache[t])))
    BY Zenon DEF Freed
  <2>2. ASSUME NEW t \in T
        PROVE  \A x : x \in Range(SubSeq(cache[t], Locked(t) + 1, Len(cache[t])))
                 <=> \E j \in DOMAIN cache[t] : j > Locked(t) /\ cache[t][j] = x
    <3>1. cache[t] \in Seq(FullSlots) /\ Locked(t) \in Nat
      BY <1>1
    <3>2. QED
      BY <3>1, SuffixIs
  <2>3. QED
    BY <2>1, <2>2
<1>3. Freed(T) \cap Range(req.row) = {}
  <2>1. ASSUME NEW x \in Freed(T), x \in Range(req.row)
        PROVE  FALSE
    <3>1. PICK t \in T : \E j \in DOMAIN cache[t] : j > Locked(t) /\ cache[t][j] = x
      BY <1>2
    <3>2. PICK j \in DOMAIN cache[t] : j > Locked(t) /\ cache[t][j] = x
      BY <3>1
    <3>3. PICK i \in DOMAIN req.row : req.row[i] = x
      BY <2>1 DEF Range
    <3>4. t \in Texts /\ t = req.text /\ j = i /\ i <= req.matched
      BY <1>1, <3>2, <3>3 DEF OwnInv, RowsApart
    <3>5. j \in Nat /\ req.matched \in Nat /\ Locked(t) = req.matched
      BY <1>1, <3>4 DEF Locked, OwnInv, ReqTypes
    <3>6. QED
      BY <3>2, <3>4, <3>5
  <2>2. QED
    BY <2>1
<1>4. PICK c : c = Remaining(T)
  OBVIOUS
<1>5. c = [t \in Texts |-> IF t \in T THEN SubSeq(cache[t], 1, Locked(t)) ELSE cache[t]]
  BY <1>4 DEF Remaining
<1>6. ASSUME NEW t \in Texts
      PROVE  /\ c[t] \in Seq(FullSlots)
             /\ \A j \in DOMAIN c[t] : j \in DOMAIN cache[t] /\ c[t][j] = cache[t][j] /\ (t \in T => ~(j > Locked(t)))
             /\ \A j \in DOMAIN cache[t] : (t \in T => ~(j > Locked(t))) => j \in DOMAIN c[t]
  <2>1. CASE t \in T
    <3>1. /\ cache[t] \in Seq(FullSlots) /\ DOMAIN cache[t] = 1 .. Len(cache[t])
          /\ Locked(t) \in Nat /\ Locked(t) <= Len(cache[t])
      BY <1>1, <2>1
    <3>2. c[t] = SubSeq(cache[t], 1, Locked(t))
      BY <1>5, <2>1
    <3>3. /\ c[t] \in Seq(FullSlots) /\ Len(c[t]) = Locked(t)
          /\ \A i \in 1 .. Locked(t) : i \in DOMAIN cache[t] /\ c[t][i] = cache[t][i]
      BY <3>1, <3>2, PrefixIs
    <3>4. DOMAIN c[t] = 1 .. Locked(t)
      BY <3>3
    <3>5. \A j \in DOMAIN cache[t] : ~(j > Locked(t)) => j \in DOMAIN c[t]
      BY <3>1, <3>4
    <3>6. \A j \in DOMAIN c[t] : ~(j > Locked(t))
      BY <3>1, <3>4
    <3>7. QED
      BY <2>1, <3>3, <3>4, <3>5, <3>6
  <2>2. CASE t \notin T
    BY <1>1, <1>5, <2>2
  <2>3. QED
    BY <2>1, <2>2
<1>7. c \in [Texts -> Seq(FullSlots)]
  BY <1>5, <1>6
<1>8. ASSUME NEW t \in Texts, NEW j \in DOMAIN c[t], cache[t][j] \in Freed(T)
      PROVE  FALSE
  <2>1. PICK u \in T : \E i \in DOMAIN cache[u] : i > Locked(u) /\ cache[u][i] = cache[t][j]
    BY <1>2, <1>8
  <2>2. PICK i \in DOMAIN cache[u] : i > Locked(u) /\ cache[u][i] = cache[t][j]
    BY <2>1
  <2>3. j \in DOMAIN cache[t] /\ u \in Texts
    BY <1>1, <1>6
  <2>4. u = t
    BY <1>1, <2>2, <2>3
  <2>5. i = j
    BY <1>1, <2>2, <2>3, <2>4 DEF NoTwice
  <2>6. QED
    BY <1>6, <2>2, <2>4, <2>5
<1>9. Freed(T) \subseteq Held(Texts)
  BY <1>1, <1>2, HeldIs
<1>10. \A x : x \in HeldBy(c, Texts) <=> x \in Held(Texts) /\ x \notin Freed(T)
  <2> TAKE x
  <2>1. x \in HeldBy(c, Texts) <=> \E t \in Texts : \E j \in DOMAIN c[t] : c[t][j] = x
    BY HeldByIs
  <2>2. x \in Held(Texts) <=> \E t \in Texts : \E j \in DOMAIN cache[t] : cache[t][j] = x
    BY HeldIs
  <2>3. ASSUME x \in HeldBy(c, Texts)
        PROVE  x \in Held(Texts) /\ x \notin Freed(T)
    <3>1. PICK t \in Texts : \E j \in DOMAIN c[t] : c[t][j] = x
      BY <2>1, <2>3
    <3>2. PICK j \in DOMAIN c[t] : c[t][j] = x
      BY <3>1
    <3>3. j \in DOMAIN cache[t] /\ cache[t][j] = x
      BY <1>6, <3>2
    <3>4. QED
      BY <1>8, <2>2, <3>2, <3>3
  <2>4. ASSUME x \in Held(Texts), x \notin Freed(T)
        PROVE  x \in HeldBy(c, Texts)
    <3>1. PICK t \in Texts : \E j \in DOMAIN cache[t] : cache[t][j] = x
      BY <2>2, <2>4
    <3>2. PICK j \in DOMAIN cache[t] : cache[t][j] = x
      BY <3>1
    <3>3. t \in T => ~(j > Locked(t))
      BY <1>2, <2>4, <3>2
    <3>4. j \in DOMAIN c[t] /\ c[t][j] = x
      BY <1>6, <3>2, <3>3
    <3>5. QED
      BY <2>1, <3>4
  <2>5. QED
    BY <2>3, <2>4
<1>11. LiveSlots \ Freed(T) = HeldBy(c, Texts) \cup Range(req.row) /\ Freed(T) \subseteq LiveSlots
  BY <1>3, <1>9, <1>10 DEF LiveSlots
<1>12. SwaOf(Freed(T)) = Behind(swaMap, Freed(T))
  BY DEF SwaOf, Behind, Img
<1>13. QED
  BY <1>1, <1>3, <1>4, <1>6, <1>7, <1>8, <1>11, <1>12

(* Between requests no text is locked: an eviction takes all of it.         *)
LEMMA IdleEvicts ==
  ASSUME OwnInv, req.phase = "none", NEW T \in SUBSET Evictable
  PROVE  /\ T \in SUBSET Texts /\ Held(T) \in SUBSET LiveSlots /\ Freed(T) = Held(T)
         /\ LiveSlots = Held(Texts) /\ Held(Texts \ T) = Held(Texts) \ Held(T)
         /\ Remaining(T) = [t \in Texts |-> IF t \in T THEN <<>> ELSE cache[t]]
<1>1. /\ T \subseteq Texts /\ cache \in [Texts -> Seq(FullSlots)] /\ req.row = <<>>
      /\ \A t \in Texts : Locked(t) = 0
      /\ \A t, u \in Texts : \A i \in DOMAIN cache[t], j \in DOMAIN cache[u] : cache[t][i] = cache[u][j] => t = u
  BY DEF OwnInv, RowsApart, ReqTypes, Evictable, Locked
<1>2. Range(req.row) = {}
  BY <1>1 DEF Range
<1>3. \A t \in Texts : cache[t] \in Seq(FullSlots)
  BY <1>1
<1>4. \A t \in T : SubSeq(cache[t], 1, Locked(t)) = <<>>
  <2> SUFFICES ASSUME NEW t \in T
               PROVE  SubSeq(cache[t], 1, Locked(t)) = <<>>
    OBVIOUS
  <2>1. 0 \in Int /\ 1 \in Int /\ 0 < 1
    OBVIOUS
  <2>2. SubSeq(cache[t], 1, 0) = <<>>
    BY <2>1, SubSeqEmpty
  <2>3. QED
    BY <1>1, <2>2
<1>5. \A t \in T : SubSeq(cache[t], Locked(t) + 1, Len(cache[t])) = cache[t]
  <2> SUFFICES ASSUME NEW t \in T
               PROVE  SubSeq(cache[t], Locked(t) + 1, Len(cache[t])) = cache[t]
    OBVIOUS
  <2>1. PICK q \in Seq(FullSlots) : q = cache[t]
    BY <1>1, <1>3
  <2>2. SubSeq(q, 1, Len(q)) = q
    OBVIOUS
  <2>3. Locked(t) + 1 = 1
    BY <1>1
  <2>4. QED
    BY <2>1, <2>2, <2>3
<1>6. Freed(T) = Held(T)
  <2>1. \A x : x \in Freed(T) <=> \E t \in T : x \in Range(SubSeq(cache[t], Locked(t) + 1, Len(cache[t])))
    BY Zenon DEF Freed
  <2>2. \A x : x \in Held(T) <=> \E t \in T : x \in Range(cache[t])
    BY Zenon DEF Held
  <2>3. \A x : x \in Freed(T) <=> x \in Held(T)
    BY <1>5, <2>1, <2>2
  <2>4. QED
    BY <2>3
<1>7. \A x : x \in Held(Texts \ T) <=> x \in Held(Texts) /\ x \notin Held(T)
  <2> TAKE x
  <2>1. x \in Held(Texts) <=> \E t \in Texts : \E j \in DOMAIN cache[t] : cache[t][j] = x
    BY HeldIs
  <2>2. x \in Held(T) <=> \E t \in T : \E j \in DOMAIN cache[t] : cache[t][j] = x
    BY HeldIs
  <2>3. x \in Held(Texts \ T) <=> \E t \in Texts \ T : \E j \in DOMAIN cache[t] : cache[t][j] = x
    BY HeldIs
  <2>4. QED
    BY <1>1, <2>1, <2>2, <2>3
<1>8. Held(T) \subseteq Held(Texts) /\ LiveSlots = Held(Texts)
  <2>1. \A x : x \in Held(T) => x \in Held(Texts)
    <3> TAKE x
    <3>1. x \in Held(Texts) <=> \E t \in Texts : \E j \in DOMAIN cache[t] : cache[t][j] = x
      BY HeldIs
    <3>2. x \in Held(T) <=> \E t \in T : \E j \in DOMAIN cache[t] : cache[t][j] = x
      BY HeldIs
    <3>3. QED
      BY <1>1, <3>1, <3>2
  <2>2. QED
    BY <1>2, <2>1 DEF LiveSlots
<1>9. Remaining(T) = [t \in Texts |-> IF t \in T THEN <<>> ELSE cache[t]]
  BY <1>4 DEF Remaining
<1>10. QED
  BY <1>1, <1>6, <1>7, <1>8, <1>9

LEMMA LiveFinite ==
  ASSUME OwnInv
  PROVE  /\ Backed(mapped) \subseteq FullSlots \ {DummySlot} /\ IsFiniteSet(Backed(mapped))
         /\ LiveSlots \subseteq Backed(mapped) /\ free \subseteq Backed(mapped)
         /\ LiveSlots \cap free = {} /\ FullSlots \subseteq Nat
<1>1. mapped \in 1 .. StepsMax /\ Owned(LiveSlots, free, swaFree, swaMap, Backed(mapped))
  BY DEF OwnInv
<1>2. Backed(mapped) \subseteq FullSlots \ {DummySlot} /\ IsFiniteSet(Backed(mapped))
  BY <1>1, BackedIs
<1>3. FullSlots \subseteq Nat
  BY TotalIs DEF FullSlots
<1>4. QED
  BY <1>1, <1>2, <1>3 DEF Owned

(* The slots a step takes: n of them, and as many window slots.             *)
LEMMA AllocatedIs ==
  ASSUME OwnInv, NEW n \in Nat, NEW T, T \in Victims(n - Cardinality(free)),
         n <= Cardinality(swaFree \cup SwaOf(Freed(T))),
         NEW a, a = Allocated(n, T)
  PROVE  /\ T \in SUBSET Evictable
         /\ a.slots \in Seq(free \cup Freed(T)) /\ Len(a.slots) = n /\ NoTwice(a.slots)
         /\ Owned((LiveSlots \ Freed(T)) \cup Range(a.slots), a.free, a.swaFree, a.map, Backed(mapped))
         /\ Mapped(a.map, Range(a.slots)) /\ Same(a.map, swaMap, LiveSlots \ Freed(T))
<1>1. T \in SUBSET Evictable
  BY DEF Victims
<1>2. PICK H : H = Freed(T)
  OBVIOUS
<1>3. H \in SUBSET LiveSlots /\ SwaOf(H) = Behind(swaMap, H)
  BY <1>1, <1>2, EvictedIs
<1>4. PICK L, f, sf, map, B : /\ L = LiveSlots /\ f = free /\ sf = swaFree /\ map = swaMap
                              /\ B = Backed(mapped)
  OBVIOUS
<1>5. /\ Owned(L, f, sf, map, B) /\ B \subseteq FullSlots \ {DummySlot} /\ H \in SUBSET L
      /\ IsFiniteSet(B) /\ L \subseteq B /\ f \subseteq B /\ L \cap f = {} /\ FullSlots \subseteq Nat
  BY <1>3, <1>4, LiveFinite DEF OwnInv
<1>6. PICK O, W : O = f \cup H /\ W = sf \cup Behind(map, H)
  OBVIOUS
<1>7. /\ IsFiniteSet(O) /\ IsFiniteSet(W) /\ Cardinality(O) \in Nat /\ Cardinality(W) \in Nat
      /\ n <= Cardinality(W) /\ W \subseteq SwaSlots
  <2>1. \A h \in H : map[h] \in SwaSlots
    BY <1>5 DEF Owned
  <2>2. W \subseteq SwaSlots
    BY <1>5, <1>6, <2>1 DEF Owned, Behind, Img
  <2>3. IsFiniteSet(SwaSlots)
    <3>1. 0 \in Int /\ SwaTokens - 1 \in Int
      BY SizesAre
    <3>2. QED
      BY <3>1, FS_Interval DEF SwaSlots
  <2>4. O \subseteq B
    BY <1>5, <1>6
  <2>5. IsFiniteSet(O) /\ IsFiniteSet(W)
    BY <1>5, <2>2, <2>3, <2>4, FS_Subset
  <2>6. n <= Cardinality(W)
    BY <1>2, <1>3, <1>4, <1>6
  <2>7. QED
    BY <2>2, <2>5, <2>6, FS_CardinalityType
<1>8. n <= Cardinality(O)
  <2>1. f \cap H = {} /\ f \subseteq O /\ H \subseteq O
    BY <1>5, <1>6
  <2>2. /\ Cardinality(f) \in Nat /\ Cardinality(H) \in Nat
        /\ Cardinality(f) + Cardinality(H) <= Cardinality(O)
    BY <1>7, <2>1, DisjointSize
  <2>3. CASE n - Cardinality(f) <= 0
    BY <1>7, <2>2, <2>3
  <2>4. CASE ~(n - Cardinality(f) <= 0)
    <3>1. Cardinality(H) >= n - Cardinality(f)
      BY <1>2, <1>4, <2>4 DEF Victims
    <3>2. QED
      BY <1>7, <2>2, <3>1
  <2>5. QED
    BY <2>3, <2>4
<1>9. O \in SUBSET Int /\ W \in SUBSET Int
  <2>1. SwaSlots \subseteq Int
    BY SizesAre DEF SwaSlots
  <2>3. W \subseteq SwaSlots
    BY <1>7
  <2>4. O \subseteq FullSlots
    BY <1>5, <1>6
  <2>5. \A x \in FullSlots : x \in Int
    BY <1>5
  <2>6. QED
    BY <2>1, <2>3, <2>4, <2>5
<1>10. PICK slots, news : slots = Lowest(O, n) /\ news = Lowest(W, n)
  OBVIOUS
<1>11. slots \in Seq(O) /\ Len(slots) = n /\ NoTwice(slots)
  <2>1. /\ slots \in Seq(O) /\ Len(slots) = n
        /\ \A i, j \in 1 .. n : slots[i] = slots[j] => i = j
    BY <1>7, <1>8, <1>9, <1>10, LowestIs
  <2>2. DOMAIN slots = 1 .. n
    BY <2>1
  <2>3. QED
    BY <2>1, <2>2 DEF NoTwice
<1>12. news \in Seq(W) /\ Len(news) = n /\ NoTwice(news)
  <2>0. n <= Cardinality(W)
    BY <1>7
  <2>1. /\ news \in Seq(W) /\ Len(news) = n
        /\ \A i, j \in 1 .. n : news[i] = news[j] => i = j
    BY <1>7, <1>9, <1>10, <2>0, LowestIs
  <2>2. DOMAIN news = 1 .. n
    BY <2>1
  <2>3. QED
    BY <2>1, <2>2 DEF NoTwice
<1>13. PICK map2 : map2 = Put(Released(map, H), slots, news)
  OBVIOUS
<1>14. /\ Owned((L \ H) \cup Range(slots), (f \cup H) \ Range(slots),
                (sf \cup Behind(map, H)) \ Range(news), map2, B)
       /\ Mapped(map2, Range(slots)) /\ Same(map2, map, L \ H)
  <2>1. slots \in Seq(f \cup H) /\ news \in Seq(sf \cup Behind(map, H))
    BY <1>6, <1>11, <1>12
  <2>2. QED
    BY <1>5, <1>11, <1>12, <1>13, <2>1, OwnedTake
<1>15. /\ a.slots = slots /\ a.free = O \ Range(slots) /\ a.swaFree = W \ Range(news)
       /\ a.map = Put(Released(map, H), slots, news)
  <2>1. a = [slots |-> slots, map |-> Put(Released(map, H), slots, news),
             free |-> O \ Range(slots), swaFree |-> W \ Range(news)]
    BY <1>2, <1>3, <1>4, <1>6, <1>10, Zenon DEF Allocated
  <2>2. QED
    BY <2>1
<1>16. QED
  BY <1>1, <1>2, <1>4, <1>6, <1>11, <1>13, <1>15, <1>14

LEMMA RowGrows ==
  ASSUME NEW a \in Seq(FullSlots), NEW b \in Seq(FullSlots), NoTwice(a), NoTwice(b),
         Range(a) \cap Range(b) = {}
  PROVE  /\ a \o b \in Seq(FullSlots) /\ Len(a \o b) = Len(a) + Len(b) /\ NoTwice(a \o b)
         /\ Range(a \o b) = Range(a) \cup Range(b)
         /\ \A i \in 1 .. Len(a) : (a \o b)[i] = a[i]
         /\ \A i \in DOMAIN (a \o b) : i \in DOMAIN a \/ (a \o b)[i] \in Range(b)
<1>1. PICK c : c = a \o b
  OBVIOUS
<1>2. PICK m \in Nat, n \in Nat : m = Len(a) /\ n = Len(b)
  OBVIOUS
<1>3. /\ c \in Seq(FullSlots) /\ Len(c) = m + n
      /\ \A i \in 1 .. m : c[i] = a[i]
      /\ \A i \in 1 .. n : c[m + i] = b[i]
  BY <1>1, <1>2
<1>4. DOMAIN c = 1 .. (m + n) /\ DOMAIN a = 1 .. m /\ DOMAIN b = 1 .. n
  BY <1>2, <1>3
<1>5. ASSUME NEW i \in 1 .. (m + n), ~(i <= m)
      PROVE  \E k \in 1 .. n : i = m + k /\ c[i] = b[k] /\ c[i] \in Range(b)
  <2>1. PICK k \in 1 .. n : i = m + k
    <3>1. i - m \in 1 .. n /\ i = m + (i - m)
      BY <1>5
    <3>2. QED
      BY <3>1
  <2>2. c[i] = b[k]
    BY <1>3, <2>1
  <2>3. b[k] \in Range(b)
    BY <1>4 DEF Range
  <2>4. QED
    BY <2>1, <2>2, <2>3
<1>6. ASSUME NEW i \in 1 .. (m + n), i <= m
      PROVE  i \in 1 .. m /\ c[i] = a[i] /\ c[i] \in Range(a)
  <2>1. i \in 1 .. m
    BY <1>6
  <2>2. QED
    BY <1>3, <1>4, <2>1 DEF Range
<1>7. ASSUME NEW i \in 1 .. (m + n), NEW j \in 1 .. (m + n), c[i] = c[j]
      PROVE  i = j
  <2>1. CASE i <= m /\ j <= m
    BY <1>4, <1>6, <1>7, <2>1 DEF NoTwice
  <2>2. CASE i <= m /\ ~(j <= m)
    BY <1>5, <1>6, <1>7, <2>2
  <2>3. CASE ~(i <= m) /\ j <= m
    BY <1>5, <1>6, <1>7, <2>3
  <2>4. CASE ~(i <= m) /\ ~(j <= m)
    <3>1. PICK k \in 1 .. n : i = m + k /\ c[i] = b[k]
      BY <1>5, <2>4
    <3>2. PICK h \in 1 .. n : j = m + h /\ c[j] = b[h]
      BY <1>5, <2>4
    <3>3. k = h
      BY <1>4, <1>7, <3>1, <3>2 DEF NoTwice
    <3>4. QED
      BY <3>1, <3>2, <3>3
  <2>5. QED
    BY <2>1, <2>2, <2>3, <2>4
<1>8. NoTwice(c)
  BY <1>4, <1>7 DEF NoTwice
<1>9. Range(c) = Range(a) \cup Range(b)
  <2>1. \A x \in Range(c) : x \in Range(a) \/ x \in Range(b)
    BY <1>4, <1>5, <1>6 DEF Range
  <2>2. ASSUME NEW x \in Range(a)
        PROVE  x \in Range(c)
    <3>1. PICK i \in 1 .. m : a[i] = x
      BY <1>4 DEF Range
    <3>2. i \in 1 .. (m + n) /\ c[i] = x
      BY <1>3, <3>1
    <3>3. QED
      BY <1>4, <3>2 DEF Range
  <2>3. ASSUME NEW x \in Range(b)
        PROVE  x \in Range(c)
    <3>1. PICK i \in 1 .. n : b[i] = x
      BY <1>4 DEF Range
    <3>2. m + i \in 1 .. (m + n) /\ c[m + i] = x
      BY <1>3, <3>1
    <3>3. QED
      BY <1>4, <3>2 DEF Range
  <2>4. QED
    BY <2>1, <2>2, <2>3
<1>10. \A i \in DOMAIN c : i \in DOMAIN a \/ c[i] \in Range(b)
  BY <1>4, <1>5, <1>6
<1>11. QED
  BY <1>1, <1>2, <1>3, <1>8, <1>9, <1>10

(* A prefill or a decode step: the row grows by the slots taken.            *)
LEMMA ExtendKeeps ==
  ASSUME OwnInv, NEW n \in Nat, NEW T, NEW phase \in ServePhases \ {"none"}, NEW a,
         a = Allocated(n, T), Extend(n, T, phase, a), mapped' = mapped,
         req.phase \in {"prefill", "decode"}, phase = "topk" => n = 1, phase = "prefill" => Len(req.row) + n <= req.prompt
  PROVE  OwnInv'
<1>1. /\ T \in Victims(n - Cardinality(free)) /\ n <= Cardinality(swaFree \cup SwaOf(Freed(T)))
      /\ swaMap' = a.map /\ free' = a.free
      /\ swaFree' = a.swaFree /\ cache' = Remaining(T)
      /\ req' = [req EXCEPT !.row = @ \o a.slots, !.phase = phase]
  BY Zenon DEF Extend, Store
<1>2. PICK s : s = a.slots
  OBVIOUS
<1>3. /\ T \in SUBSET Evictable /\ s \in Seq(free \cup Freed(T)) /\ Len(s) = n /\ NoTwice(s)
      /\ Owned((LiveSlots \ Freed(T)) \cup Range(s), a.free, a.swaFree, a.map, Backed(mapped))
      /\ Mapped(a.map, Range(s)) /\ Same(a.map, swaMap, LiveSlots \ Freed(T))
  <2>1. /\ T \in SUBSET Evictable
        /\ a.slots \in Seq(free \cup Freed(T)) /\ Len(a.slots) = n /\ NoTwice(a.slots)
        /\ Owned((LiveSlots \ Freed(T)) \cup Range(a.slots), a.free, a.swaFree, a.map, Backed(mapped))
        /\ Mapped(a.map, Range(a.slots)) /\ Same(a.map, swaMap, LiveSlots \ Freed(T))
    BY <1>1, AllocatedIs
  <2>2. QED
    BY <1>2, <2>1
<1>4. PICK c : c = Remaining(T)
  OBVIOUS
<1>5. /\ Freed(T) \in SUBSET LiveSlots /\ T \in SUBSET Texts
      /\ Freed(T) \cap Range(req.row) = {} /\ c \in [Texts -> Seq(FullSlots)]
      /\ \A t \in Texts : \A j \in DOMAIN c[t] : j \in DOMAIN cache[t] /\ c[t][j] = cache[t][j]
      /\ LiveSlots \ Freed(T) = HeldBy(c, Texts) \cup Range(req.row)
  BY <1>3, <1>4, EvictedIs
<1>6. /\ Backed(mapped) \subseteq FullSlots \ {DummySlot} /\ LiveSlots \subseteq Backed(mapped)
      /\ free \subseteq Backed(mapped) /\ LiveSlots \cap free = {}
  BY LiveFinite
<1>7. Range(s) \subseteq free \cup Freed(T)
  BY <1>3 DEF Range
<1>8. /\ Range(req.row) \cap Range(s) = {} /\ HeldBy(c, Texts) \cap Range(s) = {}
      /\ s \in Seq(FullSlots)
  <2>1. Range(req.row) \subseteq LiveSlots /\ HeldBy(c, Texts) \subseteq LiveSlots
    BY <1>5
  <2>2. free \cup Freed(T) \subseteq FullSlots
    BY <1>5, <1>6
  <2>3. s \in Seq(FullSlots)
    BY <1>3, <2>2
  <2>4. QED
    BY <1>5, <1>6, <1>7, <2>1, <2>3
<1>9. PICK row, r2 : row = req.row /\ r2 = row \o s
  OBVIOUS
<1>10. row \in Seq(FullSlots) /\ NoTwice(row)
  BY <1>9 DEF OwnInv, ReqTypes, RowsApart
<1>11. /\ r2 \in Seq(FullSlots) /\ Len(r2) = Len(row) + n /\ NoTwice(r2)
       /\ Range(r2) = Range(row) \cup Range(s)
       /\ \A i \in 1 .. Len(row) : r2[i] = row[i]
       /\ \A i \in DOMAIN r2 : i \in DOMAIN row \/ r2[i] \in Range(s)
  <2>1. NoTwice(s) /\ Len(s) = n
    BY <1>3
  <2>2. s \in Seq(FullSlots) /\ Range(row) \cap Range(s) = {}
    BY <1>8, <1>9
  <2>3. /\ row \o s \in Seq(FullSlots) /\ Len(row \o s) = Len(row) + Len(s) /\ NoTwice(row \o s)
        /\ Range(row \o s) = Range(row) \cup Range(s)
        /\ \A i \in 1 .. Len(row) : (row \o s)[i] = row[i]
        /\ \A i \in DOMAIN (row \o s) : i \in DOMAIN row \/ (row \o s)[i] \in Range(s)
    BY <1>10, <2>1, <2>2, RowGrows
  <2>4. QED
    BY <1>9, <2>1, <2>3
<1>12. req' = [phase |-> phase, text |-> req.text, prompt |-> req.prompt,
                matched |-> req.matched, row |-> r2]
  BY <1>1, <1>2, <1>9 DEF OwnInv, ReqTypes
<1>13. ReqTypes'
  <2>1. req.text \in Texts /\ req.prompt \in Nat /\ req.matched \in Nat
    BY DEF OwnInv, ReqTypes
  <2>2. phase = "prefill" => Len(r2) <= req.prompt
    BY <1>9, <1>11
  <2>3. QED
    BY <1>11, <1>12, <2>1, <2>2 DEF ReqTypes
<1>14. RowsApart'
  <2>1. cache' \in [Texts -> Seq(FullSlots)] /\ cache' = c
    BY <1>1, <1>5, <1>4
  <2>2. \A t \in Texts : \A j \in DOMAIN c[t] : j \in DOMAIN cache[t] /\ c[t][j] = cache[t][j]
    BY <1>5
  <2>3. \A t \in Texts : NoTwice(c[t])
    BY <2>2 DEF OwnInv, RowsApart, NoTwice
  <2>4. \A t, u \in Texts : \A i \in DOMAIN c[t], j \in DOMAIN c[u] : c[t][i] = c[u][j] => t = u
    BY <2>2 DEF OwnInv, RowsApart
  <2>5. ASSUME NEW i \in DOMAIN r2, NEW t \in Texts, NEW j \in DOMAIN c[t], c[t][j] = r2[i]
        PROVE  t = req.text /\ j = i /\ i <= req.matched
    <3>1. j \in DOMAIN cache[t] /\ cache[t][j] = r2[i]
      BY <2>2, <2>5
    <3>2. r2[i] \in HeldBy(c, Texts)
      BY <2>5, HeldByIs
    <3>3. i \in DOMAIN row
      BY <1>8, <1>11, <3>2
    <3>4. r2[i] = row[i]
      BY <1>10, <1>11, <3>3
    <3>5. QED
      BY <1>9, <3>1, <3>3, <3>4 DEF OwnInv, RowsApart
  <2>6. NoTwice(req'.row) /\ req'.row = r2 /\ req'.text = req.text /\ req'.matched = req.matched
    BY <1>11, <1>12
  <2>7. QED
    BY <2>1, <2>3, <2>4, <2>5, <2>6 DEF RowsApart
<1>15. LiveSlots' = (LiveSlots \ Freed(T)) \cup Range(s)
  <2>1. Held(Texts)' = HeldBy(c, Texts)
    BY <1>1, <1>4, HeldByIs
  <2>2. Range(req.row)' = Range(r2)
    BY <1>12
  <2>3. LiveSlots' = HeldBy(c, Texts) \cup Range(r2)
    BY <2>1, <2>2 DEF LiveSlots
  <2>4. QED
    BY <1>5, <1>9, <1>11, <2>3
<1>16. NeedsKept'
  <2>1. ASSUME NEW i \in Near(Len(r2), Reach(phase))
        PROVE  a.map[r2[i]] # 0
    <3>1. PICK m \in Nat, w \in Nat \ {0} : m = Len(row) /\ w = Window
      BY <1>10, AttnAssumption
    <3>2. i \in 1 .. (m + n) /\ i > (m + n) - Reach(phase)
      BY <1>11, <3>1 DEF Near
    <3>3. DOMAIN row = 1 .. m /\ DOMAIN r2 = 1 .. (m + n)
      BY <1>10, <1>11, <3>1
    <3>4. CASE i <= m
      <4>1. i \in 1 .. m /\ r2[i] = row[i]
        BY <1>11, <3>1, <3>2, <3>4
      <4>2. i > m - (w - 1)
        <5>1. CASE phase = "topk"
          BY <3>1, <3>2, <5>1 DEF Reach
        <5>2. CASE phase # "topk"
          BY <3>1, <3>2, <5>2 DEF Reach
        <5>3. QED
          BY <5>1, <5>2
      <4>3. swaMap[row[i]] # 0
        BY <1>9, <3>1, <4>1, <4>2 DEF OwnInv, NeedsKept, Near, Reach
      <4>4. row[i] \in LiveSlots \ Freed(T)
        BY <1>5, <1>9, <3>3, <4>1 DEF Range
      <4>5. QED
        BY <1>3, <4>1, <4>3, <4>4 DEF Same
    <3>5. CASE ~(i <= m)
      BY <1>3, <1>11, <3>2, <3>3, <3>5 DEF Mapped
    <3>6. QED
      BY <3>4, <3>5
  <2>2. req'.row = r2 /\ req'.phase = phase
    BY <1>12
  <2>3. swaMap' = a.map
    BY <1>1
  <2>4. QED
    BY <2>1, <2>2, <2>3 DEF NeedsKept, Near, Reach
<1>17. Backed(mapped)' = Backed(mapped)
  BY DEF Backed
<1>18. mapped' \in 1 .. StepsMax
  BY DEF OwnInv
<1>19. Owned(LiveSlots, free, swaFree, swaMap, Backed(mapped))'
  <2>1. Owned(LiveSlots', a.free, a.swaFree, a.map, Backed(mapped)')
    BY <1>3, <1>15, <1>17
  <2>2. Owned(LiveSlots', free', swaFree', swaMap', Backed(mapped)')
    BY <1>1, <2>1
  <2>3. QED
    BY <2>2 DEF Owned
<1>20. QED
  BY <1>13, <1>14, <1>18, <1>19, <1>16 DEF OwnInv


-----------------------------------------------------------------------------
(* The other steps.                                                         *)

(* A request takes the cached prefix of its text.                           *)
LEMMA ArriveKeeps ==
  ASSUME OwnInv, NEW t \in Texts, NEW n \in 1 .. MaxPrompt, NEW m, Arrive(t, n, m)
  PROVE  OwnInv'
<1>1. /\ req.phase = "none" /\ cache' = cache /\ free' = free /\ swaFree' = swaFree
      /\ swaMap' = swaMap /\ mapped' = mapped
      /\ req' = [phase |-> "prefill", text |-> t, prompt |-> n, matched |-> m,
                 row |-> SubSeq(cache[t], 1, m)]
      /\ m \in Usable(t, n)
  BY DEF Arrive, Idle, poolVars
<1>2. PICK q : q = cache[t]
  OBVIOUS
<1>3. q \in Seq(FullSlots) /\ NoTwice(q)
  BY <1>2 DEF OwnInv, RowsApart
<1>4. /\ m \in Nat /\ m <= Len(q) /\ m <= n
      /\ \A i \in Near(m, Window - 1) : swaMap[q[i]] # 0
  <2>0. n \in Nat /\ n >= 1
    BY ServeAssumption
  <2>1. Len(q) \in Nat /\ n - 1 \in Nat
    BY <1>3, <2>0
  <2>2. PICK k : k = Smaller(Len(q), n - 1)
    OBVIOUS
  <2>3. k \in {Len(q), n - 1} /\ k <= Len(q) /\ k <= n - 1
    BY <2>1, <2>2, SmallerIs
  <2>4. m \in 0 .. k /\ \A i \in Near(m, Window - 1) : swaMap[q[i]] # 0
    BY <1>1, <1>2, <2>2 DEF Usable
  <2>5. QED
    BY <2>0, <2>1, <2>3, <2>4
<1>5. PICK r : r = SubSeq(q, 1, m)
  OBVIOUS
<1>6. r \in Seq(FullSlots) /\ Len(r) = m /\ \A i \in 1 .. m : i \in DOMAIN q /\ r[i] = q[i]
  BY <1>3, <1>4, <1>5, PrefixIs
<1>7. DOMAIN r = 1 .. m
  BY <1>6
<1>8. req' = [phase |-> "prefill", text |-> t, prompt |-> n, matched |-> m, row |-> r]
  BY <1>1, <1>2, <1>5
<1>9. ReqTypes'
  <2>1. n \in Nat /\ Len(r) <= n
    BY <1>4, <1>6, ServeAssumption
  <2>2. QED
    BY <1>4, <1>6, <1>8, <2>1 DEF ReqTypes, ServePhases
<1>10. RowsApart'
  <2>1. NoTwice(r)
    BY <1>3, <1>6, <1>7 DEF NoTwice
  <2>2. ASSUME NEW i \in DOMAIN r, NEW u \in Texts, NEW j \in DOMAIN cache[u], cache[u][j] = r[i]
        PROVE  u = t /\ j = i /\ i <= m
    <3>1. i \in DOMAIN cache[t] /\ cache[t][i] = cache[u][j]
      BY <1>2, <1>6, <1>7, <2>2
    <3>2. u = t
      BY <3>1 DEF OwnInv, RowsApart
    <3>3. j = i
      BY <1>2, <1>3, <3>1, <3>2 DEF NoTwice
    <3>4. QED
      BY <1>7, <3>2, <3>3
  <2>3. req'.row = r /\ req'.text = t /\ req'.matched = m
    BY <1>8
  <2>4. NoTwice(req'.row)
    BY <2>1, <2>3
  <2>5. \A i \in DOMAIN req'.row : \A u \in Texts : \A j \in DOMAIN cache'[u] :
          cache'[u][j] = req'.row[i] => u = req'.text /\ j = i /\ i <= req'.matched
    BY <1>1, <2>2, <2>3
  <2>6. /\ cache' \in [Texts -> Seq(FullSlots)]
        /\ \A u \in Texts : NoTwice(cache'[u])
        /\ \A u, v \in Texts : \A i \in DOMAIN cache'[u], j \in DOMAIN cache'[v] :
              cache'[u][i] = cache'[v][j] => u = v
    BY <1>1 DEF OwnInv, RowsApart
  <2>7. QED
    BY <2>4, <2>5, <2>6 DEF RowsApart
<1>11. LiveSlots' = LiveSlots
  <2>1. Range(req.row) = {}
    BY <1>1 DEF OwnInv, ReqTypes, Range
  <2>2. \A x \in Range(r) : x \in Held(Texts)
    <3>1. ASSUME NEW i \in DOMAIN r
          PROVE  r[i] \in Held(Texts)
      <4>1. i \in DOMAIN cache[t] /\ cache[t][i] = r[i]
        BY <1>2, <1>6, <1>7
      <4>2. QED
        BY <4>1, HeldIs
    <3>2. QED
      BY <3>1 DEF Range
  <2>3. Held(Texts)' = Held(Texts)
    BY <1>1, HeldByIs
  <2>4. Range(req.row)' = Range(r)
    BY <1>8
  <2>5. QED
    BY <2>1, <2>2, <2>3, <2>4 DEF LiveSlots
<1>12. Backed(mapped)' = Backed(mapped)
  BY <1>1 DEF Backed
<1>13. Owned(LiveSlots, free, swaFree, swaMap, Backed(mapped))'
  <2>1. Owned(LiveSlots', free', swaFree', swaMap', Backed(mapped)')
    BY <1>1, <1>11, <1>12 DEF OwnInv
  <2>2. QED
    BY <2>1 DEF Owned
<1>14. NeedsKept'
  <2>1. \A i \in Near(m, Window - 1) : i \in 1 .. m
    BY DEF Near
  <2>2. \A i \in Near(m, Window - 1) : swaMap'[r[i]] # 0
    BY <1>1, <1>4, <1>6, <2>1
  <2>3. req'.row = r /\ req'.phase = "prefill" /\ Len(r) = m
    BY <1>6, <1>8
  <2>4. QED
    BY <2>2, <2>3 DEF NeedsKept, Reach
<1>15. QED
  BY <1>1, <1>9, <1>10, <1>13, <1>14 DEF OwnInv

(* A step is mapped: its slots are free.                                    *)
LEMMA GrowKeeps ==
  ASSUME OwnInv, Grow
  PROVE  OwnInv'
<1>1. /\ mapped < StepsMax /\ mapped' = mapped + 1 /\ swaMap' = swaMap
      /\ free' = free \cup StepSlots(mapped) /\ req' = req /\ cache' = cache /\ swaFree' = swaFree
  BY DEF Grow, MapStep
<1>2. PICK m, L, f : m = mapped /\ L = LiveSlots /\ f = free
  OBVIOUS
<1>3. m \in 1 .. StepsMax /\ Owned(L, f, swaFree, swaMap, Backed(m))
  BY <1>2 DEF OwnInv
<1>4. m + 1 \in 1 .. StepsMax
  BY <1>1, <1>2, <1>3, SizesAre
<1>5. Backed(m + 1) = Backed(m) \cup StepSlots(m) /\ Backed(m) \cap StepSlots(m) = {}
  BY <1>1, <1>2, <1>3, BackedIs
<1>6. Backed(m + 1) \subseteq FullSlots
  <2>1. PICK k \in 1 .. StepsMax : k = m + 1
    BY <1>4
  <2>2. Backed(k) \subseteq FullSlots \ {DummySlot}
    BY BackedIs
  <2>3. QED
    BY <2>1, <2>2
<1>7. Owned(L, f \cup StepSlots(m), swaFree, swaMap, Backed(m + 1))
  <2>1. L \cup (f \cup StepSlots(m)) = Backed(m + 1) /\ L \cap (f \cup StepSlots(m)) = {}
    BY <1>3, <1>5 DEF Owned
  <2>2. QED
    BY <1>3, <1>6, <2>1 DEF Owned
<1>8. LiveSlots' = L
  BY <1>1, <1>2, HeldByIs DEF LiveSlots
<1>9. Backed(mapped)' = Backed(m + 1)
  BY <1>1, <1>2 DEF Backed
<1>10. Owned(LiveSlots, free, swaFree, swaMap, Backed(mapped))'
  <2>1. Owned(LiveSlots', free', swaFree', swaMap', Backed(mapped)')
    BY <1>1, <1>2, <1>7, <1>8, <1>9
  <2>2. QED
    BY <2>1 DEF Owned
<1>11. ReqTypes' /\ RowsApart' /\ NeedsKept'
  BY <1>1 DEF OwnInv, ReqTypes, RowsApart, NeedsKept, Near, Reach
<1>12. mapped' \in 1 .. StepsMax
  BY <1>1, <1>2, <1>4
<1>13. QED
  BY <1>10, <1>11, <1>12 DEF OwnInv


(* Each entry of the row the cache keeps is that of one of the two rows.    *)
Merges(q, old, new) ==
  \A i \in DOMAIN q : \/ i \in DOMAIN old /\ q[i] = old[i]
                      \/ i \in DOMAIN new /\ q[i] = new[i]

LEMMA MergedIs ==
  ASSUME NEW S, NEW old \in Seq(S), NEW new \in Seq(S), NEW J \in SUBSET (DOMAIN old \cap DOMAIN new)
  PROVE  Merged(old, new, J) \in Seq(S) /\ Merges(Merged(old, new, J), old, new)
<1>1. PICK p \in Nat, m \in Nat : p = Len(old) /\ m = Len(new)
  OBVIOUS
<1>2. DOMAIN old = 1 .. p /\ DOMAIN new = 1 .. m
  BY <1>1
<1>3. PICK n \in Nat : n = Larger(p, m) /\ \A i \in 1 .. n : i <= p \/ i <= m
  BY DEF Larger
<1>4. PICK q : q = Merged(old, new, J)
  OBVIOUS
<1>5. q = [i \in 1 .. n |-> IF i \in DOMAIN old \ J THEN old[i] ELSE new[i]]
  BY <1>1, <1>3, <1>4 DEF Merged
<1>6. ASSUME NEW i \in 1 .. n
      PROVE  \/ i \in DOMAIN old /\ q[i] = old[i]
             \/ i \in DOMAIN new /\ q[i] = new[i]
  <2>1. CASE i \in DOMAIN old \ J
    BY <1>5, <2>1
  <2>2. CASE i \notin DOMAIN old \ J
    <3>1. i \in DOMAIN new
      BY <1>2, <1>3, <2>2
    <3>2. QED
      BY <1>5, <2>2, <3>1
  <2>3. QED
    BY <2>1, <2>2
<1>7. \A i \in 1 .. n : q[i] \in S
  <2>1. \A i \in DOMAIN old : old[i] \in S
    OBVIOUS
  <2>2. \A i \in DOMAIN new : new[i] \in S
    OBVIOUS
  <2>3. QED
    BY <1>6, <2>1, <2>2
<1>8. q \in Seq(S) /\ DOMAIN q = 1 .. n
  <2>1. q \in [1 .. n -> S]
    BY <1>5, <1>7
  <2>2. QED
    BY <2>1
<1>9. QED
  BY <1>4, <1>6, <1>8 DEF Merges

(* The row goes to the cache; what the cache had already is given back.     *)
LEMMA FinishKeeps ==
  ASSUME OwnInv, NEW J, Finish(J)
  PROVE  OwnInv'
<1>1. PICK t, old, new : t = req.text /\ old = cache[t] /\ new = req.row
  OBVIOUS
<1>2. req.phase = "decode" /\ t \in Texts
  BY <1>1 DEF Finish, OwnInv, ReqTypes
<1>3. old \in Seq(FullSlots) /\ new \in Seq(FullSlots) /\ NoTwice(old) /\ NoTwice(new)
  BY <1>1, <1>2 DEF OwnInv, ReqTypes, RowsApart
<1>4. PICK q \in Seq(FullSlots) : q = Merged(old, new, J) /\ Merges(q, old, new)
  <2>1. J \in SUBSET (DOMAIN old \cap DOMAIN new)
    BY <1>1 DEF Finish
  <2>2. QED
    BY <1>3, <2>1, MergedIs
<1>5. PICK H : H = (Range(old) \cup Range(new)) \ Range(q)
  OBVIOUS
<1>6. /\ req' = NoReq /\ cache' = [cache EXCEPT ![t] = q] /\ free' = free \cup H
      /\ swaFree' = swaFree \cup SwaOf(H) /\ swaMap' = Released(swaMap, H) /\ mapped' = mapped
  BY <1>1, <1>4, <1>5 DEF Finish, Release
<1>7. \A i \in DOMAIN new : \A u \in Texts : \A j \in DOMAIN cache[u] :
        cache[u][j] = new[i] => u = t /\ j = i
  BY <1>1 DEF OwnInv, RowsApart
<1>8. /\ H \in SUBSET LiveSlots
      /\ \A u \in Texts : u # t => \A j \in DOMAIN cache[u] : cache[u][j] \notin H
  <2>1. \A x \in Range(old) : x \in Held(Texts)
    BY <1>1, <1>2, HeldIs DEF Range
  <2>2. H \subseteq LiveSlots
    BY <1>1, <1>5, <2>1 DEF LiveSlots
  <2>3. ASSUME NEW u \in Texts, u # t, NEW j \in DOMAIN cache[u], cache[u][j] \in H
        PROVE  FALSE
    <3>1. CASE cache[u][j] \in Range(old)
      <4>1. PICK i \in DOMAIN cache[t] : cache[t][i] = cache[u][j]
        BY <1>1, <3>1 DEF Range
      <4>2. QED
        BY <1>2, <2>3, <4>1 DEF OwnInv, RowsApart
    <3>2. CASE cache[u][j] \in Range(new)
      <4>1. PICK i \in DOMAIN new : new[i] = cache[u][j]
        BY <3>2 DEF Range
      <4>2. QED
        BY <1>7, <2>3, <4>1
    <3>3. QED
      BY <1>5, <2>3, <3>1, <3>2
  <2>4. QED
    BY <2>2, <2>3
<1>9. SwaOf(H) = Behind(swaMap, H)
  BY DEF SwaOf, Behind, Img
<1>10. /\ cache \in [Texts -> Seq(FullSlots)]
       /\ cache' = [u \in Texts |-> IF u = t THEN q ELSE cache[u]]
  BY <1>6 DEF OwnInv, RowsApart
<1>11. cache'[t] = q /\ \A u \in Texts : u # t => cache'[u] = cache[u]
  BY <1>2, <1>10
<1>12. req' = [phase |-> "none", text |-> Sink, prompt |-> 0, matched |-> 0, row |-> <<>>]
  BY <1>6 DEF NoReq
<1>13. ReqTypes'
  BY <1>12 DEF ReqTypes, ServePhases
<1>14. ASSUME NEW i \in DOMAIN q
       PROVE  \/ i \in DOMAIN old /\ q[i] = old[i]
              \/ i \in DOMAIN new /\ q[i] = new[i]
  BY <1>4 DEF Merges
<1>15. NoTwice(q)
  <2> SUFFICES ASSUME NEW i \in DOMAIN q, NEW j \in DOMAIN q, q[i] = q[j]
               PROVE  i = j
    BY DEF NoTwice
  <2>1. CASE i \in DOMAIN old /\ q[i] = old[i] /\ j \in DOMAIN old /\ q[j] = old[j]
    BY <1>3, <2>1 DEF NoTwice
  <2>2. CASE i \in DOMAIN old /\ q[i] = old[i] /\ j \in DOMAIN new /\ q[j] = new[j]
    <3>1. old[i] = new[j]
      BY <2>2
    <3>2. QED
      BY <1>1, <1>2, <1>7, <2>2, <3>1
  <2>3. CASE i \in DOMAIN new /\ q[i] = new[i] /\ j \in DOMAIN old /\ q[j] = old[j]
    <3>1. old[j] = new[i]
      BY <2>3
    <3>2. QED
      BY <1>1, <1>2, <1>7, <2>3, <3>1
  <2>4. CASE i \in DOMAIN new /\ q[i] = new[i] /\ j \in DOMAIN new /\ q[j] = new[j]
    BY <1>3, <2>4 DEF NoTwice
  <2>5. QED
    BY <1>14, <2>1, <2>2, <2>3, <2>4
<1>16. ASSUME NEW i \in DOMAIN q, NEW u \in Texts, u # t, NEW j \in DOMAIN cache[u]
       PROVE  q[i] # cache[u][j]
  <2>1. CASE i \in DOMAIN old /\ q[i] = old[i]
    <3>1. q[i] = cache[t][i] /\ i \in DOMAIN cache[t]
      BY <1>1, <2>1
    <3>2. QED
      BY <1>2, <1>16, <3>1 DEF OwnInv, RowsApart
  <2>2. CASE i \in DOMAIN new /\ q[i] = new[i]
    BY <1>7, <1>16, <2>2
  <2>3. QED
    BY <1>14, <2>1, <2>2
<1>17. RowsApart'
  <2>1. cache' \in [Texts -> Seq(FullSlots)]
    BY <1>10
  <2>2. \A u \in Texts : NoTwice(cache'[u])
    BY <1>11, <1>15 DEF OwnInv, RowsApart
  <2>3. ASSUME NEW u \in Texts, NEW v \in Texts, NEW i \in DOMAIN cache'[u], NEW j \in DOMAIN cache'[v],
               cache'[u][i] = cache'[v][j]
        PROVE  u = v
    <3>1. CASE u = t /\ v # t
      BY <1>11, <1>16, <2>3, <3>1
    <3>2. CASE u # t /\ v = t
      BY <1>11, <1>16, <2>3, <3>2
    <3>3. CASE u # t /\ v # t
      <4>1. cache'[u] = cache[u] /\ cache'[v] = cache[v]
        BY <1>11, <3>3
      <4>2. QED
        BY <2>3, <4>1 DEF OwnInv, RowsApart
    <3>4. QED
      BY <3>1, <3>2, <3>3
  <2>4. req'.row = <<>>
    BY <1>12
  <2>5. NoTwice(req'.row) /\ DOMAIN req'.row = {}
    BY <2>4 DEF NoTwice
  <2>6. QED
    BY <2>1, <2>2, <2>3, <2>5 DEF RowsApart
<1>18. LiveSlots' = LiveSlots \ H
  <2>1. \A x : x \in HeldBy(cache', Texts) <=> x \in LiveSlots \ H
    <3> TAKE x
    <3>1. x \in HeldBy(cache', Texts) <=> \E u \in Texts : \E j \in DOMAIN cache'[u] : cache'[u][j] = x
      BY HeldByIs
    <3>2. x \in Held(Texts) <=> \E u \in Texts : \E j \in DOMAIN cache[u] : cache[u][j] = x
      BY HeldIs
    <3>3. x \in Range(new) <=> \E i \in DOMAIN new : new[i] = x
      BY DEF Range
    <3>4. x \in Range(q) <=> \E i \in DOMAIN q : q[i] = x
      BY DEF Range
    <3>5. x \in HeldBy(cache', Texts) <=>
            x \in Range(q) \/ \E u \in Texts : u # t /\ \E j \in DOMAIN cache[u] : cache[u][j] = x
      BY <1>2, <1>11, <3>1, <3>4
    <3>6. x \in Held(Texts) <=>
            (\E j \in DOMAIN old : old[j] = x)
            \/ \E u \in Texts : u # t /\ \E j \in DOMAIN cache[u] : cache[u][j] = x
      BY <1>1, <1>2, <3>2
    <3>7. x \in Range(old) <=> \E j \in DOMAIN old : old[j] = x
      BY DEF Range
    <3>8. x \in Range(q) => x \in Range(old) \/ x \in Range(new)
      BY <1>14, <3>3, <3>4, <3>7
    <3>9. x \in LiveSlots <=> x \in Held(Texts) \/ x \in Range(new)
      BY <1>1 DEF LiveSlots
    <3>10. x \in H => ~ \E u \in Texts : u # t /\ \E j \in DOMAIN cache[u] : cache[u][j] = x
      BY <1>8
    <3>11. x \in H <=> (x \in Range(old) \/ x \in Range(new)) /\ x \notin Range(q)
      BY <1>5
    <3>12. QED
      BY <3>5, <3>6, <3>7, <3>8, <3>9, <3>10, <3>11
  <2>2. Held(Texts)' = LiveSlots \ H
    BY <2>1, HeldByIs
  <2>3. Range(req.row)' = {}
    BY <1>12 DEF Range
  <2>4. LiveSlots' = Held(Texts)'
    BY <2>3 DEF LiveSlots
  <2>5. QED
    BY <2>2, <2>4
<1>19. PICK L, f, sf, map, B : /\ L = LiveSlots /\ f = free /\ sf = swaFree /\ map = swaMap
                               /\ B = Backed(mapped)
  OBVIOUS
<1>20. Owned(L \ H, f \cup H, sf \cup Behind(map, H), Released(map, H), B)
  <2>1. Owned(L, f, sf, map, B) /\ H \in SUBSET L
    BY <1>8, <1>19 DEF OwnInv
  <2>2. QED
    BY <2>1, OwnedDrop
<1>21. Backed(mapped)' = Backed(mapped)
  BY <1>6 DEF Backed
<1>22. Owned(LiveSlots, free, swaFree, swaMap, Backed(mapped))'
  <2>1. Owned(LiveSlots', free', swaFree', swaMap', Backed(mapped)')
    BY <1>6, <1>9, <1>18, <1>19, <1>20, <1>21
  <2>2. QED
    BY <2>1 DEF Owned
<1>23. mapped' \in 1 .. StepsMax
  BY <1>6 DEF OwnInv
<1>24. NeedsKept'
  <2>1. Len(req'.row) = 0
    BY <1>12
  <2>2. \A w : Near(0, w) = {}
    BY DEF Near
  <2>3. QED
    BY <2>1, <2>2 DEF NeedsKept
<1>25. QED
  BY <1>13, <1>17, <1>22, <1>23, <1>24 DEF OwnInv


(* What a step about to be unmapped held is moved below it.                 *)
LEMMA OwnedMove ==
  ASSUME NEW L, NEW f, NEW sf, NEW map, NEW B, Owned(L, f, sf, map, B), NEW top, NEW n \in Nat,
         NEW olds \in Seq(L \cap top), Len(olds) = n, NoTwice(olds),
         \A x \in L \cap top : \E i \in 1 .. n : olds[i] = x,
         NEW news \in Seq(f \ top), Len(news) = n, NoTwice(news)
  PROVE  Owned((L \ top) \cup Range(news), (f \ top) \ Range(news), sf,
               MovedMap(map, olds, news), B \ top)
<1>1. PICK mid : mid = Moved(map, olds, news)
  OBVIOUS
<1>2. PICK map2 : map2 = MovedMap(map, olds, news)
  OBVIOUS
<1>3. PICK R : R = Range(news)
  OBVIOUS
<1>4. /\ DOMAIN olds = 1 .. n /\ DOMAIN news = 1 .. n
      /\ \A i \in 1 .. n : olds[i] \in L \cap top
      /\ \A i \in 1 .. n : news[i] \in f \ top /\ news[i] \in R
      /\ \A x \in R : \E i \in 1 .. n : news[i] = x
  BY <1>3 DEF Range
<1>5. L \subseteq FullSlots /\ f \subseteq FullSlots /\ L \cap f = {} /\ R \subseteq f \ top
  BY <1>4 DEF Owned
<1>6. DOMAIN map = FullSlots
  BY DEF Owned
<1>7. /\ mid = [s \in FullSlots |-> mid[s]]
      /\ \A s \in FullSlots : s \notin R => mid[s] = map[s]
      /\ \A i \in 1 .. n : mid[news[i]] = map[olds[i]]
  <2>1. PICK tr : tr = Translated(map, olds)
    OBVIOUS
  <2>2. tr = [i \in 1 .. n |-> map[olds[i]]]
    BY <1>4, <2>1 DEF Translated
  <2>3. mid = Put(map, news, tr)
    BY <1>1, <2>1 DEF Moved
  <2>4. /\ mid = [s \in DOMAIN map |-> mid[s]]
        /\ \A s \in DOMAIN map : (\A i \in DOMAIN news : news[i] # s) => mid[s] = map[s]
        /\ \A i \in DOMAIN news : news[i] \in DOMAIN map => mid[news[i]] = tr[i]
    <3>1. Puts(mid, map, news, tr)
      BY <2>3, PutIs
    <3>2. QED
      BY <3>1 DEF Puts
  <2>5. \A i \in 1 .. n : news[i] \in FullSlots
    BY <1>4, <1>5
  <2>6. QED
    BY <1>4, <1>6, <2>2, <2>4, <2>5
<1>8. /\ map2 = [s \in FullSlots |-> map2[s]]
      /\ \A s \in FullSlots : s \notin L \cap top => map2[s] = mid[s]
      /\ \A s \in L \cap top : map2[s] = 0
  <2>1. PICK z : z = [i \in DOMAIN olds |-> 0]
    OBVIOUS
  <2>2. z = [i \in 1 .. n |-> 0]
    BY <1>4, <2>1
  <2>3. map2 = Put(mid, olds, z)
    BY <1>1, <1>2, <2>1 DEF MovedMap
  <2>4. /\ map2 = [s \in DOMAIN mid |-> map2[s]]
        /\ \A s \in DOMAIN mid : (\A i \in DOMAIN olds : olds[i] # s) => map2[s] = mid[s]
        /\ \A i \in DOMAIN olds : olds[i] \in DOMAIN mid => map2[olds[i]] = z[i]
    <3>1. Puts(map2, mid, olds, z)
      BY <2>3, PutIs
    <3>2. QED
      BY <3>1 DEF Puts
  <2>5. DOMAIN mid = FullSlots
    BY <1>7
  <2>6. \A i \in 1 .. n : olds[i] \in FullSlots
    BY <1>4, <1>5
  <2>7. \A i \in 1 .. n : map2[olds[i]] = 0
    BY <1>4, <2>2, <2>4, <2>5, <2>6
  <2>8. map2 = [s \in FullSlots |-> map2[s]]
    BY <2>4, <2>5
  <2>9. \A s \in FullSlots : s \notin L \cap top => map2[s] = mid[s]
    BY <1>4, <2>4, <2>5
  <2>10. \A s \in L \cap top : map2[s] = 0
    BY <2>7
  <2>11. QED
    BY <2>8, <2>9, <2>10
<1>9. \A s \in FullSlots : map[s] \in SwaSlots /\ (map[s] # 0 => s \in L)
  BY DEF Owned
<1>10. 0 \in SwaSlots
  BY SizesAre DEF SwaSlots
<1>11. PICK K : K = L \ top
  OBVIOUS
<1>12. \A s \in K : s \in FullSlots /\ s \notin R /\ map2[s] = map[s]
  BY <1>5, <1>7, <1>8, <1>11
<1>13. ASSUME NEW x \in R
       PROVE  \E i \in 1 .. n : news[i] = x /\ map2[x] = map[olds[i]] /\ olds[i] \in L \cap top
  <2>1. PICK i \in 1 .. n : news[i] = x
    BY <1>4
  <2>2. x \notin L \cap top /\ x \in FullSlots
    BY <1>5
  <2>3. map2[x] = map[olds[i]]
    BY <1>7, <1>8, <2>1, <2>2
  <2>4. QED
    BY <1>4, <2>1, <2>3
<1>14. \A s \in FullSlots : (s \in L \cap top => map2[s] = 0)
                            /\ (s \notin L /\ s \notin R => map2[s] = 0)
  BY <1>7, <1>8, <1>9
<1>15. \A s \in FullSlots : map2[s] \in SwaSlots /\ (map2[s] # 0 => s \in K \cup R)
  <2> SUFFICES ASSUME NEW s \in FullSlots
               PROVE  map2[s] \in SwaSlots /\ (map2[s] # 0 => s \in K \cup R)
    OBVIOUS
  <2>1. CASE s \in R
    <3>1. PICK o \in L \cap top : map2[s] = map[o]
      BY <1>13, <2>1
    <3>2. o \in FullSlots
      BY <1>5
    <3>3. QED
      BY <1>9, <2>1, <3>1, <3>2
  <2>2. CASE s \in K
    BY <1>9, <1>11, <1>12, <2>2
  <2>3. CASE s \notin R /\ s \notin K
    BY <1>10, <1>11, <1>14, <2>3
  <2>4. QED
    BY <2>1, <2>2, <2>3
<1>16. map2 \in [FullSlots -> SwaSlots]
  BY <1>8, <1>15
<1>17. \A r, s \in L : map[r] # 0 /\ map[r] = map[s] => r = s
  BY DEF Owned
<1>18. ASSUME NEW r \in K \cup R, NEW s \in K \cup R, map2[r] # 0, map2[r] = map2[s]
       PROVE  r = s
  <2>1. CASE r \in R /\ s \in R
    <3>1. PICK i \in 1 .. n : news[i] = r /\ map2[r] = map[olds[i]] /\ olds[i] \in L \cap top
      BY <1>13, <2>1
    <3>2. PICK j \in 1 .. n : news[j] = s /\ map2[s] = map[olds[j]] /\ olds[j] \in L \cap top
      BY <1>13, <2>1
    <3>3. olds[i] = olds[j]
      BY <1>17, <1>18, <3>1, <3>2
    <3>4. i = j
      BY <1>4, <3>3 DEF NoTwice
    <3>5. QED
      BY <3>1, <3>2, <3>4
  <2>2. CASE r \in R /\ s \notin R
    <3>1. PICK o \in L \cap top : map2[r] = map[o]
      BY <1>13, <2>2
    <3>2. s \in L /\ s \notin top /\ map2[s] = map[s]
      BY <1>11, <1>12, <2>2
    <3>3. QED
      BY <1>17, <1>18, <3>1, <3>2
  <2>3. CASE r \notin R /\ s \in R
    <3>1. PICK o \in L \cap top : map2[s] = map[o]
      BY <1>13, <2>3
    <3>2. r \in L /\ r \notin top /\ map2[r] = map[r]
      BY <1>11, <1>12, <2>3
    <3>3. QED
      BY <1>17, <1>18, <3>1, <3>2
  <2>4. CASE r \notin R /\ s \notin R
    BY <1>11, <1>12, <1>17, <1>18, <2>4
  <2>5. QED
    BY <2>1, <2>2, <2>3, <2>4
<1>19. \A s \in K \cup R : map2[s] \notin sf
  <2>1. \A s \in L : map[s] \notin sf
    BY DEF Owned
  <2>2. QED
    BY <1>11, <1>12, <1>13, <2>1
<1>20. ASSUME NEW w \in SwaSlots \ {0}, w \notin sf
       PROVE  \E s \in K \cup R : map2[s] = w
  <2>1. PICK s \in L : map[s] = w
    BY <1>20 DEF Owned
  <2>2. CASE s \in top
    <3>1. PICK i \in 1 .. n : olds[i] = s
      BY <2>1, <2>2
    <3>2. news[i] \in FullSlots /\ news[i] \notin L \cap top /\ news[i] \in R
      BY <1>4, <1>5
    <3>3. map2[news[i]] = w
      BY <1>7, <1>8, <2>1, <3>1, <3>2
    <3>4. QED
      BY <3>2, <3>3
  <2>3. CASE s \notin top
    BY <1>11, <1>12, <2>1, <2>3
  <2>4. QED
    BY <2>2, <2>3
<1>21. /\ B \ top \subseteq FullSlots /\ (K \cup R) \cup ((f \ top) \ R) = B \ top
       /\ (K \cup R) \cap ((f \ top) \ R) = {}
  BY <1>5, <1>11 DEF Owned
<1>22. sf \subseteq SwaSlots \ {0}
  BY DEF Owned
<1>23. Owned(K \cup R, (f \ top) \ R, sf, map2, B \ top)
  BY <1>15, <1>16, <1>18, <1>19, <1>20, <1>21, <1>22 DEF Owned
<1>24. QED
  BY <1>2, <1>3, <1>11, <1>23


(* There is room below: what is not free already is evicted first.          *)
LEMMA RoomBelow ==
  ASSUME NEW A, NEW f, NEW H \in SUBSET A, NEW top, NEW C, IsFiniteSet(C), A \subseteq C,
         f \subseteq C, A \cap f = {},
         NEW short \in Int, short = Cardinality(A \cap top) - Cardinality(f \ top),
         IF short <= 0 THEN H = {} ELSE Cardinality(H) >= short
  PROVE  /\ Cardinality((A \ H) \cap top) <= Cardinality((f \cup H) \ top)
         /\ IsFiniteSet((A \ H) \cap top) /\ IsFiniteSet((f \cup H) \ top)
<1>1. PICK x1, x2, x3, y1, y2, y3 :
        /\ x1 = (A \ H) \cap top /\ x2 = H \cap top /\ x3 = A \cap top
        /\ y1 = f \ top /\ y2 = H \ top /\ y3 = (f \cup H) \ top
  OBVIOUS
<1>2. IsFiniteSet(x3) /\ IsFiniteSet(y3)
  <2>1. x3 \subseteq C /\ y3 \subseteq C
    BY <1>1
  <2>2. QED
    BY <2>1, FS_Subset
<1>3. /\ IsFiniteSet(x1) /\ IsFiniteSet(x2) /\ Cardinality(x1) \in Nat /\ Cardinality(x2) \in Nat
      /\ Cardinality(x3) \in Nat /\ Cardinality(x1) + Cardinality(x2) <= Cardinality(x3)
  <2>1. x1 \subseteq x3 /\ x2 \subseteq x3 /\ x1 \cap x2 = {}
    BY <1>1
  <2>2. QED
    BY <1>2, <2>1, DisjointSize
<1>4. /\ IsFiniteSet(y1) /\ IsFiniteSet(y2) /\ Cardinality(y1) \in Nat /\ Cardinality(y2) \in Nat
      /\ Cardinality(y3) \in Nat /\ Cardinality(y1) + Cardinality(y2) <= Cardinality(y3)
  <2>1. y1 \subseteq y3 /\ y2 \subseteq y3 /\ y1 \cap y2 = {}
    BY <1>1
  <2>2. QED
    BY <1>2, <2>1, DisjointSize
<1>5. Cardinality(H) \in Nat /\ Cardinality(H) <= Cardinality(x2) + Cardinality(y2)
  <2>1. H \subseteq x2 \cup y2
    BY <1>1
  <2>2. QED
    BY <1>3, <1>4, <2>1, CoverSize
<1>6. short = Cardinality(x3) - Cardinality(y1)
  BY <1>1
<1>7. CASE short <= 0
  BY <1>1, <1>3, <1>4, <1>6, <1>7, <1>2
<1>8. CASE ~(short <= 0)
  <2>1. Cardinality(H) >= short
    BY <1>8
  <2>2. Cardinality(x1) <= Cardinality(y3)
    BY <1>3, <1>4, <1>5, <1>6, <2>1
  <2>3. QED
    BY <1>1, <1>2, <1>3, <2>2
<1>9. QED
  BY <1>7, <1>8

(* Where a slot of the unmapped step went.                                  *)
NewSlotOf(top, olds, news, s) ==
  IF s \in top THEN news[CHOOSE i \in DOMAIN olds : olds[i] = s] ELSE s

LEMMA NewSlotIs ==
  ASSUME NEW top, NEW olds, NEW news, NoTwice(olds), NEW i \in DOMAIN olds, olds[i] \in top
  PROVE  NewSlotOf(top, olds, news, olds[i]) = news[i]
<1>1. PICK k : k = CHOOSE h \in DOMAIN olds : olds[h] = olds[i]
  OBVIOUS
<1>2. k \in DOMAIN olds /\ olds[k] = olds[i]
  BY <1>1
<1>3. k = i
  BY <1>2 DEF NoTwice
<1>4. NewSlotOf(top, olds, news, olds[i]) = news[CHOOSE h \in DOMAIN olds : olds[h] = olds[i]]
  BY DEF NewSlotOf
<1>5. QED
  BY <1>1, <1>3, <1>4

(* The top step is unmapped: the cache's rows move below it.                *)
Shrunk(T, olds, news, low, n) ==
  /\ req.phase = "none" /\ mapped > 1 /\ T \in SUBSET Evictable /\ req' = req
  /\ UnmapStep(olds, news, Released(swaMap, Held(T)),
               ((Held(Texts) \ Held(T)) \ StepSlots(mapped - 1)) \cup Range(news))
  /\ mapped' = mapped - 1
  /\ swaMap' = MovedMap(Released(swaMap, Held(T)), olds, news)
  /\ free' = low \ Range(news) /\ swaFree' = swaFree \cup SwaOf(Held(T))
  /\ cache' = [t \in Texts |-> [i \in DOMAIN Remaining(T)[t] |->
                 NewSlotOf(StepSlots(mapped - 1), olds, news, Remaining(T)[t][i])]]
  /\ low = (free \cup Held(T)) \ StepSlots(mapped - 1)
  /\ olds \in Seq((Held(Texts) \ Held(T)) \cap StepSlots(mapped - 1)) /\ Len(olds) = n
  /\ \A i, j \in 1 .. n : olds[i] = olds[j] => i = j
  /\ \A x \in (Held(Texts) \ Held(T)) \cap StepSlots(mapped - 1) : \E i \in 1 .. n : olds[i] = x
  /\ news \in Seq(low) /\ Len(news) = n
  /\ \A i, j \in 1 .. n : news[i] = news[j] => i = j

LEMMA ShrinkIs ==
  ASSUME OwnInv, NEW T, Shrink(T)
  PROVE  \E olds, news, low : \E n \in Nat : Shrunk(T, olds, news, low, n)
<1>1. PICK H, top, A : H = Held(T) /\ top = StepSlots(mapped - 1) /\ A = Held(Texts)
  OBVIOUS
<1>2. PICK olds, low : olds = Ascending((A \ H) \cap top) /\ low = (free \cup H) \ top
  OBVIOUS
<1>3. PICK news : news = Lowest(low, Len(olds))
  OBVIOUS
<1>4. PICK short : short = Cardinality(A \cap top) - Cardinality(free \ top)
  OBVIOUS
<1>5. /\ req.phase = "none" /\ mapped > 1 /\ T \in Victims(short) /\ req' = req
      /\ mapped' = mapped - 1 /\ UnmapStep(olds, news, Released(swaMap, H), ((A \ H) \ top) \cup Range(news))
      /\ swaMap' = MovedMap(Released(swaMap, H), olds, news)
      /\ free' = low \ Range(news) /\ swaFree' = swaFree \cup SwaOf(H)
      /\ cache' = [t \in Texts |-> [i \in DOMAIN Remaining(T)[t] |->
                     NewSlotOf(top, olds, news, Remaining(T)[t][i])]]
  <2>1. /\ Idle /\ mapped > 1 /\ T \in Victims(short) /\ req' = req
        /\ UnmapStep(olds, news, Released(swaMap, H), ((A \ H) \ top) \cup Range(news))
        /\ free' = low \ Range(news) /\ swaFree' = swaFree \cup SwaOf(H)
    BY <1>1, <1>2, <1>3, <1>4, Zenon DEF Shrink
  <2>2. mapped' = mapped - 1 /\ swaMap' = MovedMap(Released(swaMap, H), olds, news)
    BY <2>1, Zenon DEF UnmapStep
  <2>3. cache' = [t \in Texts |-> [i \in DOMAIN Remaining(T)[t] |->
                     NewSlotOf(top, olds, news, Remaining(T)[t][i])]]
    <3>1. cache' = [t \in Texts |-> [i \in DOMAIN Remaining(T)[t] |->
            IF Remaining(T)[t][i] \in StepSlots(mapped - 1)
            THEN Lowest((free \cup Held(T)) \ StepSlots(mapped - 1),
                        Len(Ascending((Held(Texts) \ Held(T)) \cap StepSlots(mapped - 1))))
                 [CHOOSE k \in DOMAIN Ascending((Held(Texts) \ Held(T)) \cap StepSlots(mapped - 1)) :
                    Ascending((Held(Texts) \ Held(T)) \cap StepSlots(mapped - 1))[k] = Remaining(T)[t][i]]
            ELSE Remaining(T)[t][i]]]
      BY Zenon DEF Shrink
    <3>2. cache' = [t \in Texts |-> [i \in DOMAIN Remaining(T)[t] |->
            IF Remaining(T)[t][i] \in top
            THEN news[CHOOSE k \in DOMAIN olds : olds[k] = Remaining(T)[t][i]]
            ELSE Remaining(T)[t][i]]]
      BY <1>1, <1>2, <1>3, <3>1
    <3>3. QED
      BY <3>2 DEF NewSlotOf
  <2>4. QED
    BY <2>1, <2>2, <2>3 DEF Idle
<1>6. T \in SUBSET Evictable
  BY <1>5 DEF Victims
<1>7. /\ H \in SUBSET LiveSlots /\ T \in SUBSET Texts /\ Freed(T) = H
      /\ LiveSlots = A /\ A \ H = Held(Texts \ T) /\ SwaOf(H) = Behind(swaMap, H)
      /\ Remaining(T) = [t \in Texts |-> IF t \in T THEN <<>> ELSE cache[t]]
  <2>1. SwaOf(H) = Behind(swaMap, H)
    BY DEF SwaOf, Behind, Img
  <2>2. QED
    BY <1>1, <1>5, <1>6, <2>1, IdleEvicts
<1>8. req.row = <<>> /\ Range(req.row) = {}
  BY <1>5 DEF OwnInv, ReqTypes, Range
<1>9. LiveSlots = A /\ A \ H = Held(Texts \ T)
  BY <1>7
<1>10. PICK C : C = Backed(mapped)
  OBVIOUS
<1>11. /\ C \subseteq FullSlots \ {DummySlot} /\ IsFiniteSet(C) /\ A \subseteq C /\ free \subseteq C
       /\ A \cap free = {} /\ FullSlots \subseteq Nat /\ H \in SUBSET A
  BY <1>7, <1>9, <1>10, LiveFinite
<1>12. IF short <= 0 THEN H = {} ELSE Cardinality(H) >= short
  <2>1. CASE short <= 0
    <3>1. T = {}
      BY <1>5, <2>1 DEF Victims
    <3>2. \A x : x \notin H
      BY <1>1, <3>1, HeldIs
    <3>3. QED
      BY <2>1, <3>2
  <2>2. CASE ~(short <= 0)
    BY <1>1, <1>5, <1>7, <2>2 DEF Victims
  <2>3. QED
    BY <2>1, <2>2
<1>13. PICK K : K = (A \ H) \cap top
  OBVIOUS
<1>14. IsFiniteSet(K) /\ IsFiniteSet(low) /\ Cardinality(K) <= Cardinality(low)
  <2>1. short \in Int
    <3>1. IsFiniteSet(A \cap top) /\ IsFiniteSet(free \ top)
      <4>1. A \cap top \subseteq C /\ free \ top \subseteq C
        BY <1>11
      <4>2. QED
        BY <1>11, <4>1, FS_Subset
    <3>2. Cardinality(A \cap top) \in Nat /\ Cardinality(free \ top) \in Nat
      BY <3>1, FS_CardinalityType
    <3>3. QED
      BY <1>4, <3>2
  <2>2. PICK f : f = free
    OBVIOUS
  <2>3. /\ Cardinality((A \ H) \cap top) <= Cardinality((f \cup H) \ top)
        /\ IsFiniteSet((A \ H) \cap top) /\ IsFiniteSet((f \cup H) \ top)
    BY <1>4, <1>11, <1>12, <2>1, <2>2, RoomBelow
  <2>4. QED
    BY <1>2, <1>13, <2>2, <2>3
<1>15. PICK n \in Nat : n = Cardinality(K)
  BY <1>14, FS_CardinalityType
<1>16. K \in SUBSET Int /\ low \in SUBSET Int
  <2>1. \A x \in C : x \in Int
    BY <1>11
  <2>2. QED
    BY <1>2, <1>11, <1>13, <2>1
<1>17. /\ olds \in Seq(K) /\ Len(olds) = n
       /\ \A i, j \in 1 .. n : olds[i] = olds[j] => i = j
       /\ \A x \in K : \E i \in 1 .. n : olds[i] = x
  <2>1. olds = Ascending(K)
    BY <1>2, <1>13
  <2>2. /\ Ascending(K) \in Seq(K) /\ Len(Ascending(K)) = Cardinality(K)
        /\ \A i, j \in 1 .. Cardinality(K) : Ascending(K)[i] = Ascending(K)[j] => i = j
        /\ \A x \in K : \E i \in 1 .. Cardinality(K) : Ascending(K)[i] = x
    BY <1>14, <1>16, AscendingIs
  <2>3. QED
    BY <1>15, <2>1, <2>2, Zenon
<1>18. /\ news \in Seq(low) /\ Len(news) = n
       /\ \A i, j \in 1 .. n : news[i] = news[j] => i = j
  BY <1>3, <1>14, <1>15, <1>16, <1>17, LowestIs
<1>19. Shrunk(T, olds, news, low, n)
  <2>1. low = (free \cup Held(T)) \ StepSlots(mapped - 1)
        /\ K = (Held(Texts) \ Held(T)) \cap StepSlots(mapped - 1)
    BY <1>1, <1>2, <1>13
  <2>2. olds \in Seq((Held(Texts) \ Held(T)) \cap StepSlots(mapped - 1))
        /\ \A x \in (Held(Texts) \ Held(T)) \cap StepSlots(mapped - 1) : \E i \in 1 .. n : olds[i] = x
    BY <1>17, <2>1
  <2>3. QED
    BY <1>1, <1>5, <1>6, <1>17, <1>18, <2>1, <2>2 DEF Shrunk
<1>20. QED
  BY <1>19

LEMMA ShrinkKeeps ==
  ASSUME OwnInv, NEW T, Shrink(T)
  PROVE  OwnInv'
<1>1. PICK H, top, A : H = Held(T) /\ top = StepSlots(mapped - 1) /\ A = Held(Texts)
  OBVIOUS
<1>2. PICK K : K = (A \ H) \cap top
  OBVIOUS
<1>3. PICK olds, news, low : \E n \in Nat : Shrunk(T, olds, news, low, n)
  BY ShrinkIs
<1>4. PICK n \in Nat : Shrunk(T, olds, news, low, n)
  BY <1>3
<1>5. /\ req.phase = "none" /\ mapped > 1 /\ req' = req /\ mapped' = mapped - 1
      /\ swaMap' = MovedMap(Released(swaMap, H), olds, news)
      /\ free' = low \ Range(news) /\ swaFree' = swaFree \cup SwaOf(H)
      /\ cache' = [t \in Texts |-> [i \in DOMAIN Remaining(T)[t] |->
                     NewSlotOf(top, olds, news, Remaining(T)[t][i])]]
      /\ low = (free \cup H) \ top
  BY <1>1, <1>4 DEF Shrunk
<1>6. T \in SUBSET Evictable
  BY <1>4 DEF Shrunk
<1>7. /\ H \in SUBSET LiveSlots /\ T \in SUBSET Texts /\ Freed(T) = H
      /\ LiveSlots = A /\ A \ H = Held(Texts \ T) /\ SwaOf(H) = Behind(swaMap, H)
      /\ Remaining(T) = [t \in Texts |-> IF t \in T THEN <<>> ELSE cache[t]]
  <2>1. SwaOf(H) = Behind(swaMap, H)
    BY DEF SwaOf, Behind, Img
  <2>2. QED
    BY <1>1, <1>5, <1>6, <2>1, IdleEvicts
<1>8. req.row = <<>> /\ Range(req.row) = {}
  BY <1>5 DEF OwnInv, ReqTypes, Range
<1>9. LiveSlots = A /\ A \ H = Held(Texts \ T)
  BY <1>7
<1>10. PICK C : C = Backed(mapped)
  OBVIOUS
<1>11. /\ C \subseteq FullSlots \ {DummySlot} /\ IsFiniteSet(C) /\ A \subseteq C /\ free \subseteq C
       /\ A \cap free = {} /\ FullSlots \subseteq Nat /\ H \in SUBSET A
  BY <1>7, <1>9, <1>10, LiveFinite
<1>17. /\ olds \in Seq(K) /\ Len(olds) = n
       /\ \A i, j \in 1 .. n : olds[i] = olds[j] => i = j
       /\ \A x \in K : \E i \in 1 .. n : olds[i] = x
  BY <1>1, <1>2, <1>4 DEF Shrunk
<1>18. /\ news \in Seq(low) /\ Len(news) = n
       /\ \A i, j \in 1 .. n : news[i] = news[j] => i = j
  BY <1>4 DEF Shrunk
<1>19. /\ DOMAIN olds = 1 .. n /\ DOMAIN news = 1 .. n /\ NoTwice(olds) /\ NoTwice(news)
       /\ \A i \in 1 .. n : olds[i] \in K /\ news[i] \in low /\ news[i] \in Range(news)
       /\ \A x \in Range(news) : \E i \in 1 .. n : news[i] = x
  <2>1. DOMAIN olds = 1 .. n /\ DOMAIN news = 1 .. n
    BY <1>17, <1>18
  <2>2. QED
    BY <1>17, <1>18, <2>1 DEF NoTwice, Range
<1>20. PICK R : R = Range(news)
  OBVIOUS
<1>21. PICK L : L = A \ H
  OBVIOUS
<1>22. Owned((L \ top) \cup R, low \ R, swaFree', swaMap', C \ top)
  <2>1. PICK f, sf, map : f = free /\ sf = swaFree /\ map = swaMap
    OBVIOUS
  <2>2. Owned(A, f, sf, map, C) /\ H \in SUBSET A
    BY <1>9, <1>10, <1>11, <2>1 DEF OwnInv
  <2>3. Owned(A \ H, f \cup H, sf \cup Behind(map, H), Released(map, H), C)
    BY <2>2, OwnedDrop
  <2>4. PICK f1, sf1, map1 : f1 = f \cup H /\ sf1 = sf \cup Behind(map, H) /\ map1 = Released(map, H)
    OBVIOUS
  <2>5. Owned(L, f1, sf1, map1, C)
    BY <1>21, <2>3, <2>4
  <2>6. olds \in Seq(L \cap top) /\ news \in Seq(f1 \ top) /\ \A x \in L \cap top : \E i \in 1 .. n : olds[i] = x
    BY <1>2, <1>5, <1>17, <1>18, <1>21, <2>1, <2>4
  <2>7. Owned((L \ top) \cup Range(news), (f1 \ top) \ Range(news), sf1,
              MovedMap(map1, olds, news), C \ top)
    BY <1>17, <1>18, <1>19, <2>5, <2>6, OwnedMove
  <2>8. swaFree' = sf1 /\ swaMap' = MovedMap(map1, olds, news) /\ low = f1 \ top
    BY <1>5, <1>7, <2>1, <2>4
  <2>9. QED
    BY <1>20, <2>7, <2>8
<1>23. PICK N : N = [x \in L |-> NewSlotOf(top, olds, news, x)]
  OBVIOUS
<1>24. /\ \A x \in L : x \notin top => N[x] = x
       /\ \A i \in 1 .. n : olds[i] \in L /\ olds[i] \in top /\ N[olds[i]] = news[i]
  <2>1. \A i \in 1 .. n : olds[i] \in L /\ olds[i] \in top
    BY <1>2, <1>19, <1>21
  <2>2. \A i \in 1 .. n : NewSlotOf(top, olds, news, olds[i]) = news[i]
    BY <1>19, <2>1, NewSlotIs
  <2>3. \A x \in L : x \notin top => N[x] = x
    BY <1>23 DEF NewSlotOf
  <2>4. QED
    BY <1>23, <2>1, <2>2, <2>3
<1>25. \A x \in L : x \in top => \E i \in 1 .. n : olds[i] = x /\ N[x] = news[i]
  BY <1>2, <1>17, <1>21, <1>24
<1>26. low \subseteq FullSlots /\ L \subseteq FullSlots /\ low \cap L = {} /\ low \cap top = {}
  BY <1>5, <1>11, <1>21
<1>27. /\ \A x \in L : N[x] \in FullSlots
       /\ \A x, y \in L : N[x] = N[y] => x = y
  <2>1. \A x \in L : (x \notin top /\ N[x] = x) \/ (\E i \in 1 .. n : olds[i] = x /\ N[x] = news[i])
    BY <1>24, <1>25
  <2>2. \A i \in 1 .. n : news[i] \in low
    BY <1>19
  <2>3. ASSUME NEW x \in L, NEW y \in L, N[x] = N[y]
        PROVE  x = y
    <3>1. CASE x \notin top /\ y \notin top
      BY <1>24, <2>3, <3>1
    <3>2. CASE x \in top /\ y \notin top
      <4>1. N[x] \in low /\ N[y] = y
        BY <1>24, <1>25, <2>2, <3>2
      <4>2. QED
        BY <1>26, <2>3, <4>1
    <3>3. CASE x \notin top /\ y \in top
      <4>1. N[y] \in low /\ N[x] = x
        BY <1>24, <1>25, <2>2, <3>3
      <4>2. QED
        BY <1>26, <2>3, <4>1
    <3>4. CASE x \in top /\ y \in top
      <4>1. PICK i \in 1 .. n : olds[i] = x /\ N[x] = news[i]
        BY <1>25, <3>4
      <4>2. PICK j \in 1 .. n : olds[j] = y /\ N[y] = news[j]
        BY <1>25, <3>4
      <4>3. i = j
        BY <1>18, <2>3, <4>1, <4>2
      <4>4. QED
        BY <4>1, <4>2, <4>3
    <3>5. QED
      BY <3>1, <3>2, <3>3, <3>4
  <2>4. QED
    BY <1>26, <2>1, <2>2, <2>3
<1>28. cache \in [Texts -> Seq(FullSlots)]
  BY DEF OwnInv, RowsApart
<1>29. ASSUME NEW t \in Texts, t \notin T, NEW i \in DOMAIN cache[t]
       PROVE  cache[t][i] \in L
  <2>1. t \in Texts \ T
    BY <1>29
  <2>2. cache[t][i] \in Held(Texts \ T)
    BY <1>29, <2>1, HeldIs
  <2>3. QED
    BY <1>9, <1>21, <2>2
<1>30. /\ cache' = [t \in Texts |-> cache'[t]]
       /\ \A t \in Texts : t \in T => cache'[t] = <<>>
       /\ \A t \in Texts : t \notin T => cache'[t] = [i \in DOMAIN cache[t] |-> N[cache[t][i]]]
  <2>1. Remaining(T) = [t \in Texts |-> IF t \in T THEN <<>> ELSE cache[t]]
    BY <1>7
  <2>2. \A t \in Texts : cache'[t] = [i \in DOMAIN Remaining(T)[t] |->
                     NewSlotOf(top, olds, news, Remaining(T)[t][i])]
    BY <1>5
  <2>3. ASSUME NEW t \in Texts, t \in T
        PROVE  cache'[t] = <<>>
    <3>1. Remaining(T)[t] = <<>>
      BY <2>1, <2>3
    <3>2. DOMAIN Remaining(T)[t] = {}
      BY <3>1
    <3>3. cache'[t] = [i \in {} |-> NewSlotOf(top, olds, news, Remaining(T)[t][i])]
      BY <2>2, <3>2
    <3>4. QED
      BY <3>3
  <2>4. ASSUME NEW t \in Texts, t \notin T
        PROVE  cache'[t] = [i \in DOMAIN cache[t] |-> N[cache[t][i]]]
    <3>1. Remaining(T)[t] = cache[t]
      BY <2>1, <2>4
    <3>2. cache'[t] = [i \in DOMAIN cache[t] |-> NewSlotOf(top, olds, news, cache[t][i])]
      BY <2>2, <3>1
    <3>3. \A i \in DOMAIN cache[t] : NewSlotOf(top, olds, news, cache[t][i]) = N[cache[t][i]]
      BY <1>23, <1>29, <2>4
    <3>4. QED
      BY <3>2, <3>3
  <2>5. cache' = [t \in Texts |-> cache'[t]]
    BY <1>5
  <2>6. QED
    BY <2>3, <2>4, <2>5
<1>31. \A t \in Texts : \A i \in DOMAIN cache'[t] :
         /\ t \notin T /\ i \in DOMAIN cache[t] /\ cache[t][i] \in L
         /\ cache'[t][i] = N[cache[t][i]]
  <2> SUFFICES ASSUME NEW t \in Texts, NEW i \in DOMAIN cache'[t]
               PROVE  /\ t \notin T /\ i \in DOMAIN cache[t] /\ cache[t][i] \in L
                      /\ cache'[t][i] = N[cache[t][i]]
    OBVIOUS
  <2>1. t \notin T
    BY <1>30
  <2>2. cache'[t] = [k \in DOMAIN cache[t] |-> N[cache[t][k]]]
    BY <1>30, <2>1
  <2>3. i \in DOMAIN cache[t] /\ cache'[t][i] = N[cache[t][i]]
    BY <2>2
  <2>4. QED
    BY <1>29, <2>1, <2>3
<1>32. RowsApart'
  <2>1. \A t \in Texts : cache'[t] \in Seq(FullSlots)
    <3> SUFFICES ASSUME NEW t \in Texts
                 PROVE  cache'[t] \in Seq(FullSlots)
      OBVIOUS
    <3>1. CASE t \in T
      <4>1. cache'[t] = <<>>
        BY <1>30, <3>1
      <4>2. <<>> \in Seq(FullSlots)
        OBVIOUS
      <4>3. QED
        BY <4>1, <4>2
    <3>2. CASE t \notin T
      <4>1. PICK q \in Seq(FullSlots) : q = cache[t]
        BY <1>28
      <4>2. PICK k \in Nat : k = Len(q) /\ DOMAIN q = 1 .. k
        BY <4>1
      <4>3. PICK r : r = [i \in 1 .. k |-> N[q[i]]]
        OBVIOUS
      <4>4. \A i \in 1 .. k : r[i] \in FullSlots
        BY <1>27, <1>29, <3>2, <4>1, <4>2, <4>3
      <4>5. r = [i \in 1 .. k |-> r[i]]
        BY <4>3
      <4>6. r \in [1 .. k -> FullSlots]
        BY <4>4, <4>5
      <4>7. r \in Seq(FullSlots)
        BY <4>5, <4>6
      <4>8. cache'[t] = r
        BY <1>30, <3>2, <4>1, <4>2, <4>3
      <4>9. QED
        BY <4>7, <4>8
    <3>3. QED
      BY <3>1, <3>2
  <2>2. cache' \in [Texts -> Seq(FullSlots)]
    BY <1>30, <2>1
  <2>3. ASSUME NEW t \in Texts, NEW i \in DOMAIN cache'[t], NEW j \in DOMAIN cache'[t],
               cache'[t][i] = cache'[t][j]
        PROVE  i = j
    <3>1. i \in DOMAIN cache[t] /\ j \in DOMAIN cache[t] /\ cache[t][i] = cache[t][j]
      BY <1>27, <1>31, <2>3
    <3>2. QED
      BY <3>1 DEF OwnInv, RowsApart, NoTwice
  <2>4. ASSUME NEW t \in Texts, NEW u \in Texts, NEW i \in DOMAIN cache'[t], NEW j \in DOMAIN cache'[u],
               cache'[t][i] = cache'[u][j]
        PROVE  t = u
    <3>1. i \in DOMAIN cache[t] /\ j \in DOMAIN cache[u] /\ cache[t][i] = cache[u][j]
      BY <1>27, <1>31, <2>4
    <3>2. QED
      BY <3>1 DEF OwnInv, RowsApart
  <2>5. \A t \in Texts : NoTwice(cache'[t])
    BY <2>3 DEF NoTwice
  <2>6. req'.row = <<>>
    BY <1>5, <1>8
  <2>7. NoTwice(req'.row) /\ DOMAIN req'.row = {}
    BY <2>6 DEF NoTwice
  <2>8. QED
    BY <2>2, <2>4, <2>5, <2>7 DEF RowsApart
<1>33. LiveSlots' = (L \ top) \cup R
  <2>1. \A x : x \in HeldBy(cache', Texts) <=> \E y \in L : N[y] = x
    <3> TAKE x
    <3>1. x \in HeldBy(cache', Texts) <=> \E t \in Texts : \E j \in DOMAIN cache'[t] : cache'[t][j] = x
      BY HeldByIs
    <3>2. (\E t \in Texts : \E j \in DOMAIN cache'[t] : cache'[t][j] = x) => \E y \in L : N[y] = x
      BY <1>31
    <3>3. ASSUME NEW y \in L, N[y] = x
          PROVE  \E t \in Texts : \E j \in DOMAIN cache'[t] : cache'[t][j] = x
      <4>1. y \in Held(Texts \ T)
        BY <1>9, <1>21, <3>3
      <4>2. \E t \in Texts \ T : \E j \in DOMAIN cache[t] : cache[t][j] = y
        BY <4>1, HeldIs
      <4>3. PICK t \in Texts \ T : \E j \in DOMAIN cache[t] : cache[t][j] = y
        BY <4>2
      <4>4. PICK j \in DOMAIN cache[t] : cache[t][j] = y
        BY <4>3
      <4>5. cache'[t] = [i \in DOMAIN cache[t] |-> N[cache[t][i]]]
        BY <1>30
      <4>6. j \in DOMAIN cache'[t] /\ cache'[t][j] = x
        BY <3>3, <4>4, <4>5
      <4>7. QED
        BY <4>6
    <3>4. QED
      BY <3>1, <3>2, <3>3
  <2>2. \A x : (\E y \in L : N[y] = x) <=> x \in (L \ top) \cup R
    <3> TAKE x
    <3>1. ASSUME NEW y \in L, N[y] = x
          PROVE  x \in (L \ top) \cup R
      BY <1>19, <1>20, <1>24, <1>25, <3>1
    <3>2. ASSUME x \in L \ top
          PROVE  \E y \in L : N[y] = x
      BY <1>24, <3>2
    <3>3. ASSUME x \in R
          PROVE  \E y \in L : N[y] = x
      BY <1>19, <1>20, <1>24, <3>3
    <3>4. QED
      BY <3>1, <3>2, <3>3
  <2>3. Held(Texts)' = (L \ top) \cup R
    BY <2>1, <2>2, HeldByIs
  <2>4. Range(req.row)' = {}
    BY <1>5, <1>8 DEF Range
  <2>5. LiveSlots' = Held(Texts)'
    BY <2>4 DEF LiveSlots
  <2>6. QED
    BY <2>3, <2>5
<1>34. mapped \in 1 .. StepsMax /\ mapped - 1 \in 1 .. StepsMax /\ StepsMax \in Nat
  BY <1>5, SizesAre DEF OwnInv
<1>35. Backed(mapped)' = C \ top
  <2>1. PICK m \in 1 .. StepsMax : m = mapped /\ 1 < m
    BY <1>5, <1>34
  <2>2. Backed(m - 1) = Backed(m) \ StepSlots(m - 1)
    BY <2>1, BackedIs
  <2>3. Backed(mapped)' = Backed(m - 1)
    BY <1>5, <2>1 DEF Backed
  <2>4. QED
    BY <1>1, <1>10, <2>1, <2>2, <2>3
<1>36. Owned(LiveSlots, free, swaFree, swaMap, Backed(mapped))'
  <2>1. free' = low \ R
    BY <1>5, <1>20
  <2>2. Owned(LiveSlots', free', swaFree', swaMap', Backed(mapped)')
    BY <1>22, <1>33, <1>35, <2>1
  <2>3. QED
    BY <2>2 DEF Owned
<1>37. ReqTypes'
  BY <1>5 DEF OwnInv, ReqTypes
<1>38. mapped' \in 1 .. StepsMax
  BY <1>5, <1>34
<1>39. NeedsKept'
  <2>1. Len(req'.row) = 0
    BY <1>5, <1>8
  <2>2. \A w : Near(0, w) = {}
    BY DEF Near
  <2>3. QED
    BY <2>1, <2>2 DEF NeedsKept
<1>40. QED
  BY <1>32, <1>36, <1>37, <1>38, <1>39 DEF OwnInv


-----------------------------------------------------------------------------
(* The invariant.                                                           *)

LEMMA StartOwned ==
  ASSUME Init
  PROVE  OwnInv
<1>1. /\ req = [phase |-> "none", text |-> Sink, prompt |-> 0, matched |-> 0, row |-> <<>>]
      /\ cache = [t \in Texts |-> <<>>] /\ free = InitialFree /\ swaFree = SwaSlots \ {0}
      /\ swaMap = [s \in FullSlots |-> 0] /\ mapped = 1
  BY DEF Init, PoolStart, NoReq
<1>2. ReqTypes
  BY <1>1 DEF ReqTypes, ServePhases
<1>3. RowsApart
  <2>1. <<>> \in Seq(FullSlots) /\ NoTwice(<<>>) /\ DOMAIN <<>> = {}
    BY DEF NoTwice
  <2>2. req.row = <<>> /\ \A t \in Texts : cache[t] = <<>>
    BY <1>1
  <2>3. QED
    BY <1>1, <2>1, <2>2 DEF RowsApart
<1>4. LiveSlots = {}
  <2>1. \A x : x \notin Held(Texts)
    BY <1>1, HeldIs
  <2>2. Range(req.row) = {}
    BY <1>1 DEF Range
  <2>3. QED
    BY <2>1, <2>2 DEF LiveSlots
<1>5. 1 \in 1 .. StepsMax
  BY SizesAre
<1>6. Backed(1) = InitialFree
  <2>1. StepSlots(0) \subseteq InitialFree
    BY DEF InitialFree
  <2>2. UNION {StepSlots(s) : s \in {0}} = StepSlots(0)
    BY Zenon
  <2>3. 0 .. (1 - 1) = {0}
    OBVIOUS
  <2>4. Backed(1) = StepSlots(0) \cup (InitialFree \ StepSlots(0))
    BY <2>2, <2>3 DEF Backed
  <2>5. QED
    BY <2>1, <2>4
<1>7. InitialFree \subseteq FullSlots
  <2>1. PICK k \in 1 .. StepsMax : k = 1
    BY <1>5
  <2>2. Backed(k) \subseteq FullSlots \ {DummySlot}
    BY BackedIs
  <2>3. QED
    BY <1>6, <2>1, <2>2
<1>8. 0 \in SwaSlots
  BY SizesAre DEF SwaSlots
<1>9. Owned({}, InitialFree, SwaSlots \ {0}, swaMap, InitialFree)
  BY <1>1, <1>7, <1>8 DEF Owned
<1>10. NeedsKept
  <2>1. Len(req.row) = 0
    BY <1>1
  <2>2. \A w : Near(0, w) = {}
    BY DEF Near
  <2>3. QED
    BY <2>1, <2>2 DEF NeedsKept
<1>11. QED
  BY <1>1, <1>2, <1>3, <1>4, <1>5, <1>6, <1>9, <1>10 DEF OwnInv

LEMMA RowsLive ==
  Range(req.row) \in SUBSET LiveSlots /\ \A t \in Texts : Range(cache[t]) \in SUBSET LiveSlots
<1>1. \A t \in Texts : \A x \in Range(cache[t]) : x \in Held(Texts)
  BY HeldIs DEF Range
<1>2. QED
  BY <1>1 DEF LiveSlots

(* Window slots behind the window are given back, the slots still held.     *)
LEMMA FreeKeeps ==
  ASSUME OwnInv, NEW S \in SUBSET LiveSlots, FreeWindow(S)
  PROVE  OwnInv'
<1>1. PICK G : G = {s \in S \ Needs : swaMap[s] # 0}
  OBVIOUS
<1>2. /\ swaMap' = Released(swaMap, G) /\ swaFree' = swaFree \cup SwaOf(G)
      /\ req' = req /\ cache' = cache /\ free' = free /\ mapped' = mapped
  BY <1>1, Zenon DEF FreeWindow
<1>3. G \in SUBSET LiveSlots /\ SwaOf(G) = Behind(swaMap, G)
  BY <1>1 DEF SwaOf, Behind, Img
<1>4. PICK L, f, sf, map, B : /\ L = LiveSlots /\ f = free /\ sf = swaFree /\ map = swaMap
                              /\ B = Backed(mapped)
  OBVIOUS
<1>5. Owned(L, f, sf \cup Behind(map, G), Released(map, G), B)
  <2>1. Owned(L, f, sf, map, B) /\ G \in SUBSET L
    BY <1>3, <1>4 DEF OwnInv
  <2>2. QED
    BY <2>1, OwnedFree
<1>6. LiveSlots' = L /\ Backed(mapped)' = B
  BY <1>2, <1>4, HeldByIs DEF LiveSlots, Backed
<1>7. Owned(LiveSlots, free, swaFree, swaMap, Backed(mapped))'
  <2>1. Owned(LiveSlots', free', swaFree', swaMap', Backed(mapped)')
    BY <1>2, <1>3, <1>4, <1>5, <1>6
  <2>2. QED
    BY <2>1 DEF Owned
<1>8. NeedsKept'
  <2>1. PICK N : N = Near(Len(req.row), Reach(req.phase))
    OBVIOUS
  <2>2. req.row \in Seq(FullSlots) /\ \A i \in N : i \in DOMAIN req.row /\ swaMap[req.row[i]] # 0
    BY <2>1 DEF OwnInv, NeedsKept, ReqTypes, Near
  <2>3. \A i \in N : req.row[i] \in Needs
    BY <2>1 DEF Needs, Reach
  <2>4. ASSUME NEW i \in N
        PROVE  swaMap'[req.row[i]] # 0
    <3>1. req.row[i] \in FullSlots /\ req.row[i] \notin G /\ swaMap[req.row[i]] # 0
      BY <1>1, <2>2, <2>3
    <3>2. QED
      BY <1>2, <3>1 DEF Released
  <2>5. QED
    BY <1>2, <2>1, <2>4 DEF NeedsKept, Reach, Near
<1>9. ReqTypes' /\ RowsApart' /\ mapped' \in 1 .. StepsMax
  BY <1>2 DEF OwnInv, ReqTypes, RowsApart
<1>10. QED
  BY <1>7, <1>8, <1>9 DEF OwnInv

LEMMA DecodeRoom ==
  ASSUME OwnInv, req.phase = "prefill"
  PROVE  /\ Smaller(MaxChunk, req.prompt - Len(req.row)) \in Nat
         /\ Len(req.row) + Smaller(MaxChunk, req.prompt - Len(req.row)) <= req.prompt
<1>1. PICK p \in Nat, k \in Nat : p = req.prompt /\ k = Len(req.row) /\ k <= p
  BY DEF OwnInv, ReqTypes
<1>2. p - k \in Nat /\ MaxChunk \in Nat
  BY <1>1, ServeAssumption
<1>3. PICK n : n = Smaller(MaxChunk, p - k)
  OBVIOUS
<1>4. n \in {MaxChunk, p - k} /\ n <= p - k
  BY <1>2, <1>3, SmallerIs
<1>5. n \in Nat /\ k + n <= p
  BY <1>1, <1>2, <1>4
<1>6. QED
  BY <1>1, <1>3, <1>5

LEMMA StepKeeps ==
  ASSUME OwnInv, [Next]_vars
  PROVE  OwnInv'
<1>1. ASSUME NEW t \in Texts, NEW n \in 1 .. MaxPrompt, NEW m, Arrive(t, n, m)
      PROVE  OwnInv'
  BY <1>1, ArriveKeeps
<1>2. ASSUME NEW T, NEW g, Prefill(T, g)
      PROVE  OwnInv'
  <2>1. PICK n : n = Smaller(MaxChunk, req.prompt - Len(req.row))
    OBVIOUS
  <2>2. PICK a : a = Allocated(n, T)
    OBVIOUS
  <2>3. PICK ph : ph = IF Len(req.row \o a.slots) = req.prompt THEN "decode" ELSE "prefill"
    OBVIOUS
  <2>4. req.phase = "prefill" /\ Extend(n, T, ph, a) /\ mapped' = mapped
    BY <1>2, <2>1, <2>2, <2>3, Zenon DEF Prefill
  <2>5. n \in Nat /\ Len(req.row) + n <= req.prompt
    BY <2>1, <2>4, DecodeRoom
  <2>6. ph \in ServePhases \ {"none"} /\ ph # "topk" /\ req.phase \in {"prefill", "decode"}
    BY <2>3, <2>4 DEF ServePhases
  <2>7. QED
    BY <2>2, <2>4, <2>5, <2>6, ExtendKeeps
<1>3. ASSUME NEW T, NEW g, DecodeStart(T, g)
      PROVE  OwnInv'
  <2>1. PICK n \in Nat : n = 1
    OBVIOUS
  <2>2. PICK a : a = Allocated(n, T)
    OBVIOUS
  <2>3. PICK ph : ph = "topk"
    OBVIOUS
  <2>4. req.phase = "decode" /\ Extend(n, T, ph, a) /\ mapped' = mapped
    BY <1>3, <2>1, <2>2, <2>3, Zenon DEF DecodeStart
  <2>5. ph \in ServePhases \ {"none"} /\ ph # "prefill" /\ req.phase \in {"prefill", "decode"}
    BY <2>3, <2>4 DEF ServePhases
  <2>6. QED
    BY <2>1, <2>2, <2>4, <2>5, ExtendKeeps
<1>4. ASSUME cache' = cache, free' = free, swaFree' = swaFree, swaMap' = swaMap, mapped' = mapped,
             req' = req \/ (req.phase = "topk" /\ req' = [req EXCEPT !.phase = "decode"])
      PROVE  OwnInv'
  <2>1. /\ req'.row = req.row /\ req'.text = req.text /\ req'.matched = req.matched
        /\ req'.phase = req.phase \/ req.phase = "topk"
        /\ ReqTypes'
    <3>1. CASE req' = req
      BY <3>1 DEF OwnInv, ReqTypes
    <3>2. CASE req.phase = "topk" /\ req' = [req EXCEPT !.phase = "decode"]
      <4>1. req' = [phase |-> "decode", text |-> req.text, prompt |-> req.prompt,
                    matched |-> req.matched, row |-> req.row]
        BY <3>2 DEF OwnInv, ReqTypes
      <4>2. QED
        BY <3>2, <4>1 DEF OwnInv, ReqTypes, ServePhases
    <3>3. QED
      BY <1>4, <3>1, <3>2
  <2>2. RowsApart'
    BY <1>4, <2>1 DEF OwnInv, RowsApart
  <2>3. LiveSlots' = LiveSlots
    <3>1. Held(Texts)' = Held(Texts)
      BY <1>4, HeldByIs
    <3>2. Range(req.row)' = Range(req.row)
      BY <2>1
    <3>3. QED
      BY <3>1, <3>2 DEF LiveSlots
  <2>4. Backed(mapped)' = Backed(mapped)
    BY <1>4 DEF Backed
  <2>5. Owned(LiveSlots, free, swaFree, swaMap, Backed(mapped))'
    <3>1. Owned(LiveSlots', free', swaFree', swaMap', Backed(mapped)')
      BY <1>4, <2>3, <2>4 DEF OwnInv
    <3>2. QED
      BY <3>1 DEF Owned
  <2>6. NeedsKept'
    <3>1. PICK m \in Nat, w \in Nat \ {0} : m = Len(req.row) /\ w = Window
      BY AttnAssumption DEF OwnInv, ReqTypes
    <3>2. Reach(req.phase) \in {w, w - 1} /\ Reach(req'.phase) \in {w, w - 1}
          /\ (req'.phase # req.phase => Reach(req.phase) = w)
      BY <2>1, <3>1 DEF Reach
    <3>3. Near(m, Reach(req'.phase)) \subseteq Near(m, Reach(req.phase))
      BY <3>1, <3>2 DEF Near
    <3>4. \A i \in Near(m, Reach(req.phase)) : swaMap[req.row[i]] # 0
      BY <3>1 DEF OwnInv, NeedsKept
    <3>5. \A i \in Near(m, Reach(req'.phase)) : swaMap'[req'.row[i]] # 0
      BY <1>4, <2>1, <3>3, <3>4
    <3>6. Len(req'.row) = m
      BY <2>1, <3>1
    <3>7. QED
      BY <3>5, <3>6 DEF NeedsKept, Reach
  <2>7. QED
    BY <1>4, <2>1, <2>2, <2>5, <2>6 DEF OwnInv
<1>5. ASSUME DecodeTopk
      PROVE  OwnInv'
  <2>1. /\ cache' = cache /\ free' = free /\ swaFree' = swaFree /\ swaMap' = swaMap
        /\ mapped' = mapped /\ req' = req
    BY <1>5 DEF DecodeTopk, poolVars
  <2>2. QED
    BY <1>4, <2>1
<1>6. ASSUME DecodeAttend
      PROVE  OwnInv'
  <2>1. /\ cache' = cache /\ free' = free /\ swaFree' = swaFree /\ swaMap' = swaMap
        /\ mapped' = mapped /\ req.phase = "topk" /\ req' = [req EXCEPT !.phase = "decode"]
    BY <1>6 DEF DecodeAttend, poolVars
  <2>2. QED
    BY <1>4, <2>1
<1>7. ASSUME vars' = vars
      PROVE  OwnInv'
  <2>1. /\ cache' = cache /\ free' = free /\ swaFree' = swaFree /\ swaMap' = swaMap
        /\ mapped' = mapped /\ req' = req
    BY <1>7 DEF vars, poolVars
  <2>2. QED
    BY <1>4, <2>1
<1>8. ASSUME Next
      PROVE  OwnInv'
  BY <1>1, <1>2, <1>3, <1>5, <1>6, <1>8, FinishKeeps, GrowKeeps, ShrinkKeeps, FreeKeeps, RowsLive DEF Next
<1>9. QED
  BY <1>7, <1>8

LEMMA OwnedShown ==
  ASSUME OwnInv
  PROVE  SwaOwned
<1>1. PICK L, G : L = LiveSlots /\ G = {s \in FullSlots : swaMap[s] # 0}
  OBVIOUS
<1>2. Owned(L, free, swaFree, swaMap, Backed(mapped))
  BY <1>1 DEF OwnInv
<1>3. L \subseteq FullSlots /\ G \subseteq L /\ \A s \in L : s \in G <=> swaMap[s] # 0
  BY <1>1, <1>2 DEF Owned
<1>4. Needs \subseteq G
  <2>1. req.row \in Seq(FullSlots)
    BY DEF OwnInv, ReqTypes
  <2>2. \A i \in Near(Len(req.row), Reach(req.phase)) : req.row[i] \in FullSlots /\ swaMap[req.row[i]] # 0
    BY <2>1 DEF OwnInv, NeedsKept, Near
  <2>3. QED
    BY <1>1, <2>2 DEF Needs, Reach
<1>5. SwaOf(G) \cup swaFree = SwaSlots \ {0} /\ SwaOf(G) \cap swaFree = {}
  <2>1. PICK W : W = SwaSlots \ {0}
    OBVIOUS
  <2>2. \A s \in G : swaMap[s] \in W /\ swaMap[s] \notin swaFree
    BY <1>1, <1>2, <1>3, <2>1 DEF Owned
  <2>3. swaFree \subseteq W /\ \A w \in W : w \notin swaFree => \E s \in G : swaMap[s] = w
    BY <1>2, <1>3, <2>1 DEF Owned
  <2>4. SwaOf(G) = {swaMap[s] : s \in G} \ {0}
    BY DEF SwaOf
  <2>5. QED
    BY <2>1, <2>2, <2>3, <2>4
<1>6. L \cup free = Backed(mapped) /\ L \cap free = {}
  BY <1>2 DEF Owned
<1>7. \A r, s \in G : swaMap[r] = swaMap[s] => r = s
  BY <1>1, <1>2, <1>3 DEF Owned
<1>8. QED
  BY <1>1, <1>3, <1>4, <1>5, <1>6, <1>7, Zenon DEF SwaOwned, Backed

(* Whatever the sizes of the two pools (naive_pool.py:255-272) and whichever *)
(* window slots the engine gives back behind the window: what the queries to *)
(* come of the request read has a window slot of its own, a held slot is     *)
(* backed, and no slot of either kind is lost or free twice over.            *)
THEOREM WindowSlotsOwned == Spec => []SwaOwned
<1>1. Init => OwnInv
  BY StartOwned
<1>2. OwnInv /\ [Next]_vars => OwnInv'
  BY StepKeeps
<1>3. OwnInv => SwaOwned
  BY OwnedShown
<1>4. QED
  BY <1>1, <1>2, <1>3, PTL DEF Spec


-----------------------------------------------------------------------------
(* The selection of a decode pass: its scores are floats, its row's slots    *)
(* differ, and the launches keep TopkInv.                                    *)

IndexTypes == idx \in [FullSlots -> Tokens \cup {Blank}]
RowFits == req.prompt <= Width /\ Len(req.row) <= Width
TopkUnderWay == \E s \in {pass.scores}, q \in {req.row} : TopkInv(s, q)
ServeInv ==
  /\ OwnInv /\ IndexTypes /\ RowFits /\ TkShape
  /\ req.phase = "topk" => TopkUnderWay

Fits(slots, toks, V) == \A i \in DOMAIN slots : toks[i] \in V
LEMMA PutTypes ==
  ASSUME NEW V, NEW table \in [FullSlots -> V], NEW slots, NEW toks, Fits(slots, toks, V)
  PROVE  Put(table, slots, toks) \in [FullSlots -> V]
<1>1. PICK P : P = Put(table, slots, toks)
  OBVIOUS
<1>2. P = [s \in FullSlots |->
             IF \E i \in DOMAIN slots : slots[i] = s
             THEN toks[CHOOSE i \in DOMAIN slots : slots[i] = s] ELSE table[s]]
  BY <1>1 DEF Put
<1>3. ASSUME NEW s \in FullSlots
      PROVE  P[s] \in V
  <2>1. CASE \E i \in DOMAIN slots : slots[i] = s
    <3>1. PICK j : j = CHOOSE h \in DOMAIN slots : slots[h] = s
      OBVIOUS
    <3>2. j \in DOMAIN slots
      BY <2>1, <3>1
    <3>3. P[s] = toks[CHOOSE h \in DOMAIN slots : slots[h] = s]
      BY <1>2, <2>1
    <3>4. QED
      BY <3>1, <3>2, <3>3 DEF Fits
  <2>2. CASE ~ \E i \in DOMAIN slots : slots[i] = s
    BY <1>2, <2>2
  <2>3. QED
    BY <2>1, <2>2
<1>4. QED
  BY <1>1, <1>2, <1>3

LEMMA OfHeldTypes ==
  ASSUME NEW table \in [FullSlots -> Tokens \cup {Blank}], NEW held
  PROVE  OfHeld(table, held) \in [FullSlots -> Tokens \cup {Blank}]
BY DEF OfHeld

LEMMA ErasedTypes ==
  ASSUME NEW table \in [FullSlots -> Tokens \cup {Blank}], NEW s
  PROVE  Erased(table, s) \in [FullSlots -> Tokens \cup {Blank}]
BY DEF Erased

(* What a step of the request stores are tokens within the score row.        *)
LEMMA StoreTypes ==
  ASSUME OwnInv, IndexTypes, NEW n \in Nat, NEW T, NEW phase, NEW a,
         a = Allocated(n, T), Extend(n, T, phase, a), req.phase # "none", Len(req.row) + n <= Width
  PROVE  /\ IndexTypes'
         /\ req' = [phase |-> phase, text |-> req.text, prompt |-> req.prompt,
                   matched |-> req.matched, row |-> req.row \o a.slots]
         /\ Len(req.row \o a.slots) = Len(req.row) + n
<1>1. PICK toks : toks = [i \in 1 .. n |-> <<req.text, Len(req.row) + i - 1>>]
  OBVIOUS
<1>2. /\ T \in Victims(n - Cardinality(free)) /\ n <= Cardinality(swaFree \cup SwaOf(Freed(T)))
      /\ idx' = Put(OfHeld(idx, LiveSlots \ Freed(T)), a.slots, toks)
      /\ req' = [req EXCEPT !.row = @ \o a.slots, !.phase = phase]
  BY <1>1, Zenon DEF Extend, Store
<1>3. PICK s, held : s = a.slots /\ held = LiveSlots \ Freed(T)
  OBVIOUS
<1>4. s \in Seq(free \cup Freed(T)) /\ Len(s) = n
  <2>1. a.slots \in Seq(free \cup Freed(T)) /\ Len(a.slots) = n
    BY <1>2, AllocatedIs
  <2>2. QED
    BY <1>3, <2>1
<1>5. PICK k \in Nat, w \in Nat : k = Len(req.row) /\ w = Width /\ k + n <= w /\ req.text \in Texts
  BY ConstantsAre DEF OwnInv, ReqTypes
<1>6. PICK V : V = Tokens \cup {Blank}
  OBVIOUS
<1>7. Fits(s, toks, V)
  <2>1. DOMAIN s = 1 .. n
    BY <1>4
  <2>2. ASSUME NEW i \in 1 .. n
        PROVE  toks[i] \in Tokens
    <3>1. k + i - 1 \in 0 .. (w - 1)
      BY <1>5
    <3>2. toks[i] = <<req.text, k + i - 1>>
      BY <1>1, <1>5
    <3>3. QED
      BY <1>5, <3>1, <3>2 DEF Tokens
  <2>3. QED
    BY <1>6, <2>1, <2>2 DEF Fits
<1>8. PICK tab : tab = OfHeld(idx, held)
  OBVIOUS
<1>9. tab \in [FullSlots -> V]
  BY <1>6, <1>8, OfHeldTypes DEF IndexTypes
<1>10. Put(tab, s, toks) \in [FullSlots -> V]
  BY <1>7, <1>9, PutTypes
<1>11. IndexTypes'
  BY <1>2, <1>3, <1>6, <1>8, <1>10 DEF IndexTypes
<1>12. req' = [phase |-> phase, text |-> req.text, prompt |-> req.prompt,
                   matched |-> req.matched, row |-> req.row \o a.slots]
  BY <1>2 DEF OwnInv, ReqTypes
<1>13. Len(req.row \o a.slots) = Len(req.row) + n
  <2>1. req.row \in Seq(FullSlots)
    BY DEF OwnInv, ReqTypes
  <2>2. PICK A, B, q : A = FullSlots /\ B = free \cup Freed(T) /\ q = req.row
    OBVIOUS
  <2>3. q \in Seq(A \cup B) /\ s \in Seq(A \cup B)
    BY <1>4, <2>1, <2>2
  <2>4. Len(q \o s) = Len(q) + Len(s)
    BY <2>3, ConcatProperties
  <2>5. QED
    BY <1>3, <1>4, <2>2, <2>4
<1>14. QED
  BY <1>11, <1>12, <1>13

LEMMA RestShaped == ASSUME tk' = TkRest PROVE TkShape'
<1>1. tk' = [stage |-> "idle", done |-> {}, pass |-> 1, n |-> 0, prefix |-> 0, rem |-> 0,
             hist |-> [d \in 0 .. (Base - 1) |-> 0],
             cnt |-> [t \in Tiles |-> [gt |-> 0, eq |-> 0]],
             off |-> [t \in Tiles |-> [gt |-> 0, eq |-> 0]],
             sel |-> [i \in 1 .. TopK |-> Stale]]
  BY DEF TkRest
<1>2. QED
  BY <1>1 DEF TkShape

LEMMA ServeInitial == Init => ServeInv
<1>1. SUFFICES ASSUME Init
               PROVE  ServeInv
  OBVIOUS
<1>2. /\ req = [phase |-> "none", text |-> Sink, prompt |-> 0, matched |-> 0, row |-> <<>>] /\ tk = TkRest
      /\ idx = [s \in FullSlots |-> Blank]
  BY <1>1 DEF Init, PoolStart, NoReq
<1>3. OwnInv
  BY <1>1, StartOwned
<1>4. TkShape
  <2>1. tk = [stage |-> "idle", done |-> {}, pass |-> 1, n |-> 0, prefix |-> 0, rem |-> 0,
              hist |-> [d \in 0 .. (Base - 1) |-> 0],
              cnt |-> [t \in Tiles |-> [gt |-> 0, eq |-> 0]],
              off |-> [t \in Tiles |-> [gt |-> 0, eq |-> 0]],
              sel |-> [i \in 1 .. TopK |-> Stale]]
    BY <1>2 DEF TkRest
  <2>2. QED
    BY <2>1 DEF TkShape
<1>5. RowFits
  <2>1. req.prompt = 0 /\ Len(req.row) = 0
    BY <1>2
  <2>2. QED
    BY <2>1, ConstantsAre DEF RowFits
<1>6. IndexTypes
  BY <1>2 DEF IndexTypes
<1>7. QED
  BY <1>2, <1>3, <1>4, <1>5, <1>6 DEF ServeInv

(* A decode pass starts: its scores are floats on every column of the row.   *)
LEMMA StartSelects ==
  ASSUME ServeInv, OwnInv', NEW T \in SUBSET Texts, NEW f \in Scorings, DecodeStart(T, f)
  PROVE  ServeInv'
<1>1. PICK one, ph : one \in Nat /\ one = 1 /\ ph = "topk"
  OBVIOUS
<1>2. PICK a : a = Allocated(one, T)
  OBVIOUS
<1>3. PICK row : row = req.row \o a.slots
  OBVIOUS
<1>4. PICK live : live = RowScores(f, row, idx', scl')
  OBVIOUS
<1>5. PICK sc : sc = [j \in 1 .. Width |-> IF j <= Len(row) THEN live[j] ELSE Unscored]
  OBVIOUS
<1>6. /\ req.phase = "decode" /\ Len(req.row) < Width /\ Extend(one, T, ph, a)
      /\ pass' = [scoring |-> f, scores |-> sc]
      /\ tk' = TkStarted(Len(row))
  BY <1>1, <1>2, <1>3, <1>4, <1>5, Zenon DEF DecodeStart
<1>7. PICK k \in Nat, w \in Nat : k = Len(req.row) /\ w = Width /\ k + 1 <= w
  <2>1. PICK k \in Nat : k = Len(req.row)
    BY DEF ServeInv, OwnInv, ReqTypes
  <2>2. PICK w \in Nat : w = Width
    BY ConstantsAre
  <2>3. k < w
    BY <1>6, <2>1, <2>2
  <2>4. QED
    BY <2>1, <2>2, <2>3
<1>8. /\ IndexTypes'
      /\ req' = [phase |-> ph, text |-> req.text, prompt |-> req.prompt,
                 matched |-> req.matched, row |-> row]
      /\ Len(row) = k + 1
  <2>1. OwnInv /\ IndexTypes /\ req.phase # "none" /\ Len(req.row) + one <= Width
    BY <1>1, <1>6, <1>7 DEF ServeInv
  <2>2. QED
    BY <1>1, <1>2, <1>3, <1>6, <1>7, <2>1, StoreTypes
<1>9. RowFits'
  BY <1>7, <1>8 DEF ServeInv, RowFits
<1>10. row \in Seq(FullSlots) /\ DOMAIN row = 1 .. (k + 1)
  <2>1. req'.row = row
    BY <1>8
  <2>2. row \in Seq(FullSlots)
    BY <2>1 DEF OwnInv, ReqTypes
  <2>3. QED
    BY <1>8, <2>2
<1>11. PICK index, scale : index = idx' /\ scale = scl'
  OBVIOUS
<1>12. ASSUME NEW j \in 1 .. (k + 1)
       PROVE  sc[j] \in Floats
  <2>1. j \in 1 .. Width /\ j <= Len(row)
    BY <1>7, <1>8
  <2>2. sc[j] = live[j]
    BY <1>5, <2>1
  <2>3. row[j] \in FullSlots
    BY <1>10
  <2>4. PICK key : key = IndexKey(index, scale, row[j])
    OBVIOUS
  <2>5. live[j] = Score(f, key)
    BY <1>4, <1>10, <1>11, <2>4 DEF RowScores
  <2>6. key \in Tokens \cup {Blank}
    <3>1. index \in [FullSlots -> Tokens \cup {Blank}]
      BY <1>8, <1>11 DEF IndexTypes
    <3>2. key \in {index[row[j]], Blank}
      BY <2>4 DEF IndexKey
    <3>3. QED
      BY <2>3, <3>1, <3>2
  <2>7. CASE key = Blank
    <3>1. Score(f, key) = [neg |-> FALSE, mag |-> Half - 1]
      BY <2>7 DEF Score
    <3>2. Half - 1 \in 0 .. (Half - 1)
      BY HalfIs
    <3>3. QED
      BY <2>2, <2>5, <3>1, <3>2 DEF Floats
  <2>8. CASE key # Blank
    <3>1. Score(f, key) = f[key[2]]
      BY <2>8 DEF Score
    <3>2. key[2] \in 0 .. (Width - 1)
      BY <2>6, <2>8 DEF Tokens
    <3>3. f \in [0 .. (Width - 1) -> Floats]
      BY ServeAssumption
    <3>4. QED
      BY <2>2, <2>5, <3>1, <3>2, <3>3
  <2>9. QED
    BY <2>7, <2>8
<1>13. PICK n : n = Len(row)
  OBVIOUS
<1>14. KeysOf(sc, n)
  <2>1. n = k + 1 /\ n \in 1 .. Width
    BY <1>7, <1>8, <1>13
  <2>2. QED
    BY <1>12, <2>1 DEF KeysOf
<1>15. TopkInv(sc, row)'
  <2>1. TkShape
    BY DEF ServeInv
  <2>2. QED
    BY <1>6, <1>13, <1>14, <2>1, StartedRight
<1>16. TopkUnderWay'
  <2>1. pass'.scores = sc /\ req'.row = row
    BY <1>6, <1>8
  <2>2. QED
    BY <1>15, <2>1 DEF TopkUnderWay
<1>17. TkShape'
  BY <1>15 DEF TopkInv
<1>18. QED
  BY <1>8, <1>9, <1>16, <1>17 DEF ServeInv

LEMMA ShrinkTypes ==
  ASSUME OwnInv, IndexTypes, NEW T, Shrink(T)
  PROVE  IndexTypes'
<1>1. PICK olds, news, low : \E n \in Nat : Shrunk(T, olds, news, low, n)
  BY ShrinkIs
<1>2. PICK n \in Nat : Shrunk(T, olds, news, low, n)
  BY <1>1
<1>3. PICK K : K = (Held(Texts) \ Held(T)) \cap StepSlots(mapped - 1)
  OBVIOUS
<1>4. /\ UnmapStep(olds, news, Released(swaMap, Held(T)),
                   ((Held(Texts) \ Held(T)) \ StepSlots(mapped - 1)) \cup Range(news))
      /\ olds \in Seq(K) /\ news \in Seq(low) /\ Len(olds) = n /\ Len(news) = n
  BY <1>2, <1>3 DEF Shrunk
<1>5. K \subseteq FullSlots
  <2>1. K \subseteq LiveSlots /\ LiveSlots \subseteq FullSlots
    BY <1>3, LiveFinite DEF LiveSlots
  <2>2. QED
    BY <2>1
<1>6. PICK V : V = Tokens \cup {Blank}
  OBVIOUS
<1>7. PICK toks : toks = Translated(idx, olds)
  OBVIOUS
<1>8. Fits(news, toks, V)
  <2>1. DOMAIN news = 1 .. n /\ DOMAIN olds = 1 .. n
    BY <1>4
  <2>2. ASSUME NEW i \in 1 .. n
        PROVE  toks[i] \in V
    <3>1. olds[i] \in FullSlots
      BY <1>4, <1>5, <2>1
    <3>2. toks[i] = idx[olds[i]]
      BY <1>7, <2>1 DEF Translated
    <3>3. QED
      BY <1>6, <3>1, <3>2 DEF IndexTypes
  <2>3. QED
    BY <2>1, <2>2 DEF Fits
<1>9. PICK tab : tab = idx
  OBVIOUS
<1>10. tab \in [FullSlots -> V]
  BY <1>6, <1>9 DEF IndexTypes
<1>11. Put(tab, news, toks) \in [FullSlots -> V]
  BY <1>8, <1>10, PutTypes
<1>12. PICK moved, s, held : moved = Moved(idx, olds, news) /\ s = mapped - 1
                              /\ held = ((Held(Texts) \ Held(T)) \ StepSlots(mapped - 1)) \cup Range(news)
  OBVIOUS
<1>13. moved \in [FullSlots -> Tokens \cup {Blank}]
  BY <1>6, <1>7, <1>9, <1>11, <1>12 DEF Moved
<1>14. idx' = OfHeld(Erased(moved, s), held)
  BY <1>4, <1>12, Zenon DEF UnmapStep
<1>15. PICK e : e = Erased(moved, s)
  OBVIOUS
<1>16. e \in [FullSlots -> Tokens \cup {Blank}]
  BY <1>13, <1>15, ErasedTypes
<1>17. OfHeld(e, held) \in [FullSlots -> Tokens \cup {Blank}]
  BY <1>16, OfHeldTypes
<1>18. QED
  BY <1>14, <1>15, <1>17 DEF IndexTypes

LEMMA ServeKeeps ==
  ASSUME ServeInv, [Next]_vars
  PROVE  ServeInv'
<1>1. OwnInv' /\ OwnInv /\ IndexTypes /\ RowFits /\ TkShape
  BY StepKeeps DEF ServeInv
<1>2. ASSUME NEW t \in Texts, NEW n \in 1 .. MaxPrompt, NEW m, Arrive(t, n, m)
      PROVE  ServeInv'
  <2>1. /\ idx' = idx /\ tk' = tk
        /\ req' = [phase |-> "prefill", text |-> t, prompt |-> n, matched |-> m,
                   row |-> SubSeq(cache[t], 1, m)]
    BY <1>2 DEF Arrive, poolVars
  <2>2. n \in Nat /\ n <= Width
    BY ServeAssumption, ConstantsAre
  <2>3. req'.phase = "prefill" /\ req'.prompt = n
    BY <2>1
  <2>4. Len(req'.row) \in Nat /\ Len(req'.row) <= n
    BY <1>1, <2>3 DEF OwnInv, ReqTypes
  <2>5. RowFits'
    BY <2>2, <2>3, <2>4, ConstantsAre DEF RowFits
  <2>6. IndexTypes' /\ TkShape'
    BY <1>1, <2>1 DEF IndexTypes, TkShape
  <2>7. QED
    BY <1>1, <2>3, <2>5, <2>6 DEF ServeInv
<1>3. ASSUME NEW T, NEW g, Prefill(T, g)
      PROVE  ServeInv'
  <2>1. PICK n : n = Smaller(MaxChunk, req.prompt - Len(req.row))
    OBVIOUS
  <2>2. PICK a : a = Allocated(n, T)
    OBVIOUS
  <2>3. PICK ph : ph = IF Len(req.row \o a.slots) = req.prompt THEN "decode" ELSE "prefill"
    OBVIOUS
  <2>4. req.phase = "prefill" /\ Extend(n, T, ph, a) /\ tk' = tk
    BY <1>3, <2>1, <2>2, <2>3, Zenon DEF Prefill
  <2>5. n \in Nat /\ Len(req.row) + n <= req.prompt
    BY <1>1, <2>1, <2>4, DecodeRoom
  <2>6. PICK k \in Nat, p \in Nat, w \in Nat : k = Len(req.row) /\ p = req.prompt /\ w = Width /\ p <= w
    BY <1>1, ConstantsAre DEF OwnInv, ReqTypes, RowFits
  <2>7. Len(req.row) + n <= Width /\ req.phase # "none"
    BY <2>4, <2>5, <2>6
  <2>8. /\ IndexTypes'
        /\ req' = [phase |-> ph, text |-> req.text, prompt |-> req.prompt,
                   matched |-> req.matched, row |-> req.row \o a.slots]
        /\ Len(req.row \o a.slots) = Len(req.row) + n
    BY <1>1, <2>2, <2>4, <2>5, <2>7, StoreTypes
  <2>9. RowFits'
    BY <2>6, <2>7, <2>8 DEF RowFits
  <2>10. req'.phase # "topk"
    BY <2>3, <2>8
  <2>11. TkShape'
    BY <1>1, <2>4 DEF TkShape
  <2>12. QED
    BY <1>1, <2>8, <2>9, <2>10, <2>11 DEF ServeInv
<1>4. ASSUME NEW T \in SUBSET Texts, NEW f \in Scorings, DecodeStart(T, f)
      PROVE  ServeInv'
  BY <1>1, <1>4, StartSelects
<1>5. ASSUME DecodeTopk
      PROVE  ServeInv'
  <2>1. /\ req.phase = "topk" /\ TkStep(pass.scores, req.row)
        /\ idx' = idx /\ req' = req /\ pass' = pass
    BY <1>5 DEF DecodeTopk, poolVars
  <2>2. PICK s, q : s = pass.scores /\ q = req.row /\ TopkInv(s, q)
    BY <2>1 DEF ServeInv, TopkUnderWay
  <2>3. TkStep(s, q)
    BY <2>1, <2>2
  <2>4. TopkInv(s, q)'
    BY <2>2, <2>3, TopkKeeps
  <2>5. TopkUnderWay'
    <3>1. pass'.scores = s /\ req'.row = q
      BY <2>1, <2>2
    <3>2. QED
      BY <2>4, <3>1 DEF TopkUnderWay
  <2>6. TkShape'
    BY <2>4 DEF TopkInv
  <2>7. IndexTypes' /\ RowFits'
    BY <1>1, <2>1 DEF IndexTypes, RowFits
  <2>8. QED
    BY <1>1, <2>5, <2>6, <2>7 DEF ServeInv
<1>6. ASSUME DecodeAttend
      PROVE  ServeInv'
  <2>1. req' = [req EXCEPT !.phase = "decode"] /\ tk' = TkRest /\ idx' = idx
    BY <1>6 DEF DecodeAttend, poolVars
  <2>2. req'.phase = "decode" /\ req'.prompt = req.prompt /\ req'.row = req.row
    BY <1>1, <2>1 DEF OwnInv, ReqTypes
  <2>3. TkShape'
    BY <2>1, RestShaped
  <2>4. IndexTypes' /\ RowFits'
    BY <1>1, <2>1, <2>2 DEF IndexTypes, RowFits
  <2>5. QED
    BY <1>1, <2>2, <2>3, <2>4 DEF ServeInv
<1>7. ASSUME NEW J, Finish(J)
      PROVE  ServeInv'
  <2>1. PICK held : idx' = OfHeld(idx, held)
    BY <1>7, Zenon DEF Finish, Release
  <2>2. req' = [phase |-> "none", text |-> Sink, prompt |-> 0, matched |-> 0, row |-> <<>>] /\ tk' = tk
    BY <1>7, Zenon DEF Finish, NoReq
  <2>3. req'.phase = "none" /\ req'.prompt = 0 /\ Len(req'.row) = 0
    BY <2>2
  <2>4. RowFits'
    BY <2>3, ConstantsAre DEF RowFits
  <2>5. IndexTypes'
    BY <1>1, <2>1, OfHeldTypes DEF IndexTypes
  <2>6. TkShape'
    BY <1>1, <2>2 DEF TkShape
  <2>7. QED
    BY <1>1, <2>3, <2>4, <2>5, <2>6 DEF ServeInv
<1>8. ASSUME Grow
      PROVE  ServeInv'
  <2>1. req' = req /\ tk' = tk /\ idx' = Erased(idx, mapped) /\ req.phase # "topk"
    BY <1>8 DEF Grow, MapStep
  <2>2. PICK m : m = mapped
    OBVIOUS
  <2>3. IndexTypes'
    BY <1>1, <2>1, <2>2, ErasedTypes DEF IndexTypes
  <2>4. RowFits' /\ TkShape'
    BY <1>1, <2>1 DEF RowFits, TkShape
  <2>5. QED
    BY <1>1, <2>1, <2>3, <2>4 DEF ServeInv
<1>9. ASSUME NEW T, Shrink(T)
      PROVE  ServeInv'
  <2>1. req' = req /\ tk' = tk /\ req.phase = "none"
    BY <1>9, Zenon DEF Shrink, Idle
  <2>2. IndexTypes'
    BY <1>1, <1>9, ShrinkTypes
  <2>3. RowFits' /\ TkShape'
    BY <1>1, <2>1 DEF RowFits, TkShape
  <2>4. QED
    BY <1>1, <2>1, <2>2, <2>3 DEF ServeInv
<1>10. ASSUME NEW S, FreeWindow(S)
       PROVE  ServeInv'
  <2>1. req' = req /\ tk' = tk /\ idx' = idx /\ req.phase # "topk"
    BY <1>10, Zenon DEF FreeWindow
  <2>2. IndexTypes' /\ RowFits' /\ TkShape'
    BY <1>1, <2>1 DEF IndexTypes, RowFits, TkShape
  <2>3. QED
    BY <1>1, <2>1, <2>2 DEF ServeInv
<1>11. ASSUME vars' = vars
       PROVE  ServeInv'
  <2>1. req' = req /\ tk' = tk /\ idx' = idx /\ pass' = pass
    BY <1>11 DEF vars, poolVars
  <2>2. IndexTypes' /\ RowFits' /\ TkShape'
    BY <1>1, <2>1 DEF IndexTypes, RowFits, TkShape
  <2>3. ASSUME req'.phase = "topk"
        PROVE  TopkUnderWay'
    <3>1. PICK s, q : s = pass.scores /\ q = req.row /\ TopkInv(s, q)
      BY <2>1, <2>3 DEF ServeInv, TopkUnderWay
    <3>2. TopkInv(s, q)'
      BY <2>1, <3>1 DEF TopkInv, TkShape, TkStage, Fast, TkCopied, Copied, TkCut, TkHistRight, TkCntRight,
                        TkOffRight, TkSelRight, Dealt
    <3>3. pass'.scores = s /\ req'.row = q
      BY <2>1, <3>1
    <3>4. QED
      BY <3>2, <3>3 DEF TopkUnderWay
  <2>4. QED
    BY <1>1, <2>2, <2>3 DEF ServeInv
<1>12. ASSUME Next
       PROVE  ServeInv'
  BY <1>2, <1>3, <1>4, <1>5, <1>6, <1>7, <1>8, <1>9, <1>12, <1>10 DEF Next
<1>13. QED
  BY <1>11, <1>12

LEMMA SelectionShown ==
  ASSUME ServeInv
  PROVE  SelectionExact
<1>1. SUFFICES ASSUME req.phase = "topk"
               PROVE  TopkExact(pass.scores, req.row)
  BY DEF SelectionExact
<1>2. PICK s, q : s = pass.scores /\ q = req.row /\ TopkInv(s, q)
  BY <1>1 DEF ServeInv, TopkUnderWay
<1>3. q \in Seq(FullSlots) /\ NoTwice(q) /\ tk.n = Len(q)
  BY <1>2 DEF ServeInv, OwnInv, ReqTypes, RowsApart, TopkInv
<1>4. PICK n : n = tk.n
  OBVIOUS
<1>5. RowApart(q, n)
  <2>1. DOMAIN q = 1 .. n
    BY <1>3, <1>4
  <2>2. PICK A : A = FullSlots
    OBVIOUS
  <2>3. q \in Seq(A) /\ NoSlot \notin A
    BY <1>3, <2>2, ServeAssumption
  <2>4. ASSUME NEW i \in 1 .. n
        PROVE  q[i] # NoSlot /\ \A j \in 1 .. n : i # j => q[i] # q[j]
    <3>1. Len(q) = n
      BY <1>3, <1>4
    <3>2. q[i] \in A
      BY <2>3, <3>1, ElementOfSeq
    <3>3. QED
      BY <1>3, <2>1, <2>3, <3>2 DEF NoTwice
  <2>5. QED
    BY <2>1, <2>4 DEF RowApart
<1>6. TopkExact(s, q)
  BY <1>2, <1>4, <1>5, FinishedExact
<1>7. QED
  BY <1>2, <1>6

(* Whatever the geometry of the launches, the order their programs run in   *)
(* and the stream of requests, the selection a decode pass attends to is the *)
(* exact top-k of its scores (class DsaTopk, naive_attn.py:826).             *)
THEOREM SelectionsExact == Spec => []SelectionExact
<1>1. Init => ServeInv
  BY ServeInitial
<1>2. ServeInv /\ [Next]_vars => ServeInv'
  BY ServeKeeps
<1>3. ServeInv => SelectionExact
  BY SelectionShown
<1>4. QED
  BY <1>1, <1>2, <1>3, PTL DEF Spec

-----------------------------------------------------------------------------
(* What a list of slots yields.                                              *)

LEMMA AtList ==
  ASSUME NEW table, NEW reads, NEW A, NEW m, Lists(reads, A \cup {Sink}, m), Sink \notin A,
         \A r, s \in A : table[r] = table[s] => r = s, \A s \in A : table[s] # Sink
  PROVE  Lists(At(table, reads), Img(table, A) \cup {Sink}, m)
<1>1. m \in Nat /\ DOMAIN reads = 1 .. m /\ \A i \in 1 .. m : reads[i] \in A \cup {Sink}
  <2>1. m \in Nat /\ DOMAIN reads = 1 .. m
    BY ListsAre
  <2>2. QED
    BY <2>1 DEF Lists
<1>2. PICK a : a = At(table, reads)
  OBVIOUS
<1>3. a = [i \in 1 .. m |-> IF reads[i] = Sink THEN Sink ELSE table[reads[i]]]
  BY <1>1, <1>2 DEF At
<1>4. a = [i \in 1 .. m |-> a[i]]
      /\ \A i \in 1 .. m : a[i] = IF reads[i] = Sink THEN Sink ELSE table[reads[i]]
  BY <1>3
<1>5. \A i \in 1 .. m : reads[i] # Sink => reads[i] \in A /\ a[i] = table[reads[i]] /\ a[i] # Sink
  BY <1>1, <1>4
<1>6. \A i \in 1 .. m : reads[i] = Sink => a[i] = Sink
  BY <1>4
<1>7. \A i \in 1 .. m : a[i] \in Img(table, A) \cup {Sink}
  BY <1>5, <1>6 DEF Img
<1>8. ASSUME NEW i \in 1 .. m, NEW j \in 1 .. m, a[i] = a[j]
      PROVE  i = j
  <2>1. reads[i] = reads[j]
    BY <1>5, <1>6, <1>8
  <2>2. QED
    BY <2>1 DEF Lists
<1>9. ASSUME NEW x \in Img(table, A) \cup {Sink}
      PROVE  \E i \in 1 .. m : a[i] = x
  <2>1. CASE x = Sink
    <3>1. PICK i \in 1 .. m : reads[i] = Sink
      BY DEF Lists
    <3>2. QED
      BY <1>6, <2>1, <3>1
  <2>2. CASE x # Sink
    <3>1. PICK s \in A : x = table[s]
      BY <2>2 DEF Img
    <3>2. PICK i \in 1 .. m : reads[i] = s
      BY DEF Lists
    <3>3. QED
      BY <1>5, <3>1, <3>2
  <2>3. QED
    BY <2>1, <2>2
<1>10. QED
  BY <1>1, <1>2, <1>4, <1>7, <1>8, <1>9 DEF Lists

LEMMA OnceIs ==
  ASSUME NEW q, NEW S, NEW n, Lists(q, S, n)
  PROVE  OnceEach(q, S) /\ Range(q) = S
<1>1. n \in Nat /\ Len(q) = n /\ DOMAIN q = 1 .. n /\ Cardinality(S) = n
  BY ListsAre
<1>2. \A x \in Range(q) : x \in S
  BY <1>1 DEF Range, Lists
<1>3. \A x \in S : x \in Range(q)
  BY <1>1 DEF Range, Lists
<1>4. QED
  BY <1>1, <1>2, <1>3 DEF OnceEach

(* The tokens of a text at some places of its row.                          *)
TokensAt(t, P) == {<<t, i - 1>> : i \in P}

LEMMA RowYields ==
  ASSUME NEW table, NEW row, NEW t, NEW P \in SUBSET (DOMAIN row), NEW reads, NEW m,
         Lists(reads, Img(row, P) \cup {Sink}, m), Sink \notin Img(row, P), P \subseteq Int,
         \A i \in P : table[row[i]] = <<t, i - 1>> /\ <<t, i - 1>> # Sink
  PROVE  Lists(At(table, reads), TokensAt(t, P) \cup {Sink}, m)
<1>1. PICK A : A = Img(row, P)
  OBVIOUS
<1>2. \A r, s \in A : table[r] = table[s] => r = s
  <2>1. ASSUME NEW i \in P, NEW j \in P, table[row[i]] = table[row[j]]
        PROVE  row[i] = row[j]
    <3>1. i - 1 = j - 1 /\ i \in Int /\ j \in Int
      BY <2>1
    <3>2. QED
      BY <3>1
  <2>2. QED
    BY <1>1, <2>1 DEF Img
<1>3. \A s \in A : table[s] # Sink
  BY <1>1 DEF Img
<1>4. Lists(At(table, reads), Img(table, A) \cup {Sink}, m)
  BY <1>1, <1>2, <1>3, AtList
<1>5. Img(table, A) = TokensAt(t, P)
  <2>1. \A x : x \in Img(table, A) <=> \E i \in P : x = table[row[i]]
    BY <1>1 DEF Img
  <2>2. \A x : x \in TokensAt(t, P) <=> \E i \in P : x = <<t, i - 1>>
    BY DEF TokensAt
  <2>3. \A x : x \in Img(table, A) <=> x \in TokensAt(t, P)
    <3> TAKE x
    <3>1. ASSUME NEW i \in P
          PROVE  x = table[row[i]] <=> x = <<t, i - 1>>
      <4>1. table[row[i]] = <<t, i - 1>>
        BY <3>1
      <4>2. QED
        BY <4>1
    <3>2. QED
      BY <2>1, <2>2, <3>1, Zenon
  <2>4. QED
    BY <2>3
<1>6. QED
  BY <1>4, <1>5

-----------------------------------------------------------------------------
(* One query: what AttendsVisible says of it.                                *)

WindowSeen(t, pos, reads) ==
  OnceEach(reads, {tok \in {t} \X (0 .. pos) : tok[2] > pos - Window} \cup {Sink})
BestSeen(t, pos, f, reads) ==
  LET visible == {t} \X (0 .. pos)
      taken == Range(reads) \ {Sink}
  IN /\ OnceEach(reads, taken \cup {Sink})
     /\ taken \subseteq visible
     /\ Cardinality(taken) = Smaller(TopK, pos + 1)
     /\ \A in \in taken, out \in visible \ taken : AtLeastFloat(f[in[2]], f[out[2]])
QuerySees(t, q) == WindowSeen(t, q.pos, q.swa) /\ BestSeen(t, q.pos, q.scoring, q.dsa)

LEMMA SeenIs ==
  ASSUME \A i \in DOMAIN seen : QuerySees(req.text, seen[i])
  PROVE  AttendsVisible
BY Zenon DEF AttendsVisible, QuerySees, WindowSeen, BestSeen

LEMMA SeenOf ==
  ASSUME AttendsVisible
  PROVE  \A i \in DOMAIN seen : QuerySees(req.text, seen[i])
BY Zenon DEF AttendsVisible, QuerySees, WindowSeen, BestSeen

LEMMA WindowRight ==
  ASSUME NEW reads, NEW m, NEW t, NEW p \in Nat, Lists(reads, TokensAt(t, Places(p, Window)) \cup {Sink}, m)
  PROVE  WindowSeen(t, p, reads)
<1>1. PICK w \in Nat \ {0} : w = Window
  BY AttnAssumption
<1>2. PICK V : V = {tok \in {t} \X (0 .. p) : tok[2] > p - Window}
  OBVIOUS
<1>3. ASSUME NEW i \in Places(p, Window)
      PROVE  <<t, i - 1>> \in V
  <2>1. i \in 1 .. (p + 1) /\ i + w > p + 1
    BY <1>1 DEF Places
  <2>2. PICK k : k = i - 1
    OBVIOUS
  <2>3. k \in 0 .. p /\ k > p - w
    BY <2>1, <2>2
  <2>4. <<t, k>> \in {t} \X (0 .. p) /\ <<t, k>>[2] = k
    BY <2>3
  <2>5. QED
    BY <1>1, <1>2, <2>2, <2>3, <2>4
<1>4. ASSUME NEW tok \in V
      PROVE  \E i \in Places(p, Window) : tok = <<t, i - 1>>
  <2>1. PICK k \in 0 .. p : tok = <<t, k>> /\ k > p - w
    BY <1>1, <1>2
  <2>2. k + 1 \in 1 .. (p + 1) /\ (k + 1) + w > p + 1 /\ (k + 1) - 1 = k
    BY <2>1
  <2>3. k + 1 \in Places(p, Window)
    BY <1>1, <2>2 DEF Places
  <2>4. QED
    BY <2>1, <2>2, <2>3
<1>5. TokensAt(t, Places(p, Window)) = V
  BY <1>3, <1>4 DEF TokensAt
<1>6. OnceEach(reads, V \cup {Sink})
  BY <1>5, OnceIs
<1>7. QED
  BY <1>2, <1>6 DEF WindowSeen

(* C is a best choice of the columns a query at p sees.                      *)
Best(C, p, f) ==
  /\ C \subseteq 1 .. (p + 1) /\ Cardinality(C) = Smaller(TopK, p + 1)
  /\ \A i \in C, j \in (1 .. (p + 1)) \ C : AtLeastFloat(f[i - 1], f[j - 1])

LEMMA BestRight ==
  ASSUME NEW reads, NEW m, NEW t, NEW p \in Nat, NEW C, NEW f, Best(C, p, f),
         Lists(reads, TokensAt(t, C) \cup {Sink}, m), Sink \notin TokensAt(t, C)
  PROVE  BestSeen(t, p, f, reads)
<1>1. PICK V, K : V = {t} \X (0 .. p) /\ K = TokensAt(t, C)
  OBVIOUS
<1>2. OnceEach(reads, K \cup {Sink}) /\ Range(reads) = K \cup {Sink}
  BY <1>1, OnceIs
<1>3. Range(reads) \ {Sink} = K
  BY <1>1, <1>2
<1>4. C \subseteq 1 .. (p + 1)
  BY DEF Best
<1>5. ASSUME NEW i \in 1 .. (p + 1)
      PROVE  <<t, i - 1>> \in V /\ i - 1 \in Int
  BY <1>1
<1>6. K \subseteq V
  BY <1>1, <1>4, <1>5 DEF TokensAt
<1>7. Cardinality(K) = Smaller(TopK, p + 1)
  <2>1. IsFiniteSet(C)
    <3>1. PICK n \in Nat, N \in {1 .. (p + 1)} : n = p + 1 /\ N = 1 .. n
      OBVIOUS
    <3>2. 1 \in Int /\ n \in Int
      OBVIOUS
    <3>3. IsFiniteSet(1 .. n)
      BY <3>2, FS_Interval
    <3>4. IsFiniteSet(N) /\ C \subseteq N
      BY <1>4, <3>1, <3>3
    <3>5. QED
      BY <3>4, FS_Subset
  <2>2. PICK F : F = [i \in C |-> <<t, i - 1>>]
    OBVIOUS
  <2>3. PICK G : G = [x \in K |-> CHOOSE i \in C : x = <<t, i - 1>>]
    OBVIOUS
  <2>4. \A y \in K : \E i \in C : F[i] = y
    BY <1>1, <2>2 DEF TokensAt
  <2>5. F = [i \in C |-> F[i]] /\ G = [x \in K |-> G[x]]
    BY <2>2, <2>3
  <2>6. IsFiniteSet(K) /\ Cardinality(K) <= Cardinality(C)
    BY <2>1, <2>4, <2>5, ImageSize
  <2>7. ASSUME NEW i \in C
        PROVE  \E x \in K : G[x] = i
    <3>1. PICK x : x = <<t, i - 1>>
      OBVIOUS
    <3>2. x \in K
      BY <1>1, <3>1 DEF TokensAt
    <3>3. ASSUME NEW j \in C, x = <<t, j - 1>>
          PROVE  j = i
      <4>1. j - 1 = i - 1 /\ j \in Int /\ i \in Int
        BY <1>4, <3>1, <3>3
      <4>2. QED
        BY <4>1
    <3>4. G[x] = CHOOSE j \in C : x = <<t, j - 1>>
      BY <2>3, <3>2
    <3>5. G[x] = i
      BY <3>1, <3>3, <3>4
    <3>6. QED
      BY <3>2, <3>5
  <2>8. Cardinality(C) <= Cardinality(K)
    BY <2>5, <2>6, <2>7, ImageSize
  <2>9. Cardinality(C) \in Nat /\ Cardinality(K) \in Nat
    BY <2>1, <2>6, FS_CardinalityType
  <2>10. Cardinality(C) = Smaller(TopK, p + 1)
    BY DEF Best
  <2>11. QED
    BY <2>6, <2>8, <2>9, <2>10
<1>8. ASSUME NEW in \in K, NEW out \in V \ K
      PROVE  AtLeastFloat(f[in[2]], f[out[2]])
  <2>1. PICK i \in C : in = <<t, i - 1>>
    BY <1>1 DEF TokensAt
  <2>2. PICK k \in 0 .. p : out = <<t, k>>
    BY <1>1
  <2>3. PICK j \in 1 .. (p + 1) : j - 1 = k
    <3>1. k + 1 \in 1 .. (p + 1) /\ (k + 1) - 1 = k
      OBVIOUS
    <3>2. QED
      BY <3>1
  <2>4. j \notin C
    BY <1>1, <1>8, <2>2, <2>3 DEF TokensAt
  <2>5. AtLeastFloat(f[i - 1], f[j - 1])
    BY <2>3, <2>4 DEF Best
  <2>6. in[2] = i - 1 /\ out[2] = j - 1
    BY <2>1, <2>2, <2>3
  <2>7. QED
    BY <2>5, <2>6
<1>9. QED
  BY <1>1, <1>2, <1>3, <1>6, <1>7, <1>8, Zenon DEF BestSeen

LEMMA DenseBest ==
  ASSUME NEW p \in Nat, NEW f, p + 1 <= TopK
  PROVE  Best(Places(p, 0), p, f) /\ Places(p, 0) = 1 .. (p + 1)
<1>1. PICK k \in Nat, P \in {1 .. (p + 1)} : k = p + 1 /\ P = 1 .. k
  OBVIOUS
<1>2. Places(p, 0) = P
  BY <1>1 DEF Places
<1>3. Cardinality(P) = k
  <2>1. 1 \in Int /\ k \in Int
    OBVIOUS
  <2>2. Cardinality(1 .. k) = IF 1 > k THEN 0 ELSE k - 1 + 1
    BY <2>1, FS_Interval
  <2>3. QED
    BY <1>1, <2>2
<1>4. Smaller(TopK, p + 1) = p + 1
  <2>1. TopK \in Nat
    BY AttnAssumption
  <2>2. QED
    BY <2>1 DEF Smaller
<1>5. QED
  BY <1>1, <1>2, <1>3, <1>4 DEF Best

LEMMA ChoiceBest ==
  ASSUME NEW n \in Nat, NEW keys, DOMAIN keys = 1 .. n, NEW p \in Nat, p + 1 <= n, NEW f,
         \A i \in 1 .. (p + 1) : keys[i] = f[i - 1],
         NEW S, S \in TopChoices(keys, p, Smaller(TopK, n))
  PROVE  Best(S, p, f)
<1>1. PICK k \in Nat, live \in {Scored(keys, p)} : k = p + 1 /\ live = Scored(keys, p)
  OBVIOUS
<1>2. live = 1 .. k
  BY <1>1 DEF Scored
<1>3. Cardinality(1 .. k) = k
  <2>1. 1 \in Int /\ k \in Int
    OBVIOUS
  <2>2. Cardinality(1 .. k) = IF 1 > k THEN 0 ELSE k - 1 + 1
    BY <2>1, FS_Interval
  <2>3. QED
    BY <2>2
<1>4. /\ S \in SUBSET live /\ Cardinality(S) = Smaller(Smaller(TopK, n), Cardinality(live))
      /\ \A i \in S, j \in live \ S : AtLeastFloat(keys[i], keys[j])
  BY <1>1, Zenon DEF TopChoices
<1>5. Cardinality(S) = Smaller(TopK, p + 1)
  <2>1. TopK \in Nat /\ Cardinality(live) = k
    BY <1>2, <1>3, AttnAssumption
  <2>2. Smaller(Smaller(TopK, n), k) = Smaller(TopK, k)
    BY <1>1, <2>1 DEF Smaller
  <2>3. QED
    BY <1>1, <1>4, <2>1, <2>2
<1>6. ASSUME NEW i \in S, NEW j \in (1 .. (p + 1)) \ S
      PROVE  AtLeastFloat(f[i - 1], f[j - 1])
  <2>1. i \in 1 .. (p + 1) /\ j \in live \ S
    BY <1>1, <1>2, <1>4
  <2>2. keys[i] = f[i - 1] /\ keys[j] = f[j - 1]
    BY <2>1
  <2>3. AtLeastFloat(keys[i], keys[j])
    BY <1>4, <2>1
  <2>4. QED
    BY <2>2, <2>3
<1>7. S \subseteq 1 .. (p + 1)
  BY <1>1, <1>2, <1>4
<1>8. QED
  BY <1>5, <1>6, <1>7 DEF Best

(* A finished selection lists its columns' slots, each once.                 *)
Selects1(sel, row, C) ==
  /\ \A i, j \in 1 .. TopK : sel[i] # NoSlot /\ sel[i] = sel[j] => i = j
  /\ Img(sel, 1 .. TopK) \ {NoSlot} = Img(row, C)

LEMMA DoneSelects ==
  ASSUME NEW sc, NEW row, NEW n \in Nat \ {0}, tk.n = n, tk.stage = "done", TopkExact(sc, row),
         RowApart(row, n), NEW p \in Nat, n = p + 1, NEW f,
         \A i \in 1 .. n : sc[i] = f[i - 1]
  PROVE  \E C : Best(C, p, f) /\ Selects1(tk.sel, row, C)
<1>1. PICK got : got = {q \in 1 .. TopK : tk.sel[q] # NoSlot}
  OBVIOUS
<1>2. PICK C : C = {i \in 1 .. n : \E q \in got : tk.sel[q] = row[i]}
  OBVIOUS
<1>3. /\ Cardinality(got) = Smaller(TopK, n) /\ Cardinality(C) = Cardinality(got)
      /\ \A i \in C, j \in (1 .. n) \ C : AtLeastFloat(sc[i], sc[j])
  <2>1. LET g == {q \in 1 .. TopK : tk.sel[q] # NoSlot}
            cols == {i \in 1 .. tk.n : \E q \in g : tk.sel[q] = row[i]}
        IN /\ Cardinality(g) = Smaller(TopK, tk.n)
           /\ Cardinality(cols) = Cardinality(g)
           /\ \A i \in cols, j \in (1 .. tk.n) \ cols : AtLeastFloat(sc[i], sc[j])
    BY Zenon DEF TopkExact
  <2>2. QED
    BY <1>1, <1>2, <2>1
<1>4. Best(C, p, f)
  <2>1. \A i \in C, j \in (1 .. n) \ C : AtLeastFloat(f[i - 1], f[j - 1])
    BY <1>2, <1>3
  <2>2. C \subseteq 1 .. n
    BY <1>2
  <2>3. QED
    BY <1>3, <2>1, <2>2 DEF Best
<1>5. PICK K, N : K = 1 .. TopK /\ N = 1 .. n
  OBVIOUS
<1>6. IsFiniteSet(K) /\ IsFiniteSet(N)
  <2>1. 1 \in Int /\ n \in Int /\ TopK \in Int
    BY AttnAssumption
  <2>2. IsFiniteSet(1 .. n) /\ IsFiniteSet(1 .. TopK)
    BY <2>1, FS_Interval
  <2>3. QED
    BY <1>5, <2>2
<1>7. IsFiniteSet(got) /\ IsFiniteSet(C)
  <2>1. got \subseteq K /\ C \subseteq N
    BY <1>1, <1>2, <1>5
  <2>2. QED
    BY <1>6, <2>1, FS_Subset
<1>8. PICK F : F = [i \in C |-> CHOOSE q \in got : tk.sel[q] = row[i]]
  OBVIOUS
<1>9. F = [i \in C |-> F[i]] /\ \A i \in C : F[i] \in got /\ tk.sel[F[i]] = row[i] /\ i \in 1 .. n
  BY <1>2, <1>8
<1>10. F \in Injection(C, got)
  <2>1. F \in [C -> got]
    BY <1>9
  <2>2. \A i, j \in C : F[i] = F[j] => i = j
    BY <1>9 DEF RowApart
  <2>3. QED
    BY <2>1, <2>2, Fun_IsInj
<1>11. F \in Surjection(C, got)
  BY <1>3, <1>7, <1>10, FS_Injection
<1>12. \A q \in got : \E i \in C : F[i] = q
  BY <1>11, Fun_SurjectionProperties
<1>13. ASSUME NEW a \in 1 .. TopK, NEW b \in 1 .. TopK, tk.sel[a] # NoSlot, tk.sel[a] = tk.sel[b]
       PROVE  a = b
  <2>1. a \in got /\ b \in got
    BY <1>1, <1>13
  <2>2. PICK i \in C, j \in C : F[i] = a /\ F[j] = b
    BY <1>12, <2>1
  <2>3. row[i] = row[j]
    BY <1>9, <1>13, <2>2
  <2>4. i = j
    BY <1>9, <2>3 DEF RowApart
  <2>5. QED
    BY <2>2, <2>4
<1>14. Img(tk.sel, 1 .. TopK) \ {NoSlot} = Img(row, C)
  <2>1. ASSUME NEW q \in 1 .. TopK, tk.sel[q] # NoSlot
        PROVE  tk.sel[q] \in Img(row, C)
    <3>1. q \in got
      BY <1>1, <2>1
    <3>2. PICK i \in C : F[i] = q
      BY <1>12, <3>1
    <3>3. QED
      BY <1>9, <3>2 DEF Img
  <2>2. ASSUME NEW i \in C
        PROVE  row[i] # NoSlot /\ \E q \in 1 .. TopK : tk.sel[q] = row[i]
    BY <1>1, <1>9 DEF RowApart
  <2>3. QED
    BY <2>1, <2>2 DEF Img
<1>15. QED
  BY <1>4, <1>13, <1>14 DEF Selects1


(* A row in use: its slots hold the text's tokens, and so do the window      *)
(* slots of those that have one.                                             *)
RowReady(row, t, k, w, map) ==
  /\ row \in Seq(FullSlots) /\ NoTwice(row) /\ t \in Texts /\ Len(row) <= Width
  /\ Translated(map, row) \in Seq(SwaSlots)
  /\ \A i, j \in DOMAIN row : map[row[i]] # 0 /\ map[row[i]] = map[row[j]] => i = j
  /\ \A i \in DOMAIN row : /\ k[row[i]] = <<t, i - 1>>
                           /\ map[row[i]] # 0 => w[map[row[i]]] = <<t, i - 1>>

LEMMA RowIs ==
  ASSUME NEW row, NEW t, NEW k, NEW w, NEW map, RowReady(row, t, k, w, map)
  PROVE  /\ DOMAIN row = 1 .. Len(row) /\ Len(row) \in Nat
         /\ Len(Translated(map, row)) = Len(row) /\ DOMAIN Translated(map, row) = DOMAIN row
         /\ \A i \in DOMAIN row : /\ row[i] \in FullSlots /\ row[i] # Sink /\ row[i] # NoSlot
                                  /\ Translated(map, row)[i] = map[row[i]]
                                  /\ map[row[i]] \in SwaSlots
                                  /\ map[row[i]] # Sink /\ map[row[i]] # NoSlot
                                  /\ <<t, i - 1>> # Sink /\ <<t, i - 1>> # Blank
         /\ Sink \notin FullSlots /\ Sink \notin SwaSlots /\ NoSlot \notin FullSlots /\ NoSlot \notin SwaSlots
<1>1. PICK q, A : q = Translated(map, row) /\ A = FullSlots
  OBVIOUS
<1>2. row \in Seq(A) /\ q \in Seq(SwaSlots) /\ Len(row) <= Width /\ t \in Texts
  BY <1>1 DEF RowReady
<1>3. PICK n \in Nat : n = Len(row) /\ DOMAIN row = 1 .. n
  BY <1>2
<1>4. q = [i \in 1 .. n |-> map[row[i]]]
  BY <1>1, <1>3 DEF Translated
<1>5. Len(q) = n /\ DOMAIN q = 1 .. n
  BY <1>2, <1>3, <1>4
<1>6. Sink \notin FullSlots /\ Sink \notin SwaSlots /\ NoSlot \notin FullSlots /\ NoSlot \notin SwaSlots
  BY ServeAssumption
<1>7. ASSUME NEW i \in 1 .. n
      PROVE  row[i] \in FullSlots /\ q[i] = map[row[i]] /\ q[i] \in SwaSlots
  <2>1. row[i] \in A /\ q[i] \in SwaSlots
    BY <1>2, <1>3, <1>5, ElementOfSeq
  <2>2. QED
    BY <1>1, <1>4, <2>1
<1>8. ASSUME NEW i \in 1 .. n
      PROVE  <<t, i - 1>> # Sink /\ <<t, i - 1>> # Blank
  <2>1. i - 1 \in 0 .. (Width - 1)
    BY <1>2, <1>3, ConstantsAre
  <2>2. <<t, i - 1>> \in Texts \X (0 .. (Width - 1))
    BY <1>2, <2>1
  <2>3. QED
    BY <2>2, ServeAssumption
<1>9. QED
  BY <1>1, <1>3, <1>5, <1>6, <1>7, <1>8

(* What the places of a ready row yield.                                     *)
LEMMA FullYields ==
  ASSUME NEW row, NEW t, NEW k, NEW w, NEW map, RowReady(row, t, k, w, map),
         NEW P \in SUBSET (DOMAIN row), NEW reads, NEW m, Lists(reads, Img(row, P) \cup {Sink}, m)
  PROVE  Lists(At(k, reads), TokensAt(t, P) \cup {Sink}, m) /\ Sink \notin TokensAt(t, P)
<1>1. /\ DOMAIN row = 1 .. Len(row) /\ Len(row) \in Nat
      /\ \A i \in DOMAIN row : row[i] # Sink /\ <<t, i - 1>> # Sink
  BY RowIs
<1>2. P \subseteq Int
  BY <1>1
<1>3. Sink \notin Img(row, P)
  BY <1>1 DEF Img
<1>4. \A i \in P : k[row[i]] = <<t, i - 1>> /\ <<t, i - 1>> # Sink
  BY <1>1 DEF RowReady
<1>5. Lists(At(k, reads), TokensAt(t, P) \cup {Sink}, m)
  BY <1>2, <1>3, <1>4, RowYields
<1>6. Sink \notin TokensAt(t, P)
  BY <1>4 DEF TokensAt
<1>7. QED
  BY <1>5, <1>6

LEMMA WindowYields ==
  ASSUME NEW row, NEW t, NEW k, NEW w, NEW map, RowReady(row, t, k, w, map),
         NEW P \in SUBSET (DOMAIN row), \A i \in P : map[row[i]] # 0, NEW reads, NEW m,
         Lists(reads, Img(Translated(map, row), P) \cup {Sink}, m)
  PROVE  Lists(At(w, reads), TokensAt(t, P) \cup {Sink}, m)
<1>1. PICK q : q = Translated(map, row)
  OBVIOUS
<1>2. /\ DOMAIN row = 1 .. Len(row) /\ Len(row) \in Nat /\ DOMAIN q = DOMAIN row
      /\ \A i \in DOMAIN row : q[i] = map[row[i]] /\ q[i] # Sink /\ <<t, i - 1>> # Sink
  BY <1>1, RowIs
<1>3. P \subseteq Int /\ P \in SUBSET (DOMAIN q)
  BY <1>2
<1>4. Sink \notin Img(q, P)
  BY <1>2 DEF Img
<1>5. \A i \in P : w[q[i]] = <<t, i - 1>> /\ <<t, i - 1>> # Sink
  BY <1>2 DEF RowReady
<1>6. Lists(reads, Img(q, P) \cup {Sink}, m)
  BY <1>1
<1>7. QED
  BY <1>3, <1>4, <1>5, <1>6, RowYields

(* A prefill's query, at token tok behind the prefix.                        *)
LEMMA PrefillQuery ==
  ASSUME NEW row, NEW t, NEW k, NEW w, NEW map, RowReady(row, t, k, w, map),
         NEW prefix \in Nat, NEW n \in Nat, NEW tok \in 0 .. (n - 1), Len(row) = prefix + n,
         NEW p \in Nat, p = prefix + tok, \A i \in Places(p, Window) : map[row[i]] # 0,
         NEW f, NEW S, ~ (Len(row) <= TopK) => Best(S, p, f)
  PROVE  /\ WindowSeen(t, p, At(w, ExtendReads(Translated(map, row), prefix, n, tok, Window)))
         /\ BestSeen(t, p, f, At(k, PrefillReads(row, prefix, n, tok, S)))
<1>1. PICK q, N : q = Translated(map, row) /\ N = DOMAIN row
  OBVIOUS
<1>2. /\ N = 1 .. (prefix + n) /\ Len(q) = prefix + n /\ DOMAIN q = N
      /\ Sink \notin FullSlots /\ Sink \notin SwaSlots /\ NoSlot \notin FullSlots
  BY <1>1, RowIs
<1>3. /\ row \in Seq(FullSlots) /\ NoTwice(row) /\ q \in Seq(SwaSlots)
      /\ \A i, j \in N : map[row[i]] # 0 /\ map[row[i]] = map[row[j]] => i = j
  BY <1>1 DEF RowReady
<1>4. Places(p, Window) \in SUBSET N /\ Apart(q, Places(p, Window))
  <2>1. Places(p, Window) \subseteq N
    BY <1>2 DEF Places
  <2>2. \A i \in N : q[i] = map[row[i]]
    BY <1>1, <1>2, RowIs
  <2>3. QED
    BY <1>2, <1>3, <2>1, <2>2 DEF Apart
<1>5. 1 .. (p + 1) \subseteq N
  BY <1>2
<1>6. WindowSeen(t, p, At(w, ExtendReads(q, prefix, n, tok, Window)))
  <2>1. PICK v \in Nat : v = Window
    BY AttnAssumption
  <2>2. PICK m : Lists(ExtendReads(q, prefix, n, tok, v), Img(q, Places(p, v)) \cup {Sink}, m)
    BY <1>2, <1>3, <1>4, <2>1, ExtendReadsList
  <2>3. PICK reads, P : reads = ExtendReads(q, prefix, n, tok, v) /\ P = Places(p, v)
    OBVIOUS
  <2>4. P \in SUBSET (DOMAIN row)
    BY <1>1, <1>5, <2>3 DEF Places
  <2>5. Lists(reads, Img(Translated(map, row), P) \cup {Sink}, m)
    BY <1>1, <2>2, <2>3
  <2>6. Lists(At(w, reads), TokensAt(t, P) \cup {Sink}, m)
    BY <2>1, <2>3, <2>4, <2>5, WindowYields
  <2>7. PICK a : a = At(w, reads)
    OBVIOUS
  <2>8. Lists(a, TokensAt(t, Places(p, Window)) \cup {Sink}, m)
    BY <2>1, <2>3, <2>6, <2>7
  <2>9. WindowSeen(t, p, a)
    BY <2>8, WindowRight
  <2>10. QED
    BY <2>1, <2>3, <2>7, <2>9
<1>7. CASE Len(row) <= TopK
  <2>0. TopK \in Nat
    BY AttnAssumption
  <2>1. p + 1 <= TopK
    BY <1>7, <2>0
  <2>2. Best(Places(p, 0), p, f) /\ Places(p, 0) = 1 .. (p + 1)
    BY <2>1, DenseBest
  <2>3. PICK m : Lists(ExtendReads(row, prefix, n, tok, 0), Img(row, Places(p, 0)) \cup {Sink}, m)
    <3>1. PICK v \in Nat : v = 0
      OBVIOUS
    <3>2. Apart(row, Places(p, v))
      BY <1>1, <1>2, <1>3, <2>2, <3>1 DEF Apart, NoTwice
    <3>3. \E m : Lists(ExtendReads(row, prefix, n, tok, v), Img(row, Places(p, v)) \cup {Sink}, m)
      BY <1>2, <1>3, <3>2, ExtendReadsList
    <3>4. QED
      BY <3>1, <3>3
  <2>4. PICK reads, P : reads = ExtendReads(row, prefix, n, tok, 0) /\ P = Places(p, 0)
    OBVIOUS
  <2>5. P \in SUBSET (DOMAIN row) /\ Lists(reads, Img(row, P) \cup {Sink}, m)
    BY <1>1, <1>5, <2>2, <2>3, <2>4
  <2>6. Lists(At(k, reads), TokensAt(t, P) \cup {Sink}, m) /\ Sink \notin TokensAt(t, P)
    BY <2>5, FullYields
  <2>7. PICK a : a = At(k, reads)
    OBVIOUS
  <2>8. BestSeen(t, p, f, a)
    BY <2>2, <2>4, <2>6, <2>7, BestRight
  <2>9. PrefillReads(row, prefix, n, tok, S) = reads
    BY <1>7, <2>4 DEF PrefillReads
  <2>10. QED
    BY <1>1, <1>6, <2>7, <2>8, <2>9
<1>8. CASE ~ (Len(row) <= TopK)
  <2>1. Best(S, p, f)
    BY <1>8
  <2>2. S \in SUBSET (DOMAIN row) /\ Cardinality(S) <= TopK
    <3>1. Smaller(TopK, p + 1) <= TopK
      <4>1. TopK \in Nat
        BY AttnAssumption
      <4>2. QED
        BY <4>1 DEF Smaller
    <3>2. QED
      BY <1>1, <1>5, <2>1, <3>1 DEF Best
  <2>3. PICK m : Lists(SparseReads(Selection(row, S)), Img(row, S) \cup {Sink}, m)
    BY <1>2, <1>3, <2>2, SparseList
  <2>4. PICK reads : reads = SparseReads(Selection(row, S))
    OBVIOUS
  <2>5. Lists(reads, Img(row, S) \cup {Sink}, m)
    BY <2>3, <2>4
  <2>6. Lists(At(k, reads), TokensAt(t, S) \cup {Sink}, m) /\ Sink \notin TokensAt(t, S)
    BY <2>2, <2>5, FullYields
  <2>7. PICK a : a = At(k, reads)
    OBVIOUS
  <2>8. BestSeen(t, p, f, a)
    BY <2>1, <2>6, <2>7, BestRight
  <2>9. PrefillReads(row, prefix, n, tok, S) = reads
    BY <1>8, <2>4 DEF PrefillReads
  <2>10. QED
    BY <1>1, <1>6, <2>7, <2>8, <2>9
<1>9. QED
  BY <1>7, <1>8

LEMMA TupleIs ==
  ASSUME NEW n \in Nat, NEW S, NEW q, q = [i \in 1 .. n |-> q[i]], \A i \in 1 .. n : q[i] \in S
  PROVE  q \in Seq(S) /\ Len(q) = n
<1>1. q \in [1 .. n -> S]
  OBVIOUS
<1>2. QED
  BY <1>1

(* A decode's query, the row's last, with the selection of its columns C.    *)
LEMMA DecodeQuery ==
  ASSUME NEW row, NEW t, NEW k, NEW w, NEW map, RowReady(row, t, k, w, map),
         NEW p \in Nat, Len(row) = p + 1, \A i \in Places(p, Window) : map[row[i]] # 0, NEW f, NEW C, Best(C, p, f),
         NEW sel, sel = [i \in 1 .. TopK |-> sel[i]], Selects1(sel, row, C)
  PROVE  /\ WindowSeen(t, p, At(w, DecodeReads(WindowList(Translated(map, row), p), BlockN \div 2)))
         /\ BestSeen(t, p, f, At(k, DecodeReads(sel, BlockN)))
<1>1. PICK q, N : q = Translated(map, row) /\ N = DOMAIN row
  OBVIOUS
<1>2. /\ N = 1 .. (p + 1) /\ Len(q) = p + 1 /\ DOMAIN q = N
      /\ Sink \notin FullSlots /\ Sink \notin SwaSlots /\ NoSlot \notin FullSlots /\ NoSlot \notin SwaSlots
  BY <1>1, RowIs
<1>3. /\ row \in Seq(FullSlots) /\ NoTwice(row) /\ q \in Seq(SwaSlots)
      /\ \A i, j \in N : map[row[i]] # 0 /\ map[row[i]] = map[row[j]] => i = j
  BY <1>1 DEF RowReady
<1>4. Places(p, Window) \in SUBSET N /\ Apart(q, Places(p, Window))
  <2>1. Places(p, Window) \subseteq N
    BY <1>2 DEF Places
  <2>2. \A i \in N : q[i] = map[row[i]]
    BY <1>1, <1>2, RowIs
  <2>3. QED
    BY <1>2, <1>3, <2>1, <2>2 DEF Apart
<1>5. PICK tile \in Nat \ {0}, half \in Nat \ {0} : tile = BlockN /\ half = BlockN \div 2
  <2>1. PICK tile \in Nat \ {0} : tile = BlockN /\ tile % 2 = 0
    BY AttnAssumption
  <2>2. tile \div 2 \in Nat \ {0}
    BY <2>1
  <2>3. QED
    BY <2>1, <2>2
<1>6. WindowSeen(t, p, At(w, DecodeReads(WindowList(q, p), half)))
  <2>1. PICK wl : wl = WindowList(q, p)
    OBVIOUS
  <2>2. PICK n \in Nat \ {0} : /\ wl \in Seq(SwaSlots) /\ Len(wl) = n /\ NoTwice(wl)
                               /\ Img(wl, 1 .. n) = Img(q, Places(p, Window))
    BY <1>2, <1>3, <1>4, <2>1, WindowIs
  <2>3. DOMAIN wl = 1 .. n /\ \A i \in 1 .. n : wl[i] \in SwaSlots
    BY <2>2
  <2>4. PICK A : A = Img(wl, 1 .. n) \ {NoSlot}
    OBVIOUS
  <2>5. A = Img(q, Places(p, Window)) /\ Sink \notin A
    BY <1>2, <2>2, <2>3, <2>4 DEF Img
  <2>6. \A i, j \in 1 .. n : wl[i] # NoSlot /\ wl[i] = wl[j] => i = j
    BY <2>2, <2>3 DEF NoTwice
  <2>7. PICK m : Lists(DecodeReads(wl, half), A \cup {Sink}, m)
    BY <2>2, <2>4, <2>5, <2>6, DecodeReadsList
  <2>8. PICK reads, P : reads = DecodeReads(wl, half) /\ P = Places(p, Window)
    OBVIOUS
  <2>9. P \in SUBSET (DOMAIN row) /\ Lists(reads, Img(Translated(map, row), P) \cup {Sink}, m)
    BY <1>1, <1>2, <2>5, <2>7, <2>8 DEF Places
  <2>10. Lists(At(w, reads), TokensAt(t, P) \cup {Sink}, m)
    BY <2>8, <2>9, WindowYields
  <2>11. PICK a : a = At(w, reads)
    OBVIOUS
  <2>12. WindowSeen(t, p, a)
    BY <2>8, <2>10, <2>11, WindowRight
  <2>13. QED
    BY <2>1, <2>8, <2>11, <2>12
<1>7. BestSeen(t, p, f, At(k, DecodeReads(sel, tile)))
  <2>1. PICK T \in Nat \ {0} : T = TopK
    BY AttnAssumption
  <2>2. PICK S : S = {sel[i] : i \in 1 .. T}
    OBVIOUS
  <2>3. sel \in Seq(S) /\ Len(sel) = T
    <3>1. T \in Nat /\ sel = [i \in 1 .. T |-> sel[i]] /\ \A i \in 1 .. T : sel[i] \in S
      BY <2>1, <2>2
    <3>2. QED
      BY <3>1, TupleIs
  <2>4. PICK A : A = Img(sel, 1 .. T) \ {NoSlot}
    OBVIOUS
  <2>5. A = Img(row, C) /\ C \in SUBSET N
    BY <1>2, <2>1, <2>4 DEF Selects1, Best
  <2>6. Sink \notin A
    BY <1>1, <2>5, RowIs DEF Img
  <2>7. \A i, j \in 1 .. T : sel[i] # NoSlot /\ sel[i] = sel[j] => i = j
    BY <2>1 DEF Selects1
  <2>8. PICK m : Lists(DecodeReads(sel, tile), A \cup {Sink}, m)
    BY <2>3, <2>4, <2>6, <2>7, DecodeReadsList
  <2>9. PICK reads : reads = DecodeReads(sel, tile)
    OBVIOUS
  <2>10. C \in SUBSET (DOMAIN row) /\ Lists(reads, Img(row, C) \cup {Sink}, m)
    BY <1>1, <2>5, <2>8, <2>9
  <2>11. Lists(At(k, reads), TokensAt(t, C) \cup {Sink}, m) /\ Sink \notin TokensAt(t, C)
    BY <2>10, FullYields
  <2>12. PICK a : a = At(k, reads)
    OBVIOUS
  <2>13. BestSeen(t, p, f, a)
    BY <2>11, <2>12, BestRight
  <2>14. QED
    BY <2>9, <2>12, <2>13
<1>8. QED
  BY <1>1, <1>5, <1>6, <1>7


-----------------------------------------------------------------------------
(* What the slots somebody holds contain: the tokens of their row.           *)

Has(k, x, c, w, map, s, tok) ==
  k[s] = tok /\ x[s] = tok /\ c[s] = tok /\ (map[s] # 0 => w[map[s]] = tok)
RowHolds(k, x, c, w, map, q, t) == \A i \in DOMAIN q : Has(k, x, c, w, map, q[i], <<t, i - 1>>)

TableTypes == DOMAIN kv = FullSlots /\ DOMAIN idx = FullSlots /\ DOMAIN scl = FullSlots /\ DOMAIN swa = SwaSlots
ContentInv ==
  /\ TableTypes
  /\ \A t \in Texts : RowHolds(kv, idx, scl, swa, swaMap, cache[t], t)
  /\ RowHolds(kv, idx, scl, swa, swaMap, req.row, req.text)

LEMMA ReadyFrom ==
  ASSUME NEW row \in Seq(FullSlots), NoTwice(row), NEW t \in Texts, Len(row) <= Width,
         NEW L, NEW f, NEW sf, NEW map, NEW B, Owned(L, f, sf, map, B), Range(row) \subseteq L,
         NEW k, NEW x, NEW c, NEW w, RowHolds(k, x, c, w, map, row, t)
  PROVE  RowReady(row, t, k, w, map)
<1>0. PICK q, A : q = Translated(map, row) /\ A = FullSlots
  OBVIOUS
<1>1. PICK n \in Nat : q = Translated(map, row) /\ A = FullSlots /\ n = Len(row)
  BY <1>0
<1>2. DOMAIN row = 1 .. n /\ row \in Seq(A)
  BY <1>1
<1>3. \A i \in 1 .. n : row[i] \in A /\ row[i] \in L
  <2>1. \A i \in 1 .. n : row[i] \in A
    BY <1>1, <1>2, ElementOfSeq
  <2>2. \A i \in 1 .. n : row[i] \in Range(row)
    BY <1>2 DEF Range
  <2>3. QED
    BY <2>1, <2>2
<1>4. q = [i \in 1 .. n |-> map[row[i]]]
  BY <1>1, <1>2 DEF Translated
<1>5. q = [i \in 1 .. n |-> q[i]] /\ \A i \in 1 .. n : q[i] = map[row[i]] /\ q[i] \in SwaSlots
  BY <1>1, <1>3, <1>4 DEF Owned
<1>6. q \in Seq(SwaSlots) /\ Len(q) = n
  BY <1>5, TupleIs
<1>7. \A i, j \in DOMAIN row : map[row[i]] # 0 /\ map[row[i]] = map[row[j]] => i = j
  <2>1. ASSUME NEW i \in 1 .. n, NEW j \in 1 .. n, map[row[i]] # 0, map[row[i]] = map[row[j]]
        PROVE  i = j
    <3>1. row[i] = row[j]
      BY <1>3, <2>1 DEF Owned
    <3>2. QED
      BY <1>2, <3>1 DEF NoTwice
  <2>2. QED
    BY <1>2, <2>1
<1>8. \A i \in DOMAIN row : k[row[i]] = <<t, i - 1>> /\ (map[row[i]] # 0 => w[map[row[i]]] = <<t, i - 1>>)
  BY DEF RowHolds, Has
<1>9. QED
  BY <1>1, <1>6, <1>7, <1>8 DEF RowReady

LEMMA HeldTable ==
  ASSUME NEW table, NEW held, NEW h, h = OfHeld(table, held)
  PROVE  DOMAIN h = FullSlots /\ \A s \in FullSlots : s \in held => h[s] = table[s]
BY DEF OfHeld

LEMMA HeldWindow ==
  ASSUME NEW map, NEW h, h = OfHeldSwa(map)
  PROVE  DOMAIN h = SwaSlots /\ \A s \in FullSlots : map[s] \in SwaSlots => h[map[s]] = swa[map[s]]
<1>1. h = [v \in SwaSlots |-> IF \E s \in FullSlots : map[s] = v THEN swa[v] ELSE Blank]
  BY DEF OfHeldSwa
<1>2. QED
  BY <1>1

LEMMA PutHeld ==
  ASSUME NEW table, DOMAIN table = FullSlots, NEW slots \in Seq(FullSlots), NoTwice(slots), NEW toks,
         NEW P, P = Put(table, slots, toks)
  PROVE  /\ DOMAIN P = FullSlots
         /\ \A s \in FullSlots : s \notin Range(slots) => P[s] = table[s]
         /\ \A i \in DOMAIN slots : P[slots[i]] = toks[i]
<1>1. Puts(P, table, slots, toks)
  BY PutIs
<1>2. PICK A : A = FullSlots
  OBVIOUS
<1>3. PICK n \in Nat : A = FullSlots /\ n = Len(slots) /\ DOMAIN slots = 1 .. n
  BY <1>2
<1>4. \A i \in DOMAIN slots : slots[i] \in FullSlots /\ slots[i] \in Range(slots)
  <2>1. slots \in Seq(A)
    BY <1>3
  <2>2. \A i \in 1 .. n : slots[i] \in A
    BY <1>3, <2>1, ElementOfSeq
  <2>3. QED
    BY <1>3, <2>2 DEF Range
<1>5. P = [s \in FullSlots |-> P[s]]
  BY <1>1 DEF Puts
<1>6. \A s \in FullSlots : s \notin Range(slots) => P[s] = table[s]
  <2>1. ASSUME NEW s \in FullSlots, s \notin Range(slots)
        PROVE  P[s] = table[s]
    <3>1. \A i \in DOMAIN slots : slots[i] # s
      BY <2>1 DEF Range
    <3>2. QED
      BY <1>1, <3>1 DEF Puts
  <2>2. QED
    BY <2>1
<1>7. QED
  BY <1>1, <1>4, <1>5, <1>6 DEF Puts

(* Released slots go blank, the others keep what they hold.                  *)
LEMMA ReleaseHas ==
  ASSUME NEW map, NEW held, Release(map, held)
  PROVE  /\ TableTypes'
         /\ \A s \in FullSlots \cap held : \A tok :
              map[s] \in {0, swaMap[s]} /\ map[s] \in SwaSlots /\ Has(kv, idx, scl, swa, swaMap, s, tok)
              => Has(kv', idx', scl', swa', swaMap', s, tok)
<1>1. PICK k, x, c, w : k = OfHeld(kv, held) /\ x = OfHeld(idx, held) /\ c = OfHeld(scl, held) /\ w = OfHeldSwa(map)
  OBVIOUS
<1>2. kv' = k /\ idx' = x /\ scl' = c /\ swa' = w /\ swaMap' = map
  BY <1>1 DEF Release
<1>3. /\ DOMAIN k = FullSlots /\ DOMAIN x = FullSlots /\ DOMAIN c = FullSlots /\ DOMAIN w = SwaSlots
      /\ \A s \in FullSlots : s \in held => k[s] = kv[s] /\ x[s] = idx[s] /\ c[s] = scl[s]
      /\ \A s \in FullSlots : map[s] \in SwaSlots => w[map[s]] = swa[map[s]]
  <2>1. DOMAIN k = FullSlots /\ \A s \in FullSlots : s \in held => k[s] = kv[s]
    <3>1. PICK tab : tab = kv
      OBVIOUS
    <3>2. k = OfHeld(tab, held)
      BY <1>1, <3>1
    <3>3. DOMAIN k = FullSlots /\ \A s \in FullSlots : s \in held => k[s] = tab[s]
      BY <3>2, HeldTable
    <3>4. QED
      BY <3>1, <3>3
  <2>2. DOMAIN x = FullSlots /\ \A s \in FullSlots : s \in held => x[s] = idx[s]
    <3>1. PICK tab : tab = idx
      OBVIOUS
    <3>2. x = OfHeld(tab, held)
      BY <1>1, <3>1
    <3>3. DOMAIN x = FullSlots /\ \A s \in FullSlots : s \in held => x[s] = tab[s]
      BY <3>2, HeldTable
    <3>4. QED
      BY <3>1, <3>3
  <2>3. DOMAIN c = FullSlots /\ \A s \in FullSlots : s \in held => c[s] = scl[s]
    <3>1. PICK tab : tab = scl
      OBVIOUS
    <3>2. c = OfHeld(tab, held)
      BY <1>1, <3>1
    <3>3. DOMAIN c = FullSlots /\ \A s \in FullSlots : s \in held => c[s] = tab[s]
      BY <3>2, HeldTable
    <3>4. QED
      BY <3>1, <3>3
  <2>4. DOMAIN w = SwaSlots /\ \A s \in FullSlots : map[s] \in SwaSlots => w[map[s]] = swa[map[s]]
    BY <1>1, HeldWindow
  <2>5. QED
    BY <2>1, <2>2, <2>3, <2>4
<1>4. TableTypes'
  BY <1>2, <1>3 DEF TableTypes
<1>5. ASSUME NEW s \in FullSlots \cap held, NEW tok, map[s] \in {0, swaMap[s]}, map[s] \in SwaSlots,
             Has(kv, idx, scl, swa, swaMap, s, tok)
      PROVE  Has(kv', idx', scl', swa', swaMap', s, tok)
  BY <1>2, <1>3, <1>5 DEF Has
<1>6. QED
  BY <1>4, <1>5

(* Stored tokens are behind their slots, the others keep what they hold.     *)
LEMMA StoreHas ==
  ASSUME NEW slots \in Seq(FullSlots), NoTwice(slots), NEW toks, NEW map, NEW L, NEW held \in SUBSET L,
         Store(slots, toks, map, held), NEW f, NEW sf, NEW B, Owned(L, f, sf, map, B),
         Range(slots) \subseteq L, Mapped(map, Range(slots))
  PROVE  /\ TableTypes'
         /\ \A i \in DOMAIN slots : Has(kv', idx', scl', swa', swaMap', slots[i], toks[i])
         /\ \A s \in held \ Range(slots) : \A tok :
              map[s] = swaMap[s] /\ Has(kv, idx, scl, swa, swaMap, s, tok)
              => Has(kv', idx', scl', swa', swaMap', s, tok)
<1>1. PICK k, x, c, w : k = OfHeld(kv, held) /\ x = OfHeld(idx, held) /\ c = OfHeld(scl, held) /\ w = OfHeldSwa(map)
  OBVIOUS
<1>2. PICK wslots : wslots = Translated(map, slots)
  OBVIOUS
<1>3. PICK k2, x2, c2, w2 : /\ k2 = Put(k, slots, toks) /\ x2 = Put(x, slots, toks) /\ c2 = Put(c, slots, toks)
                            /\ w2 = Put(w, wslots, toks)
  OBVIOUS
<1>4. kv' = k2 /\ idx' = x2 /\ scl' = c2 /\ swa' = w2 /\ swaMap' = map
  BY <1>1, <1>2, <1>3 DEF Store
<1>5. L \subseteq FullSlots /\ \A s \in FullSlots : map[s] \in SwaSlots
  BY DEF Owned
<1>6. /\ DOMAIN k = FullSlots /\ DOMAIN x = FullSlots /\ DOMAIN c = FullSlots /\ DOMAIN w = SwaSlots
      /\ \A s \in held : k[s] = kv[s] /\ x[s] = idx[s] /\ c[s] = scl[s] /\ w[map[s]] = swa[map[s]]
  <2>1. DOMAIN k = FullSlots /\ \A s \in FullSlots : s \in held => k[s] = kv[s]
    <3>1. PICK tab : tab = kv
      OBVIOUS
    <3>2. k = OfHeld(tab, held)
      BY <1>1, <3>1
    <3>3. DOMAIN k = FullSlots /\ \A s \in FullSlots : s \in held => k[s] = tab[s]
      BY <3>2, HeldTable
    <3>4. QED
      BY <3>1, <3>3
  <2>2. DOMAIN x = FullSlots /\ \A s \in FullSlots : s \in held => x[s] = idx[s]
    <3>1. PICK tab : tab = idx
      OBVIOUS
    <3>2. x = OfHeld(tab, held)
      BY <1>1, <3>1
    <3>3. DOMAIN x = FullSlots /\ \A s \in FullSlots : s \in held => x[s] = tab[s]
      BY <3>2, HeldTable
    <3>4. QED
      BY <3>1, <3>3
  <2>3. DOMAIN c = FullSlots /\ \A s \in FullSlots : s \in held => c[s] = scl[s]
    <3>1. PICK tab : tab = scl
      OBVIOUS
    <3>2. c = OfHeld(tab, held)
      BY <1>1, <3>1
    <3>3. DOMAIN c = FullSlots /\ \A s \in FullSlots : s \in held => c[s] = tab[s]
      BY <3>2, HeldTable
    <3>4. QED
      BY <3>1, <3>3
  <2>4. DOMAIN w = SwaSlots /\ \A s \in FullSlots : map[s] \in SwaSlots => w[map[s]] = swa[map[s]]
    BY <1>1, HeldWindow
  <2>5. QED
    BY <1>5, <2>1, <2>2, <2>3, <2>4
<1>7. PICK n \in Nat, A \in {FullSlots} : n = Len(slots) /\ DOMAIN slots = 1 .. n /\ A = FullSlots
  BY SMT
<1>8. \A i \in 1 .. n : slots[i] \in FullSlots /\ slots[i] \in Range(slots) /\ slots[i] \in L
  <2>1. slots \in Seq(A)
    BY <1>7
  <2>2. \A i \in 1 .. n : slots[i] \in A
    BY <1>7, <2>1, ElementOfSeq
  <2>3. \A i \in 1 .. n : slots[i] \in Range(slots)
    BY <1>7 DEF Range
  <2>4. QED
    BY <1>7, <2>2, <2>3
<1>9. wslots = [i \in 1 .. n |-> map[slots[i]]]
  BY <1>2, <1>7 DEF Translated
<1>10. wslots = [i \in 1 .. n |-> wslots[i]]
       /\ \A i \in 1 .. n : wslots[i] = map[slots[i]] /\ wslots[i] \in SwaSlots /\ wslots[i] # 0
  BY <1>5, <1>8, <1>9 DEF Mapped
<1>11. NoTwice(wslots)
  <2>1. ASSUME NEW i \in 1 .. n, NEW j \in 1 .. n, wslots[i] = wslots[j]
        PROVE  i = j
    <3>1. slots[i] = slots[j]
      BY <1>8, <1>10, <2>1 DEF Owned
    <3>2. QED
      BY <1>7, <3>1 DEF NoTwice
  <2>2. QED
    BY <1>9, <2>1 DEF NoTwice
<1>12. /\ DOMAIN k2 = FullSlots
       /\ \A s \in FullSlots : s \notin Range(slots) => k2[s] = k[s]
       /\ \A i \in DOMAIN slots : k2[slots[i]] = toks[i]
  BY <1>3, <1>6, PutHeld
<1>13. /\ DOMAIN x2 = FullSlots
       /\ \A s \in FullSlots : s \notin Range(slots) => x2[s] = x[s]
       /\ \A i \in DOMAIN slots : x2[slots[i]] = toks[i]
  BY <1>3, <1>6, PutHeld
<1>14. /\ DOMAIN c2 = FullSlots
       /\ \A s \in FullSlots : s \notin Range(slots) => c2[s] = c[s]
       /\ \A i \in DOMAIN slots : c2[slots[i]] = toks[i]
  BY <1>3, <1>6, PutHeld
<1>15. /\ DOMAIN w2 = SwaSlots
       /\ \A s \in held \ Range(slots) : map[s] # 0 => w2[map[s]] = w[map[s]]
       /\ \A i \in DOMAIN slots : w2[map[slots[i]]] = toks[i]
  <2>1. Puts(w2, w, wslots, toks)
    BY <1>3, <1>11, PutIs
  <2>2. w2 = [v \in SwaSlots |-> w2[v]]
    BY <1>6, <2>1 DEF Puts
  <2>3. ASSUME NEW s \in held \ Range(slots), map[s] # 0
        PROVE  w2[map[s]] = w[map[s]]
    <3>1. ASSUME NEW i \in DOMAIN wslots
          PROVE  wslots[i] # map[s]
      <4>1. i \in 1 .. n
        BY <1>9
      <4>2. slots[i] # s /\ slots[i] \in L /\ s \in L
        BY <1>8, <4>1
      <4>3. QED
        BY <1>10, <2>3, <4>1, <4>2 DEF Owned
    <3>2. map[s] \in DOMAIN w
      BY <1>5, <1>6
    <3>3. QED
      BY <2>1, <3>1, <3>2 DEF Puts
  <2>4. ASSUME NEW i \in 1 .. n
        PROVE  w2[map[slots[i]]] = toks[i]
    <3>1. i \in DOMAIN wslots /\ wslots[i] \in DOMAIN w /\ wslots[i] = map[slots[i]]
      BY <1>6, <1>9, <1>10
    <3>2. QED
      BY <2>1, <3>1 DEF Puts
  <2>5. QED
    BY <1>7, <2>2, <2>3, <2>4
<1>16. TableTypes'
  BY <1>4, <1>12, <1>13, <1>14, <1>15 DEF TableTypes
<1>17. ASSUME NEW i \in DOMAIN slots
       PROVE  Has(kv', idx', scl', swa', swaMap', slots[i], toks[i])
  BY <1>4, <1>12, <1>13, <1>14, <1>15 DEF Has
<1>18. ASSUME NEW s \in held \ Range(slots), NEW tok, map[s] = swaMap[s],
              Has(kv, idx, scl, swa, swaMap, s, tok)
       PROVE  Has(kv', idx', scl', swa', swaMap', s, tok)
  <2>1. s \in FullSlots /\ s \notin Range(slots)
    BY <1>5
  <2>2. k2[s] = kv[s] /\ x2[s] = idx[s] /\ c2[s] = scl[s] /\ (map[s] # 0 => w2[map[s]] = swa[map[s]])
    BY <1>6, <1>12, <1>13, <1>14, <1>15, <2>1
  <2>3. QED
    BY <1>4, <1>18, <2>2 DEF Has
<1>19. QED
  BY <1>16, <1>17, <1>18


(* The places of a row after k have window slots.                            *)
Sighted(map, row, k) == \A i \in DOMAIN row : i > k => map[row[i]] # 0

LEMMA ExtendHolds ==
  ASSUME OwnInv, ContentInv, NEW n \in Nat, NEW T, NEW phase, NEW a,
         a = Allocated(n, T), Extend(n, T, phase, a), req.phase \in {"prefill", "decode"}
  PROVE  /\ ContentInv'
         /\ req' = [phase |-> phase, text |-> req.text, prompt |-> req.prompt,
                    matched |-> req.matched, row |-> req.row \o a.slots]
         /\ swaMap' = a.map /\ Len(req.row \o a.slots) = Len(req.row) + n
         /\ Sighted(a.map, req.row \o a.slots, Len(req.row) - (Window - 1))
<1>1. PICK toks : toks = [i \in 1 .. n |-> <<req.text, Len(req.row) + i - 1>>]
  OBVIOUS
<1>2. /\ T \in Victims(n - Cardinality(free)) /\ n <= Cardinality(swaFree \cup SwaOf(Freed(T)))
      /\ Store(a.slots, toks, a.map, LiveSlots \ Freed(T))
      /\ cache' = Remaining(T)
      /\ req' = [req EXCEPT !.row = @ \o a.slots, !.phase = phase]
  BY <1>1, Zenon DEF Extend
<1>3. PICK s, map, H : s = a.slots /\ map = a.map /\ H = Freed(T)
  OBVIOUS
<1>4. PICK L, B : L = (LiveSlots \ H) \cup Range(s) /\ B = Backed(mapped)
  OBVIOUS
<1>5. /\ T \in SUBSET Evictable /\ s \in Seq(free \cup H) /\ Len(s) = n /\ NoTwice(s)
      /\ Owned(L, a.free, a.swaFree, map, B)
      /\ Mapped(map, Range(s)) /\ Same(map, swaMap, LiveSlots \ H)
  <2>1. /\ T \in SUBSET Evictable
        /\ a.slots \in Seq(free \cup Freed(T)) /\ Len(a.slots) = n /\ NoTwice(a.slots)
        /\ Owned((LiveSlots \ Freed(T)) \cup Range(a.slots), a.free, a.swaFree, a.map, Backed(mapped))
        /\ Mapped(a.map, Range(a.slots)) /\ Same(a.map, swaMap, LiveSlots \ Freed(T))
    BY <1>2, AllocatedIs
  <2>2. QED
    BY <1>3, <1>4, <2>1
<1>6. PICK c : c = Remaining(T)
  OBVIOUS
<1>7. /\ H \in SUBSET LiveSlots /\ H \cap Range(req.row) = {} /\ Range(req.row) \subseteq LiveSlots
      /\ \A t \in Texts : \A j \in DOMAIN c[t] :
           j \in DOMAIN cache[t] /\ c[t][j] = cache[t][j] /\ cache[t][j] \notin H
  <2>1. Range(req.row) \subseteq LiveSlots
    BY DEF LiveSlots
  <2>2. QED
    BY <1>3, <1>5, <1>6, <2>1, EvictedIs
<1>8. B \subseteq FullSlots /\ LiveSlots \subseteq B /\ free \subseteq B /\ LiveSlots \cap free = {}
  BY <1>4, LiveFinite
<1>9. DOMAIN s = 1 .. n /\ \A i \in 1 .. n : s[i] \in free \cup H
  BY <1>5
<1>10. Range(s) \subseteq free \cup H /\ s \in Seq(FullSlots)
  <2>1. free \cup H \subseteq FullSlots
    BY <1>7, <1>8
  <2>2. s \in Seq(FullSlots)
    BY <1>5, <2>1
  <2>3. QED
    BY <1>9, <2>2 DEF Range
<1>11. Store(s, toks, map, LiveSlots \ H)
  BY <1>2, <1>3
<1>12. /\ TableTypes'
       /\ \A i \in DOMAIN s : Has(kv', idx', scl', swa', swaMap', s[i], toks[i])
       /\ \A x \in (LiveSlots \ H) \ Range(s) : \A tok :
            map[x] = swaMap[x] /\ Has(kv, idx, scl, swa, swaMap, x, tok)
            => Has(kv', idx', scl', swa', swaMap', x, tok)
  <2>1. Range(s) \subseteq L
    BY <1>4
  <2>2. LiveSlots \ H \in SUBSET L
    BY <1>4
  <2>3. QED
    BY <1>5, <1>10, <1>11, <2>1, <2>2, StoreHas
<1>13. ASSUME NEW x \in LiveSlots \ H, NEW tok, Has(kv, idx, scl, swa, swaMap, x, tok)
       PROVE  Has(kv', idx', scl', swa', swaMap', x, tok)
  <2>1. x \notin Range(s)
    BY <1>8, <1>10
  <2>2. map[x] = swaMap[x]
    BY <1>5 DEF Same
  <2>3. QED
    BY <1>12, <1>13, <2>1, <2>2
<1>14. \A t \in Texts : RowHolds(kv', idx', scl', swa', swaMap', cache'[t], t)
  <2>1. SUFFICES ASSUME NEW t \in Texts
                 PROVE  RowHolds(kv', idx', scl', swa', swaMap', cache'[t], t)
    OBVIOUS
  <2>2. PICK q : q = c[t] /\ q = cache'[t]
    BY <1>2, <1>6
  <2>3. ASSUME NEW i \in DOMAIN q
        PROVE  Has(kv', idx', scl', swa', swaMap', q[i], <<t, i - 1>>)
    <3>1. i \in DOMAIN cache[t] /\ q[i] = cache[t][i] /\ q[i] \notin H
      BY <1>7, <2>2
    <3>2. q[i] \in LiveSlots
      <4>1. q[i] \in Held(Texts)
        BY <3>1, HeldIs
      <4>2. QED
        BY <4>1 DEF LiveSlots
    <3>3. Has(kv, idx, scl, swa, swaMap, q[i], <<t, i - 1>>)
      BY <3>1 DEF ContentInv, RowHolds
    <3>4. QED
      BY <1>13, <3>1, <3>2, <3>3
  <2>4. QED
    BY <2>2, <2>3 DEF RowHolds
<1>15. PICK row, r2, t : row = req.row /\ r2 = row \o s /\ t = req.text
  OBVIOUS
<1>16. PICK k \in Nat : k = Len(row) /\ row \in Seq(FullSlots)
  BY <1>15 DEF OwnInv, ReqTypes
<1>17. /\ r2 \in Seq(FullSlots) /\ Len(r2) = k + n
       /\ \A i \in 1 .. (k + n) : r2[i] = IF i <= k THEN row[i] ELSE s[i - k]
  <2>1. PICK A : A = FullSlots
    OBVIOUS
  <2>2. row \in Seq(A) /\ s \in Seq(A) /\ Len(s) = n /\ Len(row) = k
    BY <1>5, <1>10, <1>16, <2>1
  <2>3. /\ row \o s \in Seq(A) /\ Len(row \o s) = k + n
        /\ \A i \in 1 .. (k + n) : (row \o s)[i] = IF i <= k THEN row[i] ELSE s[i - k]
    BY <2>2, ConcatProperties
  <2>4. QED
    BY <1>15, <2>1, <2>3
<1>18. RowHolds(kv', idx', scl', swa', swaMap', r2, t)
  <2>1. DOMAIN r2 = 1 .. (k + n) /\ DOMAIN row = 1 .. k
    BY <1>16, <1>17
  <2>2. ASSUME NEW i \in 1 .. (k + n), i <= k
        PROVE  Has(kv', idx', scl', swa', swaMap', r2[i], <<t, i - 1>>)
    <3>1. i \in DOMAIN row /\ r2[i] = row[i]
      BY <1>17, <2>1, <2>2
    <3>2. row[i] \in Range(req.row)
      BY <1>15, <3>1 DEF Range
    <3>3. row[i] \in LiveSlots \ H
      BY <1>7, <3>2
    <3>4. Has(kv, idx, scl, swa, swaMap, row[i], <<t, i - 1>>)
      BY <1>15, <3>1 DEF ContentInv, RowHolds
    <3>5. QED
      BY <1>13, <3>1, <3>3, <3>4
  <2>3. ASSUME NEW i \in 1 .. (k + n), ~ (i <= k)
        PROVE  Has(kv', idx', scl', swa', swaMap', r2[i], <<t, i - 1>>)
    <3>1. PICK j \in 1 .. n : j = i - k
      <4>1. i - k \in 1 .. n
        BY <2>3
      <4>2. QED
        BY <4>1
    <3>2. r2[i] = s[j]
      BY <1>17, <2>3, <3>1
    <3>3. toks[j] = <<t, i - 1>>
      <4>1. k + j - 1 = i - 1
        BY <3>1
      <4>2. toks[j] = <<t, k + j - 1>>
        BY <1>1, <1>15, <1>16
      <4>3. QED
        BY <4>1, <4>2
    <3>4. Has(kv', idx', scl', swa', swaMap', s[j], toks[j])
      BY <1>9, <1>12
    <3>5. QED
      BY <3>2, <3>3, <3>4
  <2>4. QED
    BY <2>1, <2>2, <2>3 DEF RowHolds
<1>19. req' = [phase |-> phase, text |-> t, prompt |-> req.prompt, matched |-> req.matched, row |-> r2]
  BY <1>2, <1>3, <1>15 DEF OwnInv, ReqTypes
<1>20. ContentInv'
  <2>1. req'.row = r2 /\ req'.text = t
    BY <1>19
  <2>2. RowHolds(kv', idx', scl', swa', swaMap', req'.row, req'.text)
    BY <1>18, <2>1
  <2>3. QED
    BY <1>12, <1>14, <2>2 DEF ContentInv
<1>21. swaMap' = map
  BY <1>11 DEF Store
<1>22. Sighted(map, r2, k - (Window - 1))
  <2>1. ASSUME NEW i \in 1 .. (k + n), i > k - (Window - 1)
        PROVE  map[r2[i]] # 0
    <3>1. CASE i <= k
      <4>1. i \in DOMAIN row /\ r2[i] = row[i] /\ i \in Near(k, Window - 1)
        BY <1>16, <1>17, <2>1, <3>1 DEF Near
      <4>2. swaMap[row[i]] # 0
        BY <1>15, <1>16, <4>1 DEF OwnInv, NeedsKept, Reach
      <4>3. row[i] \in LiveSlots \ H
        BY <1>7, <1>15, <4>1 DEF Range
      <4>4. QED
        BY <1>5, <4>1, <4>2, <4>3 DEF Same
    <3>2. CASE ~(i <= k)
      <4>1. PICK j \in 1 .. n : j = i - k
        <5>1. i - k \in 1 .. n
          BY <2>1, <3>2
        <5>2. QED
          BY <5>1
      <4>2. r2[i] = s[j] /\ s[j] \in Range(s)
        BY <1>9, <1>17, <3>2, <4>1 DEF Range
      <4>3. QED
        BY <1>5, <4>2 DEF Mapped
    <3>3. QED
      BY <3>1, <3>2
  <2>2. DOMAIN r2 = 1 .. (k + n)
    BY <1>17
  <2>3. QED
    BY <2>1, <2>2 DEF Sighted
<1>23. QED
  BY <1>3, <1>15, <1>16, <1>17, <1>19, <1>20, <1>21, <1>22


LEMMA ArriveHolds ==
  ASSUME OwnInv, ContentInv, NEW t \in Texts, NEW n \in 1 .. MaxPrompt, NEW m, Arrive(t, n, m)
  PROVE  ContentInv'
<1>1. /\ kv' = kv /\ idx' = idx /\ scl' = scl /\ swa' = swa /\ swaMap' = swaMap /\ cache' = cache
      /\ req' = [phase |-> "prefill", text |-> t, prompt |-> n, matched |-> m,
                 row |-> SubSeq(cache[t], 1, m)]
      /\ m \in Usable(t, n)
  BY DEF Arrive, poolVars
<1>2. PICK q : q = cache[t]
  OBVIOUS
<1>3. q \in Seq(FullSlots)
  BY <1>2 DEF OwnInv, RowsApart
<1>4. PICK k \in Nat : k = m /\ k <= Len(q)
  <2>1. n - 1 \in Nat /\ Len(q) \in Nat
    BY <1>3, ServeAssumption
  <2>2. Smaller(Len(q), n - 1) \in Nat /\ Smaller(Len(q), n - 1) <= Len(q)
    BY <2>1, SmallerIs
  <2>3. m \in 0 .. Smaller(Len(q), n - 1)
    BY <1>1, <1>2 DEF Usable
  <2>4. QED
    BY <2>1, <2>2, <2>3
<1>5. PICK r : r = SubSeq(q, 1, k)
  OBVIOUS
<1>6. Len(r) = k /\ DOMAIN r = 1 .. k /\ \A i \in 1 .. k : i \in DOMAIN q /\ r[i] = q[i]
  <2>1. r \in Seq(FullSlots) /\ Len(r) = k /\ \A i \in 1 .. k : i \in DOMAIN q /\ r[i] = q[i]
    BY <1>3, <1>4, <1>5, PrefixIs
  <2>2. QED
    BY <2>1
<1>7. req'.row = r /\ req'.text = t
  BY <1>1, <1>2, <1>4, <1>5
<1>8. RowHolds(kv, idx, scl, swa, swaMap, q, t)
  BY <1>2 DEF ContentInv
<1>9. RowHolds(kv, idx, scl, swa, swaMap, r, t)
  BY <1>6, <1>8 DEF RowHolds
<1>10. RowHolds(kv', idx', scl', swa', swaMap', req'.row, req'.text)
  BY <1>1, <1>7, <1>9
<1>11. TableTypes' /\ \A u \in Texts : RowHolds(kv', idx', scl', swa', swaMap', cache'[u], u)
  BY <1>1 DEF ContentInv, TableTypes
<1>12. QED
  BY <1>10, <1>11 DEF ContentInv

LEMMA FinishHolds ==
  ASSUME OwnInv, ContentInv, NEW J, Finish(J)
  PROVE  ContentInv'
<1>1. PICK t, old, new : t = req.text /\ old = cache[t] /\ new = req.row
  OBVIOUS
<1>2. t \in Texts
  BY <1>1 DEF Finish, OwnInv, ReqTypes
<1>3. old \in Seq(FullSlots) /\ new \in Seq(FullSlots)
  BY <1>1, <1>2 DEF OwnInv, ReqTypes, RowsApart
<1>4. PICK q \in Seq(FullSlots) : q = Merged(old, new, J) /\ Merges(q, old, new)
  <2>1. J \in SUBSET (DOMAIN old \cap DOMAIN new)
    BY <1>1 DEF Finish
  <2>2. QED
    BY <1>3, <2>1, MergedIs
<1>5. PICK H, held : H = (Range(old) \cup Range(new)) \ Range(q) /\ held = LiveSlots \ H
  OBVIOUS
<1>6. /\ req' = NoReq /\ cache' = [cache EXCEPT ![t] = q] /\ Release(Released(swaMap, H), held)
  BY <1>1, <1>4, <1>5 DEF Finish
<1>7. PICK map : map = Released(swaMap, H)
  OBVIOUS
<1>8. map = [s \in FullSlots |-> IF s \in H THEN 0 ELSE swaMap[s]]
  BY <1>7 DEF Released
<1>9. /\ TableTypes'
      /\ \A s \in FullSlots \cap held : \A tok :
           map[s] \in {0, swaMap[s]} /\ map[s] \in SwaSlots /\ Has(kv, idx, scl, swa, swaMap, s, tok)
           => Has(kv', idx', scl', swa', swaMap', s, tok)
  <2>1. Release(map, held)
    BY <1>6, <1>7
  <2>2. QED
    BY <2>1, ReleaseHas
<1>10. ASSUME NEW s \in LiveSlots, s \notin H, NEW tok, Has(kv, idx, scl, swa, swaMap, s, tok)
       PROVE  Has(kv', idx', scl', swa', swaMap', s, tok)
  <2>1. s \in FullSlots /\ s \in held
    BY <1>5, <1>10, LiveFinite
  <2>2. swaMap[s] \in SwaSlots
    BY <2>1 DEF OwnInv, Owned
  <2>3. map[s] = swaMap[s]
    BY <1>8, <1>10, <2>1
  <2>4. QED
    BY <1>9, <1>10, <2>1, <2>2, <2>3
<1>11. ASSUME NEW i \in DOMAIN q
       PROVE  Has(kv', idx', scl', swa', swaMap', q[i], <<t, i - 1>>)
  <2>1. q[i] \notin H
    BY <1>5 DEF Range
  <2>2. CASE i \in DOMAIN old /\ q[i] = old[i]
    <3>1. q[i] \in LiveSlots
      <4>1. q[i] \in Held(Texts)
        BY <1>1, <1>2, <2>2, HeldIs
      <4>2. QED
        BY <4>1 DEF LiveSlots
    <3>2. Has(kv, idx, scl, swa, swaMap, old[i], <<t, i - 1>>)
      BY <1>1, <1>2, <2>2 DEF ContentInv, RowHolds
    <3>3. QED
      BY <1>10, <2>1, <2>2, <3>1, <3>2
  <2>3. CASE i \in DOMAIN new /\ q[i] = new[i]
    <3>1. q[i] \in LiveSlots
      BY <1>1, <2>3 DEF LiveSlots, Range
    <3>2. Has(kv, idx, scl, swa, swaMap, new[i], <<t, i - 1>>)
      BY <1>1, <2>3 DEF ContentInv, RowHolds
    <3>3. QED
      BY <1>10, <2>1, <2>3, <3>1, <3>2
  <2>4. QED
    BY <1>4, <2>2, <2>3 DEF Merges
<1>12. cache'[t] = q /\ \A u \in Texts : u # t => cache'[u] = cache[u]
  BY <1>2, <1>6 DEF OwnInv, RowsApart
<1>13. ASSUME NEW u \in Texts
       PROVE  RowHolds(kv', idx', scl', swa', swaMap', cache'[u], u)
  <2>1. CASE u = t
    BY <1>11, <1>12, <2>1 DEF RowHolds
  <2>2. CASE u # t
    <3>1. PICK p : p = cache[u] /\ p = cache'[u]
      BY <1>12, <2>2
    <3>2. ASSUME NEW i \in DOMAIN p
          PROVE  Has(kv', idx', scl', swa', swaMap', p[i], <<u, i - 1>>)
      <4>1. p[i] \in Held(Texts)
        BY <3>1, HeldIs
      <4>2. p[i] \in LiveSlots
        BY <4>1 DEF LiveSlots
      <4>3. p[i] \notin H
        <5>1. ASSUME NEW j \in DOMAIN new, p[i] = new[j]
              PROVE  FALSE
          <6>1. \A v \in Texts : \A h \in DOMAIN cache[v] : cache[v][h] = req.row[j] => v = req.text
            BY <1>1, <5>1 DEF OwnInv, RowsApart
          <6>2. QED
            BY <1>1, <2>2, <3>1, <5>1, <6>1
        <5>2. \A j \in DOMAIN old : p[i] # old[j]
          <6>1. \A v, y \in Texts : \A h \in DOMAIN cache[v], j \in DOMAIN cache[y] :
                  cache[v][h] = cache[y][j] => v = y
            BY DEF OwnInv, RowsApart
          <6>2. i \in DOMAIN cache[u] /\ p[i] = cache[u][i]
            BY <3>1
          <6>3. \A j \in DOMAIN cache[t] : cache[u][i] # cache[t][j]
            BY <1>2, <2>2, <6>1, <6>2
          <6>4. QED
            BY <1>1, <6>2, <6>3
        <5>3. QED
          BY <1>5, <5>1, <5>2 DEF Range
      <4>4. Has(kv, idx, scl, swa, swaMap, p[i], <<u, i - 1>>)
        BY <3>1 DEF ContentInv, RowHolds
      <4>5. QED
        BY <1>10, <4>2, <4>3, <4>4
    <3>3. QED
      BY <3>1, <3>2 DEF RowHolds
  <2>3. QED
    BY <2>1, <2>2
<1>14. RowHolds(kv', idx', scl', swa', swaMap', req'.row, req'.text)
  <2>1. req'.row = <<>> /\ DOMAIN <<>> = {}
    BY <1>6 DEF NoReq
  <2>2. QED
    BY <2>1 DEF RowHolds
<1>15. QED
  BY <1>9, <1>13, <1>14 DEF ContentInv

LEMMA ErasedIs ==
  ASSUME NEW table, NEW s, NEW e, e = Erased(table, s)
  PROVE  DOMAIN e = FullSlots /\ \A x \in FullSlots : x \notin StepSlots(s) => e[x] = table[x]
BY DEF Erased

LEMMA GrowHolds ==
  ASSUME OwnInv, ContentInv, Grow
  PROVE  ContentInv'
<1>1. PICK k, x, m : k = kv /\ x = idx /\ m = mapped
  OBVIOUS
<1>2. PICK k2, x2 : k2 = Erased(k, m) /\ x2 = Erased(x, m)
  OBVIOUS
<1>3. /\ m < StepsMax /\ kv' = k2 /\ idx' = x2 /\ scl' = scl /\ swa' = swa /\ swaMap' = swaMap
      /\ req' = req /\ cache' = cache
  BY <1>1, <1>2 DEF Grow, MapStep
<1>4. /\ DOMAIN k2 = FullSlots /\ \A s \in FullSlots : s \notin StepSlots(m) => k2[s] = k[s]
      /\ DOMAIN x2 = FullSlots /\ \A s \in FullSlots : s \notin StepSlots(m) => x2[s] = x[s]
  BY <1>2, ErasedIs
<1>5. m \in 1 .. StepsMax
  BY <1>1 DEF OwnInv
<1>6. Backed(m) \cap StepSlots(m) = {}
  BY <1>3, <1>5, BackedIs
<1>7. ASSUME NEW s \in LiveSlots, NEW tok, Has(kv, idx, scl, swa, swaMap, s, tok)
      PROVE  Has(kv', idx', scl', swa', swaMap', s, tok)
  <2>1. s \in FullSlots /\ s \notin StepSlots(m)
    BY <1>1, <1>6, LiveFinite
  <2>2. QED
    BY <1>1, <1>3, <1>4, <1>7, <2>1 DEF Has
<1>8. TableTypes'
  BY <1>3, <1>4 DEF ContentInv, TableTypes
<1>9. ASSUME NEW u \in Texts
      PROVE  RowHolds(kv', idx', scl', swa', swaMap', cache'[u], u)
  <2>1. PICK p : p = cache[u] /\ p = cache'[u]
    BY <1>3
  <2>2. ASSUME NEW i \in DOMAIN p
        PROVE  Has(kv', idx', scl', swa', swaMap', p[i], <<u, i - 1>>)
    <3>1. p[i] \in Held(Texts)
      BY <2>1, HeldIs
    <3>2. p[i] \in LiveSlots
      BY <3>1 DEF LiveSlots
    <3>3. Has(kv, idx, scl, swa, swaMap, p[i], <<u, i - 1>>)
      BY <2>1 DEF ContentInv, RowHolds
    <3>4. QED
      BY <1>7, <3>2, <3>3
  <2>3. QED
    BY <2>1, <2>2 DEF RowHolds
<1>10. RowHolds(kv', idx', scl', swa', swaMap', req'.row, req'.text)
  <2>1. PICK p : p = req.row /\ p = req'.row /\ req'.text = req.text
    BY <1>3
  <2>2. ASSUME NEW i \in DOMAIN p
        PROVE  Has(kv', idx', scl', swa', swaMap', p[i], <<req.text, i - 1>>)
    <3>1. p[i] \in LiveSlots
      BY <2>1 DEF LiveSlots, Range
    <3>2. Has(kv, idx, scl, swa, swaMap, p[i], <<req.text, i - 1>>)
      BY <2>1 DEF ContentInv, RowHolds
    <3>3. QED
      BY <1>7, <3>1, <3>2
  <2>3. QED
    BY <2>1, <2>2 DEF RowHolds
<1>11. QED
  BY <1>8, <1>9, <1>10 DEF ContentInv

(* What the moved tokens are found behind.                                   *)
LEMMA MovedIs ==
  ASSUME NEW table, DOMAIN table = FullSlots, NEW olds, NEW news \in Seq(FullSlots), NoTwice(news),
         DOMAIN olds = DOMAIN news, NEW M, M = Moved(table, olds, news)
  PROVE  /\ DOMAIN M = FullSlots
         /\ \A s \in FullSlots : s \notin Range(news) => M[s] = table[s]
         /\ \A i \in DOMAIN news : M[news[i]] = table[olds[i]]
<1>1. PICK toks : toks = Translated(table, olds)
  OBVIOUS
<1>2. M = Put(table, news, toks)
  BY <1>1 DEF Moved
<1>3. \A i \in DOMAIN news : toks[i] = table[olds[i]]
  BY <1>1 DEF Translated
<1>4. QED
  BY <1>2, <1>3, PutHeld

LEMMA MovedKept ==
  ASSUME NEW table, DOMAIN table = FullSlots, NEW olds, NEW news \in Seq(FullSlots), NoTwice(news),
         DOMAIN olds = DOMAIN news, NEW m, NEW held,
         NEW h, h = OfHeld(Erased(Moved(table, olds, news), m), held)
  PROVE  /\ DOMAIN h = FullSlots
         /\ \A s \in FullSlots : s \notin Range(news) /\ s \notin StepSlots(m) /\ s \in held => h[s] = table[s]
         /\ \A i \in DOMAIN news : news[i] \in FullSlots /\ news[i] \notin StepSlots(m) /\ news[i] \in held
              => h[news[i]] = table[olds[i]]
<1>1. PICK M : M = Moved(table, olds, news)
  OBVIOUS
<1>2. PICK e : e = Erased(M, m)
  OBVIOUS
<1>3. /\ DOMAIN M = FullSlots
      /\ \A s \in FullSlots : s \notin Range(news) => M[s] = table[s]
      /\ \A i \in DOMAIN news : M[news[i]] = table[olds[i]]
  BY <1>1, MovedIs
<1>4. DOMAIN e = FullSlots /\ \A x \in FullSlots : x \notin StepSlots(m) => e[x] = M[x]
  BY <1>2, ErasedIs
<1>5. DOMAIN h = FullSlots /\ \A s \in FullSlots : s \in held => h[s] = e[s]
  BY <1>1, <1>2, HeldTable
<1>6. QED
  BY <1>3, <1>4, <1>5

(* The top step is unmapped: a token is found where its slot went.           *)
LEMMA ShrinkHas ==
  ASSUME OwnInv, TableTypes, NEW T, NEW olds, NEW news, NEW low, NEW n \in Nat, Shrunk(T, olds, news, low, n)
  PROVE  /\ TableTypes'
         /\ \A s \in Held(Texts) \ Held(T) : \A tok :
              Has(kv, idx, scl, swa, swaMap, s, tok)
              => Has(kv', idx', scl', swa', swaMap', NewSlotOf(StepSlots(mapped - 1), olds, news, s), tok)
<1>1. PICK H, m, top, L : H = Held(T) /\ m = mapped - 1 /\ top = StepSlots(m) /\ L = Held(Texts) \ Held(T)
  OBVIOUS
<1>2. PICK map, after, held : /\ map = Released(swaMap, H) /\ after = MovedMap(map, olds, news)
                              /\ held = (L \ top) \cup Range(news)
  OBVIOUS
<1>3. PICK K : K = L \cap top
  OBVIOUS
<1>4. /\ low = (free \cup H) \ top /\ T \in SUBSET Evictable /\ req.phase = "none"
      /\ olds \in Seq(K) /\ Len(olds) = n /\ news \in Seq(low) /\ Len(news) = n
      /\ NoTwice(olds) /\ NoTwice(news)
      /\ \A x \in K : \E i \in 1 .. n : olds[i] = x
  <2>1. DOMAIN olds = 1 .. n /\ DOMAIN news = 1 .. n
    BY DEF Shrunk
  <2>2. QED
    BY <1>1, <1>3, <2>1 DEF Shrunk, NoTwice
<1>5. /\ kv' = OfHeld(Erased(Moved(kv, olds, news), m), held)
      /\ idx' = OfHeld(Erased(Moved(idx, olds, news), m), held)
      /\ scl' = OfHeld(Moved(scl, olds, news), held)
      /\ swaMap' = after /\ swa' = OfHeldSwa(after)
  <2>1. UnmapStep(olds, news, map, held)
    BY <1>1, <1>2 DEF Shrunk
  <2>2. QED
    BY <1>1, <1>2, <2>1, Zenon DEF UnmapStep, MovedScale
<1>6. LiveSlots = Held(Texts) /\ H \in SUBSET LiveSlots
  BY <1>1, <1>4, IdleEvicts
<1>7. /\ L \subseteq FullSlots /\ L \cap low = {} /\ L \cap H = {} /\ low \subseteq FullSlots
      /\ \A s \in L : swaMap[s] \in SwaSlots
  <2>2. LiveSlots \subseteq Backed(mapped) /\ free \subseteq Backed(mapped) /\ LiveSlots \cap free = {}
        /\ Backed(mapped) \subseteq FullSlots
    BY LiveFinite
  <2>3. \A s \in LiveSlots : swaMap[s] \in SwaSlots
    BY <2>2 DEF OwnInv, Owned
  <2>4. QED
    BY <1>1, <1>4, <1>6, <2>2, <2>3
<1>8. /\ DOMAIN olds = 1 .. n /\ DOMAIN news = 1 .. n /\ news \in Seq(FullSlots) /\ olds \in Seq(FullSlots)
      /\ \A i \in 1 .. n : olds[i] \in K /\ news[i] \in low /\ news[i] \in Range(news)
      /\ Range(news) \subseteq low
  <2>1. DOMAIN olds = 1 .. n /\ DOMAIN news = 1 .. n /\ K \subseteq FullSlots
    BY <1>3, <1>4, <1>7
  <2>2. news \in Seq(FullSlots) /\ olds \in Seq(FullSlots)
    BY <1>4, <1>7, <2>1
  <2>3. \A i \in 1 .. n : olds[i] \in K /\ news[i] \in low
    BY <1>4, <2>1, ElementOfSeq
  <2>4. QED
    BY <2>1, <2>2, <2>3 DEF Range
<1>9. map = [s \in FullSlots |-> IF s \in H THEN 0 ELSE swaMap[s]]
  BY <1>2 DEF Released
<1>10. /\ \A s \in L : s \notin top => after[s] = swaMap[s]
       /\ \A i \in 1 .. n : after[news[i]] = swaMap[olds[i]]
  <2>1. PICK M, z : M = Moved(map, olds, news) /\ z = [i \in DOMAIN olds |-> 0]
    OBVIOUS
  <2>2. after = Put(M, olds, z)
    BY <1>2, <2>1 DEF MovedMap
  <2>3. /\ DOMAIN M = FullSlots
        /\ \A s \in FullSlots : s \notin Range(news) => M[s] = map[s]
        /\ \A i \in DOMAIN news : M[news[i]] = map[olds[i]]
    <3>1. DOMAIN map = FullSlots
      BY <1>9
    <3>2. QED
      BY <1>4, <1>8, <2>1, <3>1, MovedIs
  <2>4. \A s \in FullSlots : s \notin Range(olds) => after[s] = M[s]
    BY <1>4, <1>8, <2>2, <2>3, PutHeld
  <2>5. Range(olds) \subseteq K
    BY <1>8 DEF Range
  <2>6. ASSUME NEW s \in L, s \notin top
        PROVE  after[s] = swaMap[s]
    <3>1. s \in FullSlots /\ s \notin Range(olds) /\ s \notin Range(news) /\ s \notin H
      BY <1>3, <1>7, <1>8, <2>5, <2>6
    <3>2. QED
      BY <1>9, <2>3, <2>4, <3>1
  <2>7. ASSUME NEW i \in 1 .. n
        PROVE  after[news[i]] = swaMap[olds[i]]
    <3>1. news[i] \in FullSlots /\ news[i] \notin Range(olds)
      BY <1>3, <1>7, <1>8, <2>5
    <3>2. olds[i] \in FullSlots /\ olds[i] \notin H
      BY <1>3, <1>7, <1>8
    <3>3. QED
      BY <1>8, <1>9, <2>3, <2>4, <3>1, <3>2
  <2>8. QED
    BY <2>6, <2>7
<1>11. PICK k, x, c, w : /\ k = OfHeld(Erased(Moved(kv, olds, news), m), held)
                         /\ x = OfHeld(Erased(Moved(idx, olds, news), m), held)
                         /\ c = OfHeld(Moved(scl, olds, news), held) /\ w = OfHeldSwa(after)
  OBVIOUS
<1>12. kv' = k /\ idx' = x /\ scl' = c /\ swa' = w /\ swaMap' = after
  BY <1>5, <1>11
<1>13. /\ DOMAIN k = FullSlots
       /\ \A s \in FullSlots : s \notin Range(news) /\ s \notin top /\ s \in held => k[s] = kv[s]
       /\ \A i \in 1 .. n : news[i] \in FullSlots /\ news[i] \notin top /\ news[i] \in held
            => k[news[i]] = kv[olds[i]]
  <2>1. PICK tab : tab = kv
    OBVIOUS
  <2>2. k = OfHeld(Erased(Moved(tab, olds, news), m), held) /\ DOMAIN tab = FullSlots
    BY <1>11, <2>1 DEF TableTypes
  <2>3. /\ DOMAIN k = FullSlots
        /\ \A s \in FullSlots : s \notin Range(news) /\ s \notin StepSlots(m) /\ s \in held => k[s] = tab[s]
        /\ \A i \in DOMAIN news : news[i] \in FullSlots /\ news[i] \notin StepSlots(m) /\ news[i] \in held
             => k[news[i]] = tab[olds[i]]
    BY <1>4, <1>8, <2>2, MovedKept
  <2>4. QED
    BY <1>1, <1>8, <2>1, <2>3
<1>14. /\ DOMAIN x = FullSlots
       /\ \A s \in FullSlots : s \notin Range(news) /\ s \notin top /\ s \in held => x[s] = idx[s]
       /\ \A i \in 1 .. n : news[i] \in FullSlots /\ news[i] \notin top /\ news[i] \in held
            => x[news[i]] = idx[olds[i]]
  <2>1. PICK tab : tab = idx
    OBVIOUS
  <2>2. x = OfHeld(Erased(Moved(tab, olds, news), m), held) /\ DOMAIN tab = FullSlots
    BY <1>11, <2>1 DEF TableTypes
  <2>3. /\ DOMAIN x = FullSlots
        /\ \A s \in FullSlots : s \notin Range(news) /\ s \notin StepSlots(m) /\ s \in held => x[s] = tab[s]
        /\ \A i \in DOMAIN news : news[i] \in FullSlots /\ news[i] \notin StepSlots(m) /\ news[i] \in held
             => x[news[i]] = tab[olds[i]]
    BY <1>4, <1>8, <2>2, MovedKept
  <2>4. QED
    BY <1>1, <1>8, <2>1, <2>3
<1>15. /\ DOMAIN c = FullSlots
       /\ \A s \in FullSlots : s \notin Range(news) /\ s \in held => c[s] = scl[s]
       /\ \A i \in 1 .. n : news[i] \in FullSlots /\ news[i] \in held => c[news[i]] = scl[olds[i]]
  <2>1. PICK tab, M : tab = scl /\ M = Moved(scl, olds, news)
    OBVIOUS
  <2>2. M = Moved(tab, olds, news) /\ DOMAIN tab = FullSlots /\ c = OfHeld(M, held)
    BY <1>11, <2>1 DEF TableTypes
  <2>3. /\ \A s \in FullSlots : s \notin Range(news) => M[s] = tab[s]
        /\ \A i \in DOMAIN news : M[news[i]] = tab[olds[i]]
    BY <1>4, <1>8, <2>2, MovedIs
  <2>4. DOMAIN c = FullSlots /\ \A s \in FullSlots : s \in held => c[s] = M[s]
    BY <2>2, HeldTable
  <2>5. QED
    BY <1>8, <2>1, <2>3, <2>4
<1>16. DOMAIN w = SwaSlots /\ \A s \in FullSlots : after[s] \in SwaSlots => w[after[s]] = swa[after[s]]
  BY <1>11, HeldWindow
<1>17. TableTypes'
  BY <1>12, <1>13, <1>14, <1>15, <1>16 DEF TableTypes
<1>18. ASSUME NEW s \in L, NEW tok, Has(kv, idx, scl, swa, swaMap, s, tok)
       PROVE  Has(kv', idx', scl', swa', swaMap', NewSlotOf(top, olds, news, s), tok)
  <2>1. /\ kv[s] = tok /\ idx[s] = tok /\ scl[s] = tok /\ (swaMap[s] # 0 => swa[swaMap[s]] = tok)
        /\ swaMap[s] \in SwaSlots
    BY <1>7, <1>18 DEF Has
  <2>2. CASE s \notin top
    <3>1. NewSlotOf(top, olds, news, s) = s
      BY <2>2 DEF NewSlotOf
    <3>2. s \in FullSlots /\ s \notin Range(news) /\ s \in held /\ after[s] = swaMap[s]
      BY <1>2, <1>7, <1>8, <1>10, <2>2
    <3>3. k[s] = tok /\ x[s] = tok /\ c[s] = tok /\ (after[s] # 0 => w[after[s]] = tok)
      BY <1>13, <1>14, <1>15, <1>16, <2>1, <2>2, <3>2
    <3>4. QED
      BY <1>12, <3>1, <3>3 DEF Has
  <2>3. CASE s \in top
    <3>1. PICK i \in 1 .. n : olds[i] = s
      BY <1>3, <1>4, <2>3
    <3>2. NewSlotOf(top, olds, news, s) = news[i]
      BY <1>4, <1>8, <2>3, <3>1, NewSlotIs
    <3>3. /\ news[i] \in FullSlots /\ news[i] \notin top /\ news[i] \in held
          /\ after[news[i]] = swaMap[s]
      BY <1>2, <1>4, <1>7, <1>8, <1>10, <3>1
    <3>4. k[news[i]] = tok /\ x[news[i]] = tok /\ c[news[i]] = tok /\ (after[news[i]] # 0 => w[after[news[i]]] = tok)
      BY <1>13, <1>14, <1>15, <1>16, <2>1, <3>1, <3>3
    <3>5. QED
      BY <1>12, <3>2, <3>4 DEF Has
  <2>4. QED
    BY <2>2, <2>3
<1>19. QED
  BY <1>1, <1>17, <1>18

LEMMA ShrinkHolds ==
  ASSUME OwnInv, ContentInv, NEW T, Shrink(T)
  PROVE  ContentInv'
<1>1. PICK olds, news, low : \E n \in Nat : Shrunk(T, olds, news, low, n)
  BY ShrinkIs
<1>2. PICK n \in Nat : Shrunk(T, olds, news, low, n)
  BY <1>1
<1>3. PICK top, L : top = StepSlots(mapped - 1) /\ L = Held(Texts) \ Held(T)
  OBVIOUS
<1>4. /\ TableTypes'
      /\ \A s \in L : \A tok :
           Has(kv, idx, scl, swa, swaMap, s, tok)
           => Has(kv', idx', scl', swa', swaMap', NewSlotOf(top, olds, news, s), tok)
  <2>1. TableTypes
    BY DEF ContentInv
  <2>2. QED
    BY <1>2, <1>3, <2>1, ShrinkHas
<1>5. /\ req.phase = "none" /\ req' = req /\ T \in SUBSET Evictable
      /\ cache' = [t \in Texts |-> [i \in DOMAIN Remaining(T)[t] |->
                     NewSlotOf(top, olds, news, Remaining(T)[t][i])]]
  BY <1>2, <1>3 DEF Shrunk
<1>6. /\ Held(Texts) \ Held(T) = Held(Texts \ T)
      /\ Remaining(T) = [t \in Texts |-> IF t \in T THEN <<>> ELSE cache[t]]
  BY <1>5, IdleEvicts
<1>7. ASSUME NEW u \in Texts
      PROVE  RowHolds(kv', idx', scl', swa', swaMap', cache'[u], u)
  <2>1. cache'[u] = [i \in DOMAIN Remaining(T)[u] |-> NewSlotOf(top, olds, news, Remaining(T)[u][i])]
    BY <1>5
  <2>2. Remaining(T)[u] = IF u \in T THEN <<>> ELSE cache[u]
    BY <1>6
  <2>3. CASE u \in T
    <3>1. DOMAIN cache'[u] = {}
      BY <2>1, <2>2, <2>3
    <3>2. QED
      BY <3>1 DEF RowHolds
  <2>4. CASE u \notin T
    <3>1. PICK p : p = cache[u] /\ p = Remaining(T)[u]
      BY <2>2, <2>4
    <3>2. cache'[u] = [i \in DOMAIN p |-> NewSlotOf(top, olds, news, p[i])]
      BY <2>1, <3>1
    <3>3. ASSUME NEW i \in DOMAIN p
          PROVE  Has(kv', idx', scl', swa', swaMap', NewSlotOf(top, olds, news, p[i]), <<u, i - 1>>)
      <4>1. p[i] \in Held(Texts \ T)
        BY <2>4, <3>1, HeldIs
      <4>2. p[i] \in Held(Texts)
        BY <3>1, HeldIs
      <4>3. p[i] \in L
        BY <1>3, <1>6, <4>1, <4>2
      <4>4. Has(kv, idx, scl, swa, swaMap, p[i], <<u, i - 1>>)
        BY <3>1 DEF ContentInv, RowHolds
      <4>5. QED
        BY <1>4, <4>3, <4>4
    <3>4. DOMAIN cache'[u] = DOMAIN p /\ \A i \in DOMAIN p : cache'[u][i] = NewSlotOf(top, olds, news, p[i])
      BY <3>2
    <3>5. QED
      BY <3>3, <3>4 DEF RowHolds
  <2>5. QED
    BY <2>3, <2>4
<1>8. RowHolds(kv', idx', scl', swa', swaMap', req'.row, req'.text)
  <2>1. req'.row = <<>> /\ DOMAIN <<>> = {}
    BY <1>5 DEF OwnInv, ReqTypes
  <2>2. QED
    BY <2>1 DEF RowHolds
<1>9. QED
  BY <1>4, <1>7, <1>8 DEF ContentInv

LEMMA ContentStart == Init => ContentInv
<1>1. SUFFICES ASSUME Init
               PROVE  ContentInv
  OBVIOUS
<1>2. /\ kv = [s \in FullSlots |-> Blank] /\ idx = [s \in FullSlots |-> Blank]
      /\ scl = [s \in FullSlots |-> Blank] /\ swa = [s \in SwaSlots |-> Blank]
      /\ req.row = <<>> /\ cache = [t \in Texts |-> <<>>]
  BY <1>1 DEF Init, PoolStart, NoReq
<1>3. TableTypes
  BY <1>2 DEF TableTypes
<1>4. DOMAIN <<>> = {}
  OBVIOUS
<1>5. \A t \in Texts : RowHolds(kv, idx, scl, swa, swaMap, cache[t], t)
  BY <1>2, <1>4 DEF RowHolds
<1>6. RowHolds(kv, idx, scl, swa, swaMap, req.row, req.text)
  BY <1>2, <1>4 DEF RowHolds
<1>7. QED
  BY <1>3, <1>5, <1>6 DEF ContentInv

(* What a prefill pass and the start of a decode pass store.                 *)
LEMMA PrefillHolds ==
  ASSUME OwnInv, ContentInv, NEW T, NEW f, Prefill(T, f)
  PROVE  ContentInv'
<1>1. PICK n : n = Smaller(MaxChunk, req.prompt - Len(req.row))
  OBVIOUS
<1>2. PICK a : a = Allocated(n, T)
  OBVIOUS
<1>3. PICK ph : ph = IF Len(req.row \o a.slots) = req.prompt THEN "decode" ELSE "prefill"
  OBVIOUS
<1>4. req.phase = "prefill" /\ Extend(n, T, ph, a)
  BY <1>1, <1>2, <1>3, Zenon DEF Prefill
<1>5. n \in Nat
  BY <1>1, <1>4, DecodeRoom
<1>6. req.phase \in {"prefill", "decode"}
  BY <1>4
<1>7. QED
  BY <1>2, <1>4, <1>5, <1>6, ExtendHolds

LEMMA DecodeHolds ==
  ASSUME OwnInv, ContentInv, NEW T, NEW f, DecodeStart(T, f)
  PROVE  ContentInv'
<1>1. PICK one \in Nat : one = 1
  OBVIOUS
<1>2. PICK a : a = Allocated(one, T)
  OBVIOUS
<1>3. PICK ph : ph = "topk"
  OBVIOUS
<1>4. req.phase = "decode" /\ Extend(one, T, ph, a)
  BY <1>1, <1>2, <1>3, Zenon DEF DecodeStart
<1>5. req.phase \in {"prefill", "decode"}
  BY <1>4
<1>6. QED
  BY <1>2, <1>4, <1>5, ExtendHolds

LEMMA SameHolds ==
  ASSUME ContentInv, UNCHANGED <<poolVars, cache>>, req'.row = req.row, req'.text = req.text
  PROVE  ContentInv'
<1>1. kv' = kv /\ idx' = idx /\ scl' = scl /\ swa' = swa /\ swaMap' = swaMap /\ cache' = cache
  BY DEF poolVars
<1>2. QED
  BY <1>1 DEF ContentInv, TableTypes, RowHolds, Has

(* Giving window slots back changes no slot that keeps its own.              *)
LEMMA FreeHolds ==
  ASSUME OwnInv, ContentInv, NEW S \in SUBSET LiveSlots, FreeWindow(S)
  PROVE  ContentInv'
<1>1. PICK G, map, w : /\ G = {s \in S \ Needs : swaMap[s] # 0} /\ map = Released(swaMap, G)
                       /\ w = OfHeldSwa(map)
  OBVIOUS
<1>2. /\ swaMap' = map /\ swa' = w /\ kv' = kv /\ idx' = idx /\ scl' = scl
      /\ req' = req /\ cache' = cache
  BY <1>1, Zenon DEF FreeWindow
<1>3. DOMAIN w = SwaSlots /\ \A s \in FullSlots : map[s] \in SwaSlots => w[map[s]] = swa[map[s]]
  BY <1>1, HeldWindow
<1>4. map = [s \in FullSlots |-> IF s \in G THEN 0 ELSE swaMap[s]]
  BY <1>1 DEF Released
<1>5. ASSUME NEW s \in LiveSlots, NEW tok, Has(kv, idx, scl, swa, swaMap, s, tok)
      PROVE  Has(kv', idx', scl', swa', swaMap', s, tok)
  <2>1. s \in FullSlots
    BY LiveFinite
  <2>2. swaMap[s] \in SwaSlots
    BY <2>1 DEF OwnInv, Owned
  <2>3. map[s] # 0 => map[s] = swaMap[s] /\ w[map[s]] = swa[map[s]]
    BY <1>3, <1>4, <2>1, <2>2
  <2>4. QED
    BY <1>2, <1>5, <2>3 DEF Has
<1>6. TableTypes'
  BY <1>2, <1>3 DEF ContentInv, TableTypes
<1>7. ASSUME NEW p, NEW t, Range(p) \subseteq LiveSlots, RowHolds(kv, idx, scl, swa, swaMap, p, t)
      PROVE  RowHolds(kv', idx', scl', swa', swaMap', p, t)
  BY <1>5, <1>7 DEF RowHolds, Range
<1>8. \A t \in Texts : RowHolds(kv', idx', scl', swa', swaMap', cache'[t], t)
  BY <1>2, <1>7, RowsLive DEF ContentInv
<1>9. RowHolds(kv', idx', scl', swa', swaMap', req'.row, req'.text)
  BY <1>2, <1>7, RowsLive DEF ContentInv
<1>10. QED
  BY <1>6, <1>8, <1>9 DEF ContentInv

LEMMA ContentKeeps ==
  ASSUME OwnInv, ContentInv, [Next]_vars
  PROVE  ContentInv'
<1>1. ASSUME DecodeTopk \/ vars' = vars
      PROVE  ContentInv'
  <2>1. UNCHANGED <<poolVars, cache>> /\ req'.row = req.row /\ req'.text = req.text
    BY <1>1 DEF DecodeTopk, vars
  <2>2. QED
    BY <2>1, SameHolds
<1>2. ASSUME DecodeAttend
      PROVE  ContentInv'
  <2>1. UNCHANGED <<poolVars, cache>> /\ req' = [req EXCEPT !.phase = "decode"]
    BY <1>2 DEF DecodeAttend
  <2>2. req'.row = req.row /\ req'.text = req.text
    BY <2>1 DEF OwnInv, ReqTypes
  <2>3. QED
    BY <2>1, <2>2, SameHolds
<1>3. ASSUME \/ FreeWindow(Range(req.row)) \/ \E t \in Texts : FreeWindow(Range(cache[t]))
      PROVE  ContentInv'
  BY <1>3, RowsLive, FreeHolds
<1>4. ASSUME Next
      PROVE  ContentInv'
  BY <1>1, <1>2, <1>4, <1>3, ArriveHolds, PrefillHolds, DecodeHolds, FinishHolds, GrowHolds, ShrinkHolds DEF Next
<1>5. QED
  BY <1>1, <1>4

(* The request's row is ready to read, before and after a step.              *)
LEMMA ReadyNow ==
  ASSUME OwnInv, ContentInv, RowFits, req.phase # "none"
  PROVE  RowReady(req.row, req.text, kv, swa, swaMap)
<1>1. PICK row, t : row = req.row /\ t = req.text
  OBVIOUS
<1>2. PICK L, f, sf, map, B : L = LiveSlots /\ f = free /\ sf = swaFree /\ map = swaMap /\ B = Backed(mapped)
  OBVIOUS
<1>3. PICK k, x, c, w : k = kv /\ x = idx /\ c = scl /\ w = swa
  OBVIOUS
<1>4. row \in Seq(FullSlots) /\ NoTwice(row) /\ t \in Texts /\ Len(row) <= Width
  BY <1>1 DEF OwnInv, ReqTypes, RowsApart, RowFits
<1>5. Owned(L, f, sf, map, B) /\ Range(row) \subseteq L
  BY <1>1, <1>2 DEF OwnInv, LiveSlots
<1>6. RowHolds(k, x, c, w, map, row, t)
  BY <1>1, <1>2, <1>3 DEF ContentInv
<1>7. RowReady(row, t, k, w, map)
  BY <1>4, <1>5, <1>6, ReadyFrom
<1>8. QED
  BY <1>1, <1>2, <1>3, <1>7

LEMMA ReadyNext ==
  ASSUME OwnInv', ContentInv', RowFits', req'.phase # "none"
  PROVE  RowReady(req'.row, req'.text, kv', swa', swaMap') /\ RowHolds(kv', idx', scl', swa', swaMap', req'.row, req'.text)
<1>1. PICK row, t : row = req'.row /\ t = req'.text
  OBVIOUS
<1>2. PICK L, f, sf, map, B : L = LiveSlots' /\ f = free' /\ sf = swaFree' /\ map = swaMap' /\ B = Backed(mapped)'
  OBVIOUS
<1>3. PICK k, x, c, w : k = kv' /\ x = idx' /\ c = scl' /\ w = swa'
  OBVIOUS
<1>4. row \in Seq(FullSlots) /\ NoTwice(row) /\ t \in Texts /\ Len(row) <= Width
  BY <1>1 DEF OwnInv, ReqTypes, RowsApart, RowFits
<1>5. Owned(L, f, sf, map, B) /\ Range(row) \subseteq L
  <2>1. Owned(LiveSlots, free, swaFree, swaMap, Backed(mapped))'
    BY DEF OwnInv
  <2>2. Owned(L, f, sf, map, B)
    BY <1>2, <2>1 DEF Owned
  <2>3. Range(row) \subseteq L
    BY <1>1, <1>2 DEF LiveSlots, Range
  <2>4. QED
    BY <2>2, <2>3
<1>6. RowHolds(k, x, c, w, map, row, t)
  BY <1>1, <1>2, <1>3 DEF ContentInv
<1>7. RowReady(row, t, k, w, map)
  BY <1>4, <1>5, <1>6, ReadyFrom
<1>8. QED
  BY <1>1, <1>2, <1>3, <1>6, <1>7

(* The index scores of a ready row are those of its positions.               *)
LEMMA KeysRight ==
  ASSUME NEW k, NEW x, NEW c, NEW w, NEW map, NEW row, NEW t, RowReady(row, t, k, w, map),
         RowHolds(k, x, c, w, map, row, t), NEW f, NEW keys, keys = RowScores(f, row, x, c)
  PROVE  DOMAIN keys = DOMAIN row /\ \A j \in DOMAIN row : keys[j] = f[j - 1]
<1>1. keys = [j \in DOMAIN row |-> Score(f, IndexKey(x, c, row[j]))]
  BY DEF RowScores
<1>2. ASSUME NEW j \in DOMAIN row
      PROVE  keys[j] = f[j - 1]
  <2>1. x[row[j]] = <<t, j - 1>> /\ c[row[j]] = <<t, j - 1>> /\ <<t, j - 1>> # Blank
    BY RowIs DEF RowHolds, Has
  <2>2. IndexKey(x, c, row[j]) = <<t, j - 1>>
    BY <2>1 DEF IndexKey
  <2>3. PICK tok : tok = <<t, j - 1>>
    OBVIOUS
  <2>4. Score(f, tok) = f[tok[2]]
    BY <2>1, <2>3 DEF Score
  <2>5. tok[2] = j - 1
    BY <2>3
  <2>6. keys[j] = Score(f, tok)
    BY <1>1, <2>2, <2>3
  <2>7. QED
    BY <2>4, <2>5, <2>6
<1>3. QED
  BY <1>1, <1>2

ScoresOf(p, row) == \A j \in DOMAIN row : p.scores[j] = p.scoring[j - 1]
ScoresInv == req.phase = "topk" => ScoresOf(pass, req.row)

LEMMA DecodeScores ==
  ASSUME ServeInv, ContentInv, ServeInv', ContentInv', NEW T, NEW f, DecodeStart(T, f)
  PROVE  ScoresInv'
<1>1. PICK one \in Nat : one = 1
  OBVIOUS
<1>2. PICK a : a = Allocated(one, T)
  OBVIOUS
<1>3. PICK ph : ph = "topk"
  OBVIOUS
<1>4. PICK row : row = req.row \o a.slots
  OBVIOUS
<1>5. PICK x, c : x = idx' /\ c = scl'
  OBVIOUS
<1>6. PICK live : live = RowScores(f, row, x, c)
  OBVIOUS
<1>7. PICK sc : sc = [j \in 1 .. Width |-> IF j <= Len(row) THEN live[j] ELSE Unscored]
  OBVIOUS
<1>8. req.phase = "decode" /\ Extend(one, T, ph, a) /\ pass' = [scoring |-> f, scores |-> sc]
  BY <1>1, <1>2, <1>3, <1>4, <1>5, <1>6, <1>7, Zenon DEF DecodeStart
<1>9. req' = [phase |-> ph, text |-> req.text, prompt |-> req.prompt,
                matched |-> req.matched, row |-> row]
  <2>1. OwnInv /\ req.phase \in {"prefill", "decode"}
    BY <1>8 DEF ServeInv
  <2>2. req' = [phase |-> ph, text |-> req.text, prompt |-> req.prompt,
              matched |-> req.matched, row |-> req.row \o a.slots]
    BY <1>2, <1>8, <2>1, ExtendHolds
  <2>3. QED
    BY <1>4, <2>2
<1>10. PICK k, w, map, t : k = kv' /\ w = swa' /\ map = swaMap' /\ t = req.text
  OBVIOUS
<1>11. RowReady(row, t, k, w, map) /\ RowHolds(k, x, c, w, map, row, t)
  <2>1. req'.phase = "topk" /\ req'.row = row /\ req'.text = t
    BY <1>3, <1>9, <1>10
  <2>2. OwnInv' /\ RowFits' /\ req'.phase # "none"
    BY <2>1 DEF ServeInv
  <2>3. RowReady(req'.row, req'.text, kv', swa', swaMap') /\ RowHolds(kv', idx', scl', swa', swaMap', req'.row, req'.text)
    BY <2>2, ReadyNext
  <2>4. QED
    BY <1>5, <1>10, <2>1, <2>3
<1>12. DOMAIN row = 1 .. Len(row) /\ Len(row) \in Nat /\ Len(row) <= Width
  BY <1>11, RowIs DEF RowReady
<1>13. \A j \in DOMAIN row : live[j] = f[j - 1]
  BY <1>6, <1>11, KeysRight
<1>14. ASSUME NEW j \in DOMAIN row
       PROVE  sc[j] = f[j - 1]
  <2>1. PICK n \in Nat, v \in Nat : n = Len(row) /\ v = Width /\ n <= v
    BY <1>12, ConstantsAre
  <2>2. j \in 1 .. v /\ j <= n
    BY <1>12, <2>1
  <2>3. sc[j] = live[j]
    BY <1>7, <2>1, <2>2
  <2>4. QED
    BY <1>13, <2>3
<1>15. pass'.scores = sc /\ pass'.scoring = f /\ req'.row = row
  BY <1>8, <1>9
<1>16. QED
  BY <1>14, <1>15 DEF ScoresInv, ScoresOf

LEMMA ScoresKeep ==
  ASSUME ServeInv, ContentInv, ScoresInv, ServeInv', ContentInv', [Next]_vars
  PROVE  ScoresInv'
<1>1. ASSUME DecodeTopk \/ vars' = vars
      PROVE  ScoresInv'
  <2>1. req' = req /\ pass' = pass
    BY <1>1 DEF DecodeTopk, vars
  <2>2. QED
    BY <2>1 DEF ScoresInv, ScoresOf
<1>2. ASSUME NEW t, NEW n, NEW m, Arrive(t, n, m)
      PROVE  ScoresInv'
  <2>1. req'.phase = "prefill"
    BY <1>2 DEF Arrive
  <2>2. QED
    BY <2>1 DEF ScoresInv
<1>3. ASSUME NEW T, NEW f, Prefill(T, f)
      PROVE  ScoresInv'
  <2>1. PICK n, a, ph : /\ Extend(n, T, ph, a) /\ ph \in {"decode", "prefill"}
    <3>1. PICK n : n = Smaller(MaxChunk, req.prompt - Len(req.row))
      OBVIOUS
    <3>2. PICK a : a = Allocated(n, T)
      OBVIOUS
    <3>3. PICK ph : ph = IF Len(req.row \o a.slots) = req.prompt THEN "decode" ELSE "prefill"
      OBVIOUS
    <3>4. Extend(n, T, ph, a)
      BY <1>3, <3>1, <3>2, <3>3, Zenon DEF Prefill
    <3>5. QED
      BY <3>3, <3>4
  <2>2. req' = [req EXCEPT !.row = @ \o a.slots, !.phase = ph]
    BY <2>1, Zenon DEF Extend
  <2>3. req'.phase # "topk"
    BY <2>1, <2>2 DEF ServeInv, OwnInv, ReqTypes
  <2>4. QED
    BY <2>3 DEF ScoresInv
<1>4. ASSUME DecodeAttend
      PROVE  ScoresInv'
  <2>1. req' = [req EXCEPT !.phase = "decode"]
    BY <1>4 DEF DecodeAttend
  <2>2. req'.phase = "decode"
    BY <2>1 DEF ServeInv, OwnInv, ReqTypes
  <2>3. QED
    BY <2>2 DEF ScoresInv
<1>5. ASSUME NEW J, Finish(J)
      PROVE  ScoresInv'
  <2>1. req' = NoReq
    BY <1>5, Zenon DEF Finish
  <2>2. QED
    BY <2>1 DEF ScoresInv, NoReq
<1>6. ASSUME Grow
      PROVE  ScoresInv'
  <2>1. req' = req /\ req.phase # "topk"
    BY <1>6 DEF Grow
  <2>2. QED
    BY <2>1 DEF ScoresInv
<1>7. ASSUME NEW T, Shrink(T)
      PROVE  ScoresInv'
  <2>1. req' = req /\ req.phase = "none"
    BY <1>7, Zenon DEF Shrink, Idle
  <2>2. QED
    BY <2>1 DEF ScoresInv
<1>8. ASSUME NEW S, FreeWindow(S)
       PROVE  ScoresInv'
  <2>1. req' = req /\ pass' = pass
    BY <1>8, Zenon DEF FreeWindow
  <2>2. QED
    BY <2>1 DEF ScoresInv, ScoresOf
<1>9. ASSUME Next
      PROVE  ScoresInv'
  BY <1>1, <1>2, <1>3, <1>4, <1>5, <1>6, <1>7, <1>9, <1>8, DecodeScores DEF Next
<1>10. QED
  BY <1>1, <1>9

LEMMA SeenNext ==
  ASSUME \A i \in DOMAIN seen' : QuerySees(req'.text, seen'[i])
  PROVE  AttendsVisible'
BY Zenon DEF AttendsVisible, QuerySees, WindowSeen, BestSeen

(* What a prefill pass sees, of its parameters.                              *)
PrefillSaw(n, row, prefix, map, keys, f) ==
  \E pick \in [0..(n - 1) -> UNION {TopChoices(keys, prefix + tok, Smaller(TopK, Len(row))) : tok \in 0..(n - 1)}] :
    /\ \A tok \in 0..(n - 1) : pick[tok] \in TopChoices(keys, prefix + tok, Smaller(TopK, Len(row)))
    /\ seen' = [q \in 1..n |->
         [pos |-> prefix + q - 1, scoring |-> f,
          swa |-> At(swa', ExtendReads(Translated(map, row), prefix, n, q - 1, Window)),
          dsa |-> At(kv', PrefillReads(row, prefix, n, q - 1, pick[q - 1]))]]

LEMMA PrefillSees ==
  ASSUME ServeInv, ContentInv, ServeInv', ContentInv', NEW T, NEW f, Prefill(T, f)
  PROVE  AttendsVisible'
<1>1. PICK n : n = Smaller(MaxChunk, req.prompt - Len(req.row))
  OBVIOUS
<1>2. PICK a : a = Allocated(n, T)
  OBVIOUS
<1>3. PICK row, prefix : row = req.row \o a.slots /\ prefix = Len(req.row)
  OBVIOUS
<1>4. PICK ph : ph = IF Len(row) = req.prompt THEN "decode" ELSE "prefill"
  OBVIOUS
<1>5. PICK x, c, map : x = idx' /\ c = scl' /\ map = a.map
  OBVIOUS
<1>6. PICK keys : keys = RowScores(f, row, x, c)
  OBVIOUS
<1>7. req.phase = "prefill" /\ Extend(n, T, ph, a)
  BY <1>1, <1>2, <1>3, <1>4, Zenon DEF Prefill
<1>8. PrefillSaw(n, row, prefix, map, keys, f)
  <2>1. LET pre == Len(req.row)
            m == Smaller(MaxChunk, req.prompt - pre)
            b == Allocated(m, T)
            r == req.row \o b.slots
        IN PrefillSaw(m, r, pre, b.map, RowScores(f, r, idx', scl'), f)
    BY Zenon DEF Prefill, PrefillSaw
  <2>2. QED
    BY <1>1, <1>2, <1>3, <1>5, <1>6, <2>1
<1>9. n \in Nat /\ prefix \in Nat /\ prefix + n <= req.prompt /\ OwnInv /\ req.phase \in {"prefill", "decode"}
  BY <1>1, <1>3, <1>7, DecodeRoom DEF ServeInv, OwnInv, ReqTypes
<1>10. /\ req' = [phase |-> ph, text |-> req.text, prompt |-> req.prompt,
                 matched |-> req.matched, row |-> row]
       /\ swaMap' = map /\ Len(row) = prefix + n /\ Sighted(map, row, prefix - (Window - 1))
  BY <1>2, <1>3, <1>5, <1>7, <1>9, ExtendHolds
<1>11. PICK k, w, t : k = kv' /\ w = swa' /\ t = req'.text
  OBVIOUS
<1>12. RowReady(row, t, k, w, map) /\ RowHolds(k, x, c, w, map, row, t)
  <2>1. req'.row = row /\ req'.phase # "none"
    BY <1>4, <1>10
  <2>2. OwnInv' /\ RowFits'
    BY DEF ServeInv
  <2>3. RowReady(req'.row, req'.text, kv', swa', swaMap') /\ RowHolds(kv', idx', scl', swa', swaMap', req'.row, req'.text)
    BY <2>1, <2>2, ReadyNext
  <2>4. QED
    BY <1>5, <1>10, <1>11, <2>1, <2>3
<1>13. PICK N \in Nat : N = Len(row) /\ N = prefix + n /\ DOMAIN row = 1 .. N
  BY <1>10, <1>12, RowIs
<1>14. DOMAIN keys = 1 .. N /\ \A j \in 1 .. N : keys[j] = f[j - 1]
  BY <1>6, <1>12, <1>13, KeysRight
<1>15. PICK pick : /\ \A tok \in 0..(n - 1) : pick[tok] \in TopChoices(keys, prefix + tok, Smaller(TopK, N))
                   /\ seen' = [q \in 1..n |->
                        [pos |-> prefix + q - 1, scoring |-> f,
                         swa |-> At(w, ExtendReads(Translated(map, row), prefix, n, q - 1, Window)),
                         dsa |-> At(k, PrefillReads(row, prefix, n, q - 1, pick[q - 1]))]]
  BY <1>8, <1>11, <1>13, Zenon DEF PrefillSaw
<1>16. ASSUME NEW q \in 1 .. n
       PROVE  QuerySees(t, seen'[q])
  <2>1. PICK tok \in 0 .. (n - 1), p \in Nat : tok = q - 1 /\ p = prefix + tok /\ p = prefix + q - 1 /\ p + 1 <= N
    <3>1. q - 1 \in 0 .. (n - 1) /\ prefix + (q - 1) \in Nat /\ prefix + (q - 1) = prefix + q - 1
          /\ (prefix + (q - 1)) + 1 <= N
      BY <1>9, <1>13
    <3>2. QED
      BY <3>1
  <2>2. PICK S : S = pick[tok]
    OBVIOUS
  <2>3. S \in TopChoices(keys, p, Smaller(TopK, N))
    BY <1>15, <2>1, <2>2
  <2>4. Best(S, p, f)
    <3>1. \A i \in 1 .. (p + 1) : keys[i] = f[i - 1]
      BY <1>14, <2>1
    <3>2. QED
      BY <1>14, <2>1, <2>3, <3>1, ChoiceBest
  <2>5. \A i \in Places(p, Window) : map[row[i]] # 0
    <3>1. PICK v \in Nat \ {0} : v = Window
      BY AttnAssumption
    <3>2. \A i \in Places(p, Window) : i \in 1 .. N /\ i > prefix - (v - 1)
      BY <1>9, <2>1, <3>1 DEF Places
    <3>3. QED
      BY <1>10, <1>13, <3>1, <3>2 DEF Sighted
  <2>6. /\ WindowSeen(t, p, At(w, ExtendReads(Translated(map, row), prefix, n, tok, Window)))
        /\ BestSeen(t, p, f, At(k, PrefillReads(row, prefix, n, tok, S)))
    BY <1>9, <1>10, <1>12, <2>1, <2>4, <2>5, PrefillQuery
  <2>7. PICK e : e = seen'[q]
    OBVIOUS
  <2>8. e = [pos |-> p, scoring |-> f,
             swa |-> At(w, ExtendReads(Translated(map, row), prefix, n, tok, Window)),
             dsa |-> At(k, PrefillReads(row, prefix, n, tok, S))]
    BY <1>15, <2>1, <2>2, <2>7
  <2>9. QuerySees(t, e)
    BY <2>6, <2>8 DEF QuerySees
  <2>10. QED
    BY <2>7, <2>9
<1>17. DOMAIN seen' = 1 .. n
  BY <1>15
<1>18. \A i \in DOMAIN seen' : QuerySees(req'.text, seen'[i])
  BY <1>11, <1>16, <1>17
<1>19. QED
  BY <1>18, SeenNext

(* What a decode pass sees once its selection is done.                       *)
LEMMA DecodeSees ==
  ASSUME ServeInv, ContentInv, ScoresInv, DecodeAttend
  PROVE  AttendsVisible'
<1>1. PICK row, t, f, sc : row = req.row /\ t = req.text /\ f = pass.scoring /\ sc = pass.scores
  OBVIOUS
<1>2. PICK k, w, map, sel : k = kv /\ w = swa /\ map = swaMap /\ sel = tk.sel
  OBVIOUS
<1>3. req.phase = "topk" /\ tk.stage = "done" /\ req' = [req EXCEPT !.phase = "decode"]
  BY DEF DecodeAttend
<1>4. OwnInv /\ RowFits
  BY DEF ServeInv
<1>5. RowReady(row, t, k, w, map)
  BY <1>1, <1>2, <1>3, <1>4, ReadyNow
<1>6. PICK s, q : s = pass.scores /\ q = req.row /\ TopkInv(s, q)
  BY <1>3 DEF ServeInv, TopkUnderWay
<1>7. PICK n \in Nat \ {0} : n = Len(row) /\ n = tk.n /\ DOMAIN row = 1 .. n
  <2>1. tk.n = Len(row) /\ tk.n \in 1 .. Width
    BY <1>1, <1>6 DEF TopkInv, KeysOf
  <2>2. DOMAIN row = 1 .. Len(row) /\ Len(row) \in Nat
    BY <1>5, RowIs
  <2>3. PICK m \in Nat \ {0} : m = tk.n
    <3>1. Width \in Nat
      BY ConstantsAre
    <3>2. tk.n \in Nat \ {0}
      BY <2>1, <3>1
    <3>3. QED
      BY <3>2
  <2>4. QED
    BY <2>1, <2>2, <2>3
<1>8. RowApart(row, n)
  <2>1. \A i \in 1 .. n : row[i] # NoSlot
    BY <1>5, <1>7, RowIs
  <2>2. NoTwice(row)
    BY <1>5 DEF RowReady
  <2>3. QED
    BY <1>7, <2>1, <2>2 DEF RowApart, NoTwice
<1>9. TopkExact(sc, row)
  BY <1>1, <1>3, SelectionShown DEF SelectionExact
<1>10. PICK p \in Nat : n = p + 1 /\ p = n - 1
  BY <1>7
<1>11. \A i \in 1 .. n : sc[i] = f[i - 1]
  <2>1. ScoresOf(pass, req.row)
    BY <1>3 DEF ScoresInv
  <2>2. QED
    BY <1>1, <1>7, <2>1 DEF ScoresOf
<1>12. PICK C : Best(C, p, f) /\ Selects1(sel, row, C)
  <2>1. tk.n = n
    BY <1>7
  <2>2. \E C : Best(C, p, f) /\ Selects1(tk.sel, row, C)
    BY <1>3, <1>8, <1>9, <1>10, <1>11, <2>1, DoneSelects
  <2>3. QED
    BY <1>2, <2>2
<1>13. sel = [i \in 1 .. TopK |-> sel[i]]
  BY <1>2 DEF ServeInv, TkShape
<1>14. PICK ws, ds : /\ ws = At(w, DecodeReads(WindowList(Translated(map, row), p), BlockN \div 2))
                     /\ ds = At(k, DecodeReads(sel, BlockN))
  OBVIOUS
<1>15. WindowSeen(t, p, ws) /\ BestSeen(t, p, f, ds)
  <2>1. Len(row) = p + 1
    BY <1>7, <1>10
  <2>2. \A i \in Places(p, Window) : map[row[i]] # 0
    <3>1. PICK v \in Nat \ {0} : v = Window
      BY AttnAssumption
    <3>2. \A i \in Places(p, Window) : i \in Near(n, v)
      BY <1>10, <3>1 DEF Places, Near
    <3>3. \A i \in Near(n, v) : map[row[i]] # 0
      BY <1>1, <1>2, <1>3, <1>4, <1>7, <3>1 DEF OwnInv, NeedsKept, Reach
    <3>4. QED
      BY <3>2, <3>3
  <2>3. QED
    BY <1>5, <1>12, <1>13, <1>14, <2>1, <2>2, DecodeQuery
<1>16. PICK e : e = [pos |-> p, scoring |-> f, swa |-> ws, dsa |-> ds]
  OBVIOUS
<1>17. seen' = <<e>>
  <2>1. PICK pp : pp = Len(req.row) - 1
    OBVIOUS
  <2>2. seen' = << [pos |-> pp, scoring |-> pass.scoring,
                    swa |-> At(swa, DecodeReads(WindowList(Translated(swaMap, req.row), pp), BlockN \div 2)),
                    dsa |-> At(kv, DecodeReads(tk.sel, BlockN))] >>
    BY <2>1, Zenon DEF DecodeAttend
  <2>3. pp = p
    BY <1>1, <1>7, <1>10, <2>1
  <2>4. QED
    BY <1>1, <1>2, <1>14, <1>16, <2>2, <2>3
<1>18. QuerySees(t, e)
  BY <1>15, <1>16 DEF QuerySees
<1>19. req'.text = t
  BY <1>1, <1>3, <1>4 DEF OwnInv, ReqTypes
<1>20. \A i \in DOMAIN seen' : QuerySees(req'.text, seen'[i])
  BY <1>17, <1>18, <1>19
<1>21. QED
  BY <1>20, SeenNext

(* The invariant of what a pass read.                                        *)
AttendInv == ServeInv /\ ContentInv /\ ScoresInv /\ AttendsVisible

LEMMA AttendStart == Init => AttendInv
<1>1. SUFFICES ASSUME Init
               PROVE  AttendInv
  OBVIOUS
<1>2. seen = <<>> /\ req = NoReq
  BY <1>1 DEF Init
<1>3. ScoresInv
  BY <1>2 DEF ScoresInv, NoReq
<1>4. AttendsVisible
  <2>1. DOMAIN seen = {}
    BY <1>2
  <2>2. QED
    BY <2>1, SeenIs
<1>5. QED
  BY <1>1, <1>3, <1>4, ServeInitial, ContentStart DEF AttendInv

LEMMA AttendKeeps ==
  ASSUME AttendInv, [Next]_vars
  PROVE  AttendInv'
<1>1. ServeInv /\ ContentInv /\ ScoresInv /\ AttendsVisible /\ OwnInv
  BY DEF AttendInv, ServeInv
<1>2. ServeInv' /\ ContentInv'
  BY <1>1, ServeKeeps, ContentKeeps
<1>3. ScoresInv'
  BY <1>1, <1>2, ScoresKeep
<1>4. ASSUME seen' = <<>>
      PROVE  AttendsVisible'
  <2>1. \A i \in DOMAIN seen' : QuerySees(req'.text, seen'[i])
    <3>1. DOMAIN seen' = {}
      BY <1>4
    <3>2. QED
      BY <3>1
  <2>2. QED
    BY <2>1, SeenNext
<1>5. ASSUME DecodeTopk \/ vars' = vars
      PROVE  AttendsVisible'
  <2>1. seen' = seen /\ req' = req
    BY <1>5 DEF DecodeTopk, vars
  <2>2. \A i \in DOMAIN seen : QuerySees(req.text, seen[i])
    BY <1>1, SeenOf
  <2>3. \A i \in DOMAIN seen' : QuerySees(req'.text, seen'[i])
    BY <2>1, <2>2
  <2>4. QED
    BY <2>3, SeenNext
<1>6. ASSUME NEW T, NEW f, Prefill(T, f)
      PROVE  AttendsVisible'
  BY <1>1, <1>2, <1>6, PrefillSees
<1>7. ASSUME NEW T, NEW f, DecodeStart(T, f)
      PROVE  AttendsVisible'
  <2>1. seen' = <<>>
    BY <1>7, Zenon DEF DecodeStart
  <2>2. QED
    BY <1>4, <2>1
<1>8. ASSUME DecodeAttend
      PROVE  AttendsVisible'
  BY <1>1, <1>8, DecodeSees
<1>9. ASSUME \/ \E t \in Texts, n \in 1..MaxPrompt : \E m \in 0..(n - 1) : Arrive(t, n, m)
             \/ Grow \/ \E J \in SUBSET (1..Width) : Finish(J)
             \/ FreeWindow(Range(req.row)) \/ \E t \in Texts : FreeWindow(Range(cache[t]))
             \/ \E T \in SUBSET Texts : Shrink(T)
      PROVE  AttendsVisible'
  <2>1. seen' = <<>>
    BY <1>9, Zenon DEF Arrive, Finish, Grow, FreeWindow, Shrink
  <2>2. QED
    BY <1>4, <2>1
<1>10. ASSUME Next
       PROVE  AttendsVisible'
  BY <1>5, <1>6, <1>7, <1>8, <1>9, <1>10, Zenon DEF Next
<1>11. AttendsVisible'
  BY <1>5, <1>10
<1>12. QED
  BY <1>2, <1>3, <1>11 DEF AttendInv

(* Whatever the texts, the pool's geometry, the lengths of the kernels'      *)
(* tiles and the stream of requests, a query reads each key it may see, once, *)
(* and no other, and the keys are its own text's: in a window layer the last *)
(* Window positions, in a selecting layer the best TopK of those so far      *)
(* (naive_forward, attention/naive.py:97, and the kernels it launches).      *)
THEOREM QueriesAttendVisible == Spec => []AttendsVisible
<1>1. Init => AttendInv
  BY AttendStart
<1>2. AttendInv /\ [Next]_vars => AttendInv'
  BY AttendKeeps
<1>3. AttendInv => AttendsVisible
  BY DEF AttendInv
<1>4. QED
  BY <1>1, <1>2, <1>3, PTL DEF Spec
=============================================================================
