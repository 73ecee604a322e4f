---------------------------- MODULE DsaTopkProofs ----------------------------
(* The radix top-k of a decode step is exact for any width, tile, digit size *)
(* and number of passes, whatever the order the programs of a launch run in; *)
(* and the lists of slots the attention kernels read hold each one once.     *)
EXTENDS DsaTopk, FiniteSetTheorems, FunctionTheorems, SequenceTheorems, TLAPS

-----------------------------------------------------------------------------
(* Finite sets of integers: ranks, and least members, which stand for        *)
(* induction.                                                                *)

(* They have the ranks 0, 1, ..., each exactly once.                        *)
LEMMA Ranks ==
  ASSUME NEW f \in SUBSET Int, IsFiniteSet(f)
  PROVE  /\ \A p, q \in f : p < q => Cardinality({x \in f : x < p}) < Cardinality({x \in f : x < q})
         /\ \A k \in Nat : k < Cardinality(f) =>
              \E p \in f : Cardinality({x \in f : x < p}) = k
<1> DEFINE Below(p) == {x \in f : x < p}
           Pos == [p \in f |-> Cardinality(Below(p))]
<1>1. ASSUME NEW p \in f
      PROVE  IsFiniteSet(Below(p)) /\ Cardinality(Below(p)) \in Nat
  BY FS_Subset, FS_CardinalityType
<1>2. ASSUME NEW p \in f, NEW q \in f, p < q
      PROVE  Cardinality(Below(p)) < Cardinality(Below(q))
  <2>1. Below(p) \subseteq Below(q) /\ p \in Below(q) /\ p \notin Below(p)
    <3>1. ASSUME NEW x \in f, x < p
          PROVE  x < q
      BY <1>2, <3>1
    <3>2. ~ (p < p)
      OBVIOUS
    <3>3. QED
      BY <1>2, <3>1, <3>2
  <2> HIDE DEF Below
  <2>2. /\ Cardinality(Below(p)) <= Cardinality(Below(q))
        /\ Cardinality(Below(q)) = Cardinality(Below(p)) => Below(q) = Below(p)
    BY <1>1, <2>1, FS_Subset
  <2>3. QED
    BY <1>1, <2>1, <2>2
<1>3. ASSUME NEW p \in f
      PROVE  Cardinality(Below(p)) < Cardinality(f)
  <2>1. Below(p) \subseteq f /\ p \in f /\ p \notin Below(p)
    OBVIOUS
  <2> HIDE DEF Below
  <2>2. /\ Cardinality(Below(p)) <= Cardinality(f)
        /\ Cardinality(f) = Cardinality(Below(p)) => f = Below(p)
    BY <2>1, FS_Subset
  <2>3. QED
    BY <1>1, <2>1, <2>2, FS_CardinalityType
<1>4. PICK n \in Nat : n = Cardinality(f)
  BY FS_CardinalityType
<1>5. IsFiniteSet(0 .. (n - 1)) /\ Cardinality(0 .. (n - 1)) = n
  BY FS_Interval
<1> HIDE DEF Below
<1>6. Pos \in [f -> 0 .. (n - 1)]
  BY <1>1, <1>3, <1>4
<1>7. \A p, q \in f : Pos[p] = Pos[q] => p = q
  BY <1>1, <1>2
<1>8. PICK N : N = 0 .. (n - 1)
  OBVIOUS
<1> HIDE DEF Pos
<1>9. Pos \in Injection(f, N)
  BY <1>6, <1>7, <1>8, Fun_IsInj
<1>10. Pos \in Surjection(f, N)
  BY <1>4, <1>5, <1>8, <1>9, FS_Injection
<1>11. \A k \in N : \E p \in f : Pos[p] = k
  BY <1>10, Fun_SurjectionProperties
<1>12. ASSUME NEW k \in Nat, k < Cardinality(f)
       PROVE  \E p \in f : Cardinality(Below(p)) = k
  <2>1. k \in N
    BY <1>4, <1>8, <1>12
  <2>2. QED
    BY <1>11, <2>1 DEF Pos
<1>13. QED
  BY <1>2, <1>12 DEF Below

LEMMA Least ==
  ASSUME NEW f \in SUBSET Int, IsFiniteSet(f), f # {}
  PROVE  \E p \in f : \A x \in f : p <= x
<1>1. Cardinality(f) \in Nat /\ Cardinality(f) # 0
  BY FS_CardinalityType, FS_EmptySet
<1>2. PICK p \in f : Cardinality({x \in f : x < p}) = 0
  <2>1. 0 \in Nat /\ 0 < Cardinality(f)
    BY <1>1
  <2>2. QED
    BY <2>1, Ranks
<1>3. IsFiniteSet({x \in f : x < p})
  BY FS_Subset
<1>4. {x \in f : x < p} = {}
  BY <1>2, <1>3, FS_EmptySet
<1>5. QED
  BY <1>4

(* A set that holds 0 and every successor of a member below k reaches k.    *)
LEMMA UpTo ==
  ASSUME NEW T, NEW k \in Nat, 0 \in T, \A n \in 0..(k - 1) : n \in T => n + 1 \in T
  PROVE  \A n \in 0..k : n \in T
<1> SUFFICES ASSUME NEW q \in 0..k, q \notin T
             PROVE  FALSE
  OBVIOUS
<1> DEFINE U == {n \in 0..k : n \notin T}
<1>1. U \in SUBSET Nat /\ U # {}
  OBVIOUS
<1>2. PICK n \in U : \A m \in U : n <= m
  <2>1. IsFiniteSet(0 .. k)
    BY FS_Interval
  <2>2. IsFiniteSet(U) /\ U \in SUBSET Int
    BY <2>1, FS_Subset
  <2> HIDE DEF U
  <2>3. QED
    BY <1>1, <2>2, Least
<1>3. n # 0 /\ n - 1 \in 0..(k - 1) /\ n - 1 \notin U
  BY <1>2
<1>4. QED
  BY <1>2, <1>3

-----------------------------------------------------------------------------
(* Counting.                                                                 *)

(* The values of a function on a finite set are no more than its arguments. *)
LEMMA ImageSize ==
  ASSUME NEW S, IsFiniteSet(S), NEW F, F = [x \in S |-> F[x]],
         NEW T, \A y \in T : \E x \in S : F[x] = y
  PROVE  IsFiniteSet(T) /\ Cardinality(T) <= Cardinality(S)
<1>1. PICK V : V = {F[x] : x \in S}
  OBVIOUS
<1>2. F \in [S -> V] /\ \A y \in V : \E x \in S : F[x] = y
  BY <1>1
<1>3. F \in Surjection(S, V)
  BY <1>2, Fun_IsSurj
<1>4. IsFiniteSet(V) /\ Cardinality(V) <= Cardinality(S)
  BY <1>3, FS_Surjection
<1>5. T \subseteq V
  BY <1>1
<1>6. IsFiniteSet(T) /\ Cardinality(T) <= Cardinality(V)
  BY <1>4, <1>5, FS_Subset
<1>7. Cardinality(T) \in Nat /\ Cardinality(V) \in Nat /\ Cardinality(S) \in Nat
  BY <1>4, <1>6, FS_CardinalityType
<1>8. QED
  BY <1>4, <1>6, <1>7

LEMMA DisjointSize ==
  ASSUME NEW A, NEW B, NEW C, IsFiniteSet(C), A \subseteq C, B \subseteq C, A \cap B = {}
  PROVE  /\ IsFiniteSet(A) /\ IsFiniteSet(B) /\ Cardinality(A) \in Nat /\ Cardinality(B) \in Nat
         /\ Cardinality(C) \in Nat /\ Cardinality(A) + Cardinality(B) <= Cardinality(C)
<1>1. PICK U : U = A \cup B
  OBVIOUS
<1>2. IsFiniteSet(A) /\ IsFiniteSet(B)
  BY FS_Subset
<1>3. PICK E : E = A \cap B
  OBVIOUS
<1>4. IsFiniteSet(U) /\ Cardinality(U) = Cardinality(A) + Cardinality(B) - Cardinality(E)
  BY <1>1, <1>2, <1>3, FS_Union
<1>5. Cardinality(E) = 0
  BY <1>3, FS_EmptySet
<1>6. U \subseteq C
  BY <1>1
<1>7. Cardinality(U) <= Cardinality(C)
  BY <1>6, FS_Subset
<1>8. Cardinality(A) \in Nat /\ Cardinality(B) \in Nat /\ Cardinality(C) \in Nat
      /\ Cardinality(U) \in Nat
  BY <1>2, <1>4, FS_CardinalityType
<1>9. QED
  BY <1>2, <1>4, <1>5, <1>7, <1>8

LEMMA IntervalSize ==
  ASSUME NEW n \in Nat
  PROVE  IsFiniteSet(0 .. (n - 1)) /\ Cardinality(0 .. (n - 1)) = n
<1>1. 0 \in Int /\ n - 1 \in Int
  OBVIOUS
<1>2. IsFiniteSet(0 .. (n - 1)) /\ Cardinality(0 .. (n - 1)) = IF 0 > n - 1 THEN 0 ELSE (n - 1) - 0 + 1
  BY <1>1, FS_Interval
<1>3. QED
  BY <1>2

-----------------------------------------------------------------------------
(* Quotients.                                                                *)

LEMMA DivMod ==
  ASSUME NEW a \in Int, NEW D \in Nat \ {0}
  PROVE  /\ a \div D \in Int /\ a % D \in 0..(D - 1)
         /\ a = D * (a \div D) + (a % D)
  OBVIOUS

LEMMA TimesSwaps ==
  ASSUME NEW a \in Int, NEW b \in Int
  PROVE  a * b \in Int /\ a * b = b * a
OBVIOUS

LEMMA Multiples ==
  ASSUME NEW D \in Nat \ {0}, NEW k \in Int, NEW l \in Int, k < l
  PROVE  D * k + D <= D * l
<1>1. PICK t \in Nat : l = k + 1 + t
  <2>1. l - k - 1 \in Nat /\ l = k + 1 + (l - k - 1)
    OBVIOUS
  <2>2. QED
    BY <2>1
<1>2. D * t >= 0
  OBVIOUS
<1>3. D * (k + 1 + t) = D * k + D + D * t
  OBVIOUS
<1>4. QED
  BY <1>1, <1>2, <1>3

(* A number has one quotient and one remainder.                             *)
LEMMA DivUnique ==
  ASSUME NEW D \in Nat \ {0}, NEW a \in Int, NEW k \in Int, NEW c \in 0..(D - 1), a = D * k + c
  PROVE  a \div D = k /\ a % D = c
<1>1. a \div D \in Int /\ a % D \in 0..(D - 1) /\ a = D * (a \div D) + (a % D)
  BY DivMod
<1>2. ~(a \div D < k)
  <2>1. SUFFICES ASSUME a \div D < k
                 PROVE  FALSE
    OBVIOUS
  <2>2. D * (a \div D) + D <= D * k
    BY <1>1, <2>1, Multiples
  <2>3. QED
    BY <1>1, <2>2
<1>3. ~(k < a \div D)
  <2>1. SUFFICES ASSUME k < a \div D
                 PROVE  FALSE
    OBVIOUS
  <2>2. D * k + D <= D * (a \div D)
    BY <1>1, <2>1, Multiples
  <2>3. QED
    BY <1>1, <2>2
<1>4. a \div D = k
  BY <1>1, <1>2, <1>3
<1>5. QED
  BY <1>1, <1>4


-----------------------------------------------------------------------------
(* A sum over a finite set: that the fold's recursive function exists is     *)
(* shown by giving its value, the size of what the parts hold together.      *)

Joined(S, A) == UNION {A[x] : x \in S}
Parts(S, f, A) ==
  /\ \A x \in S : IsFiniteSet(A[x]) /\ f[x] = Cardinality(A[x])
  /\ \A x, y \in S : x # y => A[x] \cap A[y] = {}

LEMMA JoinedFinite ==
  ASSUME NEW S, IsFiniteSet(S), NEW A, \A x \in S : IsFiniteSet(A[x])
  PROVE  IsFiniteSet(Joined(S, A))
<1>1. PICK V : V = {A[x] : x \in S}
  OBVIOUS
<1>2. IsFiniteSet(V)
  <2>1. PICK F : F = [x \in S |-> A[x]]
    OBVIOUS
  <2>2. F = [x \in S |-> F[x]] /\ \A T \in V : \E x \in S : F[x] = T
    BY <1>1, <2>1
  <2>3. QED
    BY <2>2, ImageSize
<1>3. \A T \in V : IsFiniteSet(T)
  BY <1>1
<1>4. IsFiniteSet(UNION V)
  BY <1>2, <1>3, FS_UNION
<1>5. QED
  BY <1>1, <1>4 DEF Joined

LEMMA SumIs ==
  ASSUME NEW S, IsFiniteSet(S), NEW f, NEW A, Parts(S, f, A)
  PROVE  SumFunctionOnSet(f, S) = Cardinality(Joined(S, A)) /\ IsFiniteSet(Joined(S, A))
<1> DEFINE Val(h, T) == IF T = {} THEN 0
                        ELSE f[CHOOSE x \in T : TRUE] + h[T \ {CHOOSE x \in T : TRUE}]
<1>1. PICK g : g = [T \in SUBSET S |-> Cardinality(Joined(T, A))]
  OBVIOUS
<1>2. ASSUME NEW T \in SUBSET S, T # {}, NEW x \in T
      PROVE  Cardinality(Joined(T, A)) = f[x] + Cardinality(Joined(T \ {x}, A))
  <2>1. PICK J, B : J = Joined(T \ {x}, A) /\ B = A[x]
    OBVIOUS
  <2>2. IsFiniteSet(J)
    <3>1. PICK U : U = T \ {x}
      OBVIOUS
    <3>2. IsFiniteSet(U) /\ \A y \in U : IsFiniteSet(A[y])
      BY <3>1, FS_Subset DEF Parts
    <3>3. QED
      BY <2>1, <3>1, <3>2, JoinedFinite
  <2>3. IsFiniteSet(B) /\ f[x] = Cardinality(B)
    BY <2>1 DEF Parts
  <2>4. J \cap B = {}
    <3>1. SUFFICES ASSUME NEW e, e \in J, e \in B
                   PROVE  FALSE
      OBVIOUS
    <3>2. PICK y \in T \ {x} : e \in A[y]
      BY <2>1, <3>1, Zenon DEF Joined
    <3>3. A[x] \cap A[y] = {}
      BY <3>2 DEF Parts
    <3>4. QED
      BY <2>1, <3>1, <3>2, <3>3
  <2>5. Joined(T, A) = J \cup B
    <3>1. ASSUME NEW e
          PROVE  e \in Joined(T, A) <=> e \in J \/ e \in B
      BY <2>1 DEF Joined
    <3>2. QED
      BY <3>1
  <2>6. PICK E, U : E = J \cap B /\ U = J \cup B
    OBVIOUS
  <2>7. Cardinality(U) = Cardinality(J) + Cardinality(B) - Cardinality(E)
    BY <2>2, <2>3, <2>6, FS_Union
  <2>8. Cardinality(E) = 0
    BY <2>4, <2>6, FS_EmptySet
  <2>9. Cardinality(J) \in Nat /\ Cardinality(B) \in Nat
    BY <2>2, <2>3, FS_CardinalityType
  <2>10. QED
    BY <2>1, <2>3, <2>5, <2>6, <2>7, <2>8, <2>9
<1>3. Joined({}, A) = {}
  BY Zenon DEF Joined
<1>4. \A T \in SUBSET S : g[T] = Val(g, T)
  <2>1. ASSUME NEW T \in SUBSET S, T = {}
        PROVE  g[T] = 0
    <3>1. Cardinality(Joined({}, A)) = 0
      BY <1>3, FS_EmptySet
    <3>2. QED
      BY <1>1, <2>1, <3>1
  <2>2. ASSUME NEW T \in SUBSET S, T # {}
        PROVE  g[T] = f[CHOOSE x \in T : TRUE] + g[T \ {CHOOSE x \in T : TRUE}]
    <3>1. PICK x \in T : x = CHOOSE y \in T : TRUE
      BY <2>2
    <3>2. T \ {x} \in SUBSET S
      OBVIOUS
    <3>3. g[T] = f[x] + g[T \ {x}]
      BY <1>1, <1>2, <2>2, <3>2
    <3>4. QED
      BY <3>1, <3>3
  <2>3. QED
    BY <2>1, <2>2
<1>5. PICK iter : /\ iter = [T \in SUBSET S |-> Val(iter, T)]
                  /\ SumFunctionOnSet(f, S) = iter[S]
  <2> DEFINE i[T \in SUBSET S] ==
        IF T = {} THEN 0 ELSE f[CHOOSE x \in T : TRUE] + i[T \ {CHOOSE x \in T : TRUE}]
  <2>1. SumFunctionOnSet(f, S) = i[S]
    BY Zenon DEF SumFunctionOnSet, FoldFunctionOnSet, MapThenFoldSet
  <2>2. i = CHOOSE h : h = [T \in SUBSET S |-> Val(h, T)]
    OBVIOUS
  <2> HIDE DEF i
  <2>3. g = [T \in SUBSET S |-> g[T]]
    BY <1>1
  <2> HIDE DEF Val
  <2>4. g = [T \in SUBSET S |-> Val(g, T)]
    BY <1>4, <2>3
  <2>5. i = [T \in SUBSET S |-> Val(i, T)]
    BY <2>2, <2>4
  <2>6. QED
    BY <2>1, <2>5
<1>6. PICK n \in Nat : n = Cardinality(S)
  BY FS_CardinalityType
<1> DEFINE Bad == {k \in 0 .. n : \E T \in SUBSET S : Cardinality(T) = k /\ iter[T] # g[T]}
<1>7. Bad = {}
  <2>1. SUFFICES ASSUME Bad # {}
                 PROVE  FALSE
    OBVIOUS
  <2>2. IsFiniteSet(Bad) /\ Bad \in SUBSET Int
    <3>1. IsFiniteSet(0 .. n)
      BY FS_Interval
    <3>2. QED
      BY <3>1, FS_Subset
  <2>3. PICK k \in Bad : \A m \in Bad : k <= m
    <3> HIDE DEF Bad
    <3>1. QED
      BY <2>1, <2>2, Least
  <2>4. PICK T \in SUBSET S : Cardinality(T) = k /\ iter[T] # g[T]
    BY <2>3
  <2>5. T # {}
    <3>1. ASSUME T = {}
          PROVE  FALSE
      <4>1. iter[T] = 0 /\ g[T] = 0
        BY <1>4, <1>5, <3>1
      <4>2. QED
        BY <2>4, <4>1
    <3>2. QED
      BY <3>1
  <2>6. PICK x \in T : x = CHOOSE y \in T : TRUE
    BY <2>5
  <2>7. PICK U \in SUBSET S : U = T \ {x}
    OBVIOUS
  <2>8. IsFiniteSet(T) /\ Cardinality(U) = k - 1 /\ k \in Nat
    <3>1. IsFiniteSet(T)
      BY FS_Subset
    <3>2. Cardinality(U) = Cardinality(T) - 1
      BY <2>7, <3>1, FS_RemoveElement
    <3>3. QED
      BY <2>3, <2>4, <3>1, <3>2
  <2>9. Cardinality(U) \in Nat
    BY <2>7, <2>8, FS_Subset, FS_CardinalityType
  <2>10. k - 1 \notin Bad /\ k - 1 \in 0 .. n
    BY <2>3, <2>8, <2>9
  <2>11. iter[U] = g[U]
    BY <2>8, <2>10
  <2>12. iter[T] = f[x] + iter[U] /\ g[T] = f[x] + g[U]
    <3>1. iter[T] = Val(iter, T) /\ g[T] = Val(g, T)
      BY <1>4, <1>5
    <3>2. QED
      BY <2>5, <2>6, <2>7, <3>1
  <2>13. QED
    BY <2>4, <2>11, <2>12
<1>8. iter[S] = g[S]
  <2>1. n \in 0 .. n /\ S \in SUBSET S
    OBVIOUS
  <2>2. QED
    BY <1>6, <1>7, <2>1
<1>9. g[S] = Cardinality(Joined(S, A))
  BY <1>1
<1>10. \A x \in S : IsFiniteSet(A[x])
  BY DEF Parts
<1>11. IsFiniteSet(Joined(S, A))
  BY <1>10, JoinedFinite
<1>12. QED
  BY <1>5, <1>8, <1>9, <1>11


-----------------------------------------------------------------------------
(* Digits of a key.                                                          *)

LEMMA ConstantsAre ==
  /\ Width \in Nat \ {0} /\ Block \in Nat \ {0} /\ TopK \in Nat \ {0} /\ TopK <= Block
  /\ Passes \in Nat \ {0} /\ Base \in Nat \ {0, 1}
BY TopkAssumption, AttnAssumption

LEMMA PowerIs ==
  /\ Power[0] = 1
  /\ \A k \in 1 .. Passes : Power[k] = Base * Power[k - 1]
  /\ \A k \in 0 .. Passes : Power[k] \in Nat \ {0}
<1> USE ConstantsAre
<1> DEFINE Val(h, k) == IF k = 0 THEN 1 ELSE Base * h[k - 1]
           T == {k \in 0 .. Passes : \E h : h = [i \in 0 .. k |-> Val(h, i)]}
<1>1. 0 \in T
  <2>1. PICK h : h = [i \in 0 .. 0 |-> 1]
    OBVIOUS
  <2>2. h = [i \in 0 .. 0 |-> Val(h, i)]
    BY <2>1
  <2>3. 0 \in 0 .. Passes
    OBVIOUS
  <2> HIDE DEF Val
  <2>4. QED
    BY <2>2, <2>3
<1>2. ASSUME NEW k \in 0 .. (Passes - 1), k \in T
      PROVE  k + 1 \in T
  <2>1. PICK f : f = [i \in 0 .. k |-> Val(f, i)]
    BY <1>2
  <2> DEFINE g == [i \in 0 .. (k + 1) |-> IF i \in 0 .. k THEN f[i] ELSE Base * f[k]]
  <2>2. \A i \in 0 .. (k + 1) : g[i] = Val(g, i)
    <3>1. ASSUME NEW i \in 0 .. k
          PROVE  g[i] = Val(g, i)
      <4>1. g[i] = Val(f, i)
        BY <2>1
      <4>2. i # 0 => i - 1 \in 0 .. k /\ i - 1 \in 0 .. (k + 1)
        OBVIOUS
      <4>3. i # 0 => g[i - 1] = f[i - 1]
        BY <4>2
      <4>4. QED
        BY <4>1, <4>3
    <3>2. g[k + 1] = Val(g, k + 1)
      <4>1. k \in 0 .. (k + 1) /\ k + 1 \in 0 .. (k + 1) /\ k + 1 \notin 0 .. k
            /\ (k + 1) - 1 = k /\ k + 1 # 0
        OBVIOUS
      <4>2. g[k + 1] = Base * f[k] /\ g[k] = f[k]
        BY <4>1
      <4>3. QED
        BY <4>1, <4>2
    <3>3. \A i \in 0 .. (k + 1) : i \in 0 .. k \/ i = k + 1
      OBVIOUS
    <3> HIDE DEF g, Val
    <3>4. QED
      BY <3>1, <3>2, <3>3
  <2>3. g = [i \in 0 .. (k + 1) |-> g[i]]
    OBVIOUS
  <2> HIDE DEF g
  <2>4. g = [i \in 0 .. (k + 1) |-> Val(g, i)]
    BY <2>2, <2>3
  <2>5. k + 1 \in 0 .. Passes
    OBVIOUS
  <2>6. QED
    BY <2>4, <2>5
<1>3. Passes \in T
  <2> HIDE DEF T
  <2>1. \A k \in 0 .. (Passes - 1) : k \in T => k + 1 \in T
    BY <1>2
  <2>2. Passes \in 0 .. Passes
    OBVIOUS
  <2>3. QED
    BY <1>1, <2>1, <2>2, UpTo
<1>4. PICK f : f = [k \in 0 .. Passes |-> Val(f, k)]
  BY <1>3
<1>5. Power = CHOOSE h : h = [k \in 0 .. Passes |-> Val(h, k)]
  BY DEF Power
<1> HIDE DEF Val
<1>6. Power = [k \in 0 .. Passes |-> Val(Power, k)]
  BY <1>4, <1>5
<1>7. \A k \in 0 .. Passes : Power[k] = Val(Power, k)
  BY <1>6
<1>8. Power[0] = 1 /\ \A k \in 1 .. Passes : Power[k] = Base * Power[k - 1]
  <2>1. Power[0] = Val(Power, 0) /\ \A k \in 1 .. Passes : Power[k] = Val(Power, k)
    BY <1>7
  <2>2. QED
    BY <2>1 DEF Val
<1>9. PICK P : P = Power
  OBVIOUS
<1> DEFINE N == {k \in 0 .. Passes : P[k] \in Nat \ {0}}
<1>10. \A k \in 0 .. Passes : k \in N
  <2>1. 0 \in N
    BY <1>8, <1>9
  <2>2. ASSUME NEW k \in 0 .. (Passes - 1), k \in N
        PROVE  k + 1 \in N
    <3>1. P[k + 1] = Base * P[k]
      <4>1. k + 1 \in 1 .. Passes /\ (k + 1) - 1 = k
        OBVIOUS
      <4>2. P[k + 1] = Base * P[(k + 1) - 1]
        BY <1>8, <1>9, <4>1
      <4>3. QED
        BY <4>1, <4>2
    <3>2. PICK a \in Nat \ {0} : a = P[k]
      BY <2>2
    <3>3. Base * a \in Nat \ {0}
      OBVIOUS
    <3>4. k + 1 \in 0 .. Passes
      OBVIOUS
    <3>5. QED
      BY <3>1, <3>2, <3>3, <3>4
  <2> HIDE DEF N
  <2>3. QED
    BY <2>1, <2>2, UpTo
<1>11. QED
  BY <1>8, <1>9, <1>10

(* A key's prefix grows by one digit with every pass, from nothing to the    *)
(* whole key.                                                                *)
LEMMA PrefixNext ==
  ASSUME NEW key \in Nat, NEW pass \in 1 .. Passes
  PROVE  /\ Prefix(key, pass - 1) \in Nat /\ Digit(key, pass) \in 0 .. (Base - 1)
         /\ Prefix(key, pass) = Base * Prefix(key, pass - 1) + Digit(key, pass)
<1> USE ConstantsAre
<1>1. PICK w \in Nat \ {0}, W \in Nat \ {0} :
        w = Power[Passes - pass] /\ W = Power[Passes - (pass - 1)] /\ W = Base * w
  <2>1. Passes - pass \in 0 .. Passes /\ Passes - (pass - 1) \in 1 .. Passes
        /\ Passes - (pass - 1) \in 0 .. Passes /\ (Passes - (pass - 1)) - 1 = Passes - pass
    OBVIOUS
  <2>2. Power[Passes - pass] \in Nat \ {0} /\ Power[Passes - (pass - 1)] \in Nat \ {0}
        /\ Power[Passes - (pass - 1)] = Base * Power[(Passes - (pass - 1)) - 1]
    BY <2>1, PowerIs
  <2>3. QED
    BY <2>1, <2>2
<1>2. PICK a \in Int, r \in 0 .. (w - 1) : a = key \div w /\ key = w * a + r
  <2>1. key \in Int
    OBVIOUS
  <2>2. key \div w \in Int /\ key % w \in 0 .. (w - 1) /\ key = w * (key \div w) + (key % w)
    BY <2>1, DivMod
  <2>3. QED
    BY <2>2
<1>3. PICK q \in Int, d \in 0 .. (Base - 1) : q = a \div Base /\ d = a % Base /\ a = Base * q + d
  <2>1. a \div Base \in Int /\ a % Base \in 0 .. (Base - 1) /\ a = Base * (a \div Base) + (a % Base)
    BY DivMod
  <2>2. QED
    BY <2>1
<1>4. PICK c : c = w * d + r
  OBVIOUS
<1>5. c \in 0 .. (W - 1) /\ key = W * q + c
  <2>1. PICK e \in Nat : Base = d + 1 + e
    <3>1. Base - d - 1 \in Nat /\ Base = d + 1 + (Base - d - 1)
      OBVIOUS
    <3>2. QED
      BY <3>1
  <2>2. PICK x \in Nat, y \in Nat : x = w * d /\ y = w * e
    <3>1. d \in Nat /\ w * d \in Nat /\ w * e \in Nat
      OBVIOUS
    <3>2. QED
      BY <3>1
  <2>3. W = x + w + y
    <3>1. Base * w = (d + 1 + e) * w
      BY <2>1
    <3>2. (d + 1 + e) * w = w * d + w + w * e
      OBVIOUS
    <3>3. QED
      BY <1>1, <2>2, <3>1, <3>2
  <2>4. key = w * (Base * q + d) + r
    BY <1>2, <1>3
  <2>5. w * (Base * q + d) = (Base * w) * q + w * d
    OBVIOUS
  <2>6. key = W * q + x + r
    BY <1>1, <2>2, <2>4, <2>5
  <2>7. QED
    BY <1>4, <2>2, <2>3, <2>6
<1>6. key \div W = q
  BY <1>5, DivUnique
<1>7. q \in Nat
  <2>1. SUFFICES ASSUME q < 0
                 PROVE  FALSE
    OBVIOUS
  <2>2. W * q + W <= W * 0 /\ W * 0 = 0
    BY <2>1, Multiples
  <2>3. QED
    BY <1>5, <2>2
<1>8. QED
  BY <1>1, <1>2, <1>3, <1>6, <1>7 DEF Prefix, Digit

LEMMA PrefixFirst ==
  ASSUME NEW key \in 0 .. (Power[Passes] - 1)
  PROVE  Prefix(key, 0) = 0
<1> USE ConstantsAre
<1>1. PICK w \in Nat \ {0} : w = Power[Passes]
  <2>1. Passes \in 0 .. Passes
    OBVIOUS
  <2>2. QED
    BY <2>1, PowerIs
<1>2. key \in 0 .. (w - 1) /\ key \in Int /\ 0 \in Int
  BY <1>1
<1>3. key = w * 0 + key
  BY <1>2
<1>4. key \div w = 0
  BY <1>2, <1>3, DivUnique
<1>5. Passes - 0 = Passes
  OBVIOUS
<1>6. QED
  BY <1>1, <1>4, <1>5 DEF Prefix

LEMMA PrefixLast ==
  ASSUME NEW key \in Nat
  PROVE  Prefix(key, Passes) = key
<1> USE ConstantsAre
<1>1. Passes - Passes = 0
  OBVIOUS
<1>2. Power[0] = 1
  BY PowerIs
<1>3. key \div 1 = key
  OBVIOUS
<1>4. QED
  BY <1>1, <1>2, <1>3 DEF Prefix

(* Keys order as the floats they come from.                                  *)
LEMMA HalfIs ==
  Half \in Nat \ {0} /\ \E p \in Nat : p = Power[Passes] /\ 2 * Half <= p
<1> USE ConstantsAre
<1>1. PICK a \in Nat \ {0} : a = Power[Passes - 1] /\ Power[Passes] = Base * a
  <2>1. Passes \in 1 .. Passes /\ Passes - 1 \in 0 .. Passes
    OBVIOUS
  <2>2. QED
    BY <2>1, PowerIs
<1>2. PICK p \in Nat : p = Base * a /\ p >= 2
  <2>1. PICK b \in Nat : Base = b + 2
    <3>1. Base - 2 \in Nat /\ Base = (Base - 2) + 2
      OBVIOUS
    <3>2. QED
      BY <3>1
  <2>2. PICK x \in Nat : x = b * a
    OBVIOUS
  <2>3. (b + 2) * a = x + 2 * a
    BY <2>2
  <2>4. QED
    BY <2>1, <2>2, <2>3
<1>3. p \div 2 \in Nat \ {0} /\ 2 * (p \div 2) <= p
  BY <1>2
<1>4. QED
  BY <1>1, <1>2, <1>3 DEF Half

LEMMA KeyIs ==
  ASSUME NEW x \in Floats
  PROVE  /\ Key(x) \in Nat /\ Key(x) \in 0 .. (Power[Passes] - 1)
         /\ \A y \in Floats : Key(x) >= Key(y) => AtLeastFloat(x, y)
<1>1. PICK h \in Nat \ {0}, p \in Nat : h = Half /\ p = Power[Passes] /\ 2 * h <= p
  <2>1. PICK p \in Nat : p = Power[Passes] /\ 2 * Half <= p
    BY HalfIs
  <2>2. QED
    BY <2>1, HalfIs
<1>2. ASSUME NEW y \in Floats
      PROVE  y.neg \in BOOLEAN /\ y.mag \in 0 .. (h - 1)
             /\ Key(y) = IF y.neg THEN h - 1 - y.mag ELSE h + y.mag
  BY <1>1 DEF Floats, Key
<1>3. Key(x) \in Nat /\ Key(x) <= p - 1
  BY <1>1, <1>2
<1>4. ASSUME NEW y \in Floats, Key(x) >= Key(y)
      PROVE  AtLeastFloat(x, y)
  <2>1. x.neg \in BOOLEAN /\ y.neg \in BOOLEAN /\ x.mag \in 0 .. (h - 1) /\ y.mag \in 0 .. (h - 1)
    BY <1>2
  <2>2. (IF x.neg THEN h - 1 - x.mag ELSE h + x.mag) >= (IF y.neg THEN h - 1 - y.mag ELSE h + y.mag)
    BY <1>2, <1>4
  <2>3. CASE x.neg /\ y.neg
    BY <2>1, <2>2, <2>3 DEF AtLeastFloat
  <2>4. CASE x.neg /\ ~ y.neg
    BY <2>1, <2>2, <2>4 DEF AtLeastFloat
  <2>5. CASE ~ x.neg /\ y.neg
    BY <2>5 DEF AtLeastFloat
  <2>6. CASE ~ x.neg /\ ~ y.neg
    BY <2>1, <2>2, <2>6 DEF AtLeastFloat
  <2>7. QED
    BY <2>1, <2>3, <2>4, <2>5, <2>6
<1>5. QED
  BY <1>1, <1>3, <1>4


-----------------------------------------------------------------------------
(* Tiles.                                                                    *)
TileOf(i) == (i - 1) \div Block

LEMMA TilesAre ==
  /\ IsFiniteSet(Tiles) /\ Tiles \in SUBSET Nat /\ 0 \in Tiles
  /\ \A i \in 1 .. Width : TileOf(i) \in Tiles
  /\ \A i, j \in 1 .. Width : j < i => TileOf(j) <= TileOf(i)
<1> USE ConstantsAre
<1>1. ASSUME NEW a \in Nat
      PROVE  \E q \in Nat, r \in 0 .. (Block - 1) : q = a \div Block /\ a = Block * q + r
  <2>1. a \in Int
    OBVIOUS
  <2>2. PICK q \in Int, r \in 0 .. (Block - 1) : q = a \div Block /\ a = Block * q + r
    BY <2>1, DivMod
  <2>3. ~ (q < 0)
    <3>1. SUFFICES ASSUME q < 0
                   PROVE  FALSE
      OBVIOUS
    <3>2. Block * q + Block <= Block * 0 /\ Block * 0 = 0
      BY <3>1, Multiples
    <3>3. PICK m \in Int : m = Block * q
      OBVIOUS
    <3>4. QED
      BY <2>2, <3>2, <3>3
  <2>4. QED
    BY <2>2, <2>3
<1>2. ASSUME NEW a \in Nat, NEW b \in Nat, a <= b
      PROVE  (a \div Block) <= (b \div Block)
  <2>1. PICK q \in Nat, r \in 0 .. (Block - 1) : q = a \div Block /\ a = Block * q + r
    BY <1>1
  <2>2. PICK p \in Nat, s \in 0 .. (Block - 1) : p = b \div Block /\ b = Block * p + s
    BY <1>1
  <2>3. ~ (p < q)
    <3>1. SUFFICES ASSUME p < q
                   PROVE  FALSE
      OBVIOUS
    <3>2. Block * p + Block <= Block * q
      BY <3>1, Multiples
    <3>3. PICK m \in Int, n \in Int : m = Block * q /\ n = Block * p
      OBVIOUS
    <3>4. QED
      BY <1>2, <2>1, <2>2, <3>2, <3>3
  <2>4. QED
    BY <2>1, <2>2, <2>3
<1>3. PICK z \in Nat : z = (Width - 1) \div Block /\ Tiles = 0 .. z
  <2>1. Width - 1 \in Nat
    OBVIOUS
  <2>2. PICK q \in Nat, r \in 0 .. (Block - 1) : q = (Width - 1) \div Block /\ Width - 1 = Block * q + r
    BY <1>1, <2>1
  <2>3. Width + Block - 1 = Block * (q + 1) + r
    <3>1. Block * (q + 1) = Block * q + Block
      OBVIOUS
    <3>2. PICK m \in Int : m = Block * q
      OBVIOUS
    <3>3. QED
      BY <2>2, <3>1, <3>2
  <2>4. (Width + Block - 1) \div Block = q + 1
    <3>1. Width + Block - 1 \in Int /\ q + 1 \in Int
      OBVIOUS
    <3>2. QED
      BY <2>3, <3>1, DivUnique
  <2>5. CeilDiv(Width, Block) - 1 = q
    BY <2>4 DEF CeilDiv
  <2>6. QED
    BY <2>2, <2>5 DEF Tiles
<1>4. ASSUME NEW i \in 1 .. Width
      PROVE  TileOf(i) \in Nat /\ TileOf(i) <= z
  <2>1. i - 1 \in Nat /\ Width - 1 \in Nat /\ i - 1 <= Width - 1
    OBVIOUS
  <2>2. PICK q \in Nat, r \in 0 .. (Block - 1) : q = (i - 1) \div Block /\ i - 1 = Block * q + r
    BY <1>1, <2>1
  <2>3. QED
    BY <1>2, <1>3, <2>1, <2>2 DEF TileOf
<1>5. ASSUME NEW i \in 1 .. Width, NEW j \in 1 .. Width, j < i
      PROVE  TileOf(j) <= TileOf(i)
  <2>1. i - 1 \in Nat /\ j - 1 \in Nat /\ j - 1 <= i - 1
    BY <1>5
  <2>2. QED
    BY <1>2, <2>1 DEF TileOf
<1>6. IsFiniteSet(Tiles)
  BY <1>3, FS_Interval
<1>7. QED
  BY <1>3, <1>4, <1>5, <1>6

-----------------------------------------------------------------------------
(* The columns a digit and a threshold single out.                           *)

Over(score, q, p, n) == {i \in 1 .. n : Prefix(Key(score[i]), p) > q}
On(score, q, p, n) == {i \in 1 .. n : Prefix(Key(score[i]), p) = q}
Digits(score, q, p, n, Q, d) ==
  {i \in 1 .. n : /\ TileOf(i) \in Q /\ Prefix(Key(score[i]), p - 1) = q
                  /\ Digit(Key(score[i]), p) = d}
Higher(score, q, n, Q) == {i \in 1 .. n : TileOf(i) \in Q /\ Key(score[i]) > q}
Equal(score, q, n, Q) == {i \in 1 .. n : TileOf(i) \in Q /\ Key(score[i]) = q}
KeysOf(score, n) == n \in 1 .. Width /\ \A i \in 1 .. n : score[i] \in Floats

LEMMA ColumnsFinite ==
  ASSUME NEW n \in Nat, NEW S \in SUBSET (1 .. n)
  PROVE  IsFiniteSet(S) /\ Cardinality(S) \in Nat /\ S \in SUBSET Int
<1>1. 1 \in Int /\ n \in Int
  OBVIOUS
<1>2. IsFiniteSet(1 .. n)
  BY <1>1, FS_Interval
<1>3. IsFiniteSet(S)
  BY <1>2, FS_Subset
<1>4. QED
  BY <1>3, FS_CardinalityType

(* What two disjoint parts make up together.                                 *)
LEMMA PartsSize ==
  ASSUME NEW A, NEW B, NEW C, IsFiniteSet(C), C = A \cup B, A \cap B = {}
  PROVE  /\ Cardinality(A) \in Nat /\ Cardinality(B) \in Nat
         /\ Cardinality(C) = Cardinality(A) + Cardinality(B)
<1>1. IsFiniteSet(A) /\ IsFiniteSet(B)
  BY FS_Subset
<1>2. PICK E, U : E = A \cap B /\ U = A \cup B
  OBVIOUS
<1>3. Cardinality(U) = Cardinality(A) + Cardinality(B) - Cardinality(E)
  BY <1>1, <1>2, FS_Union
<1>4. Cardinality(E) = 0
  BY <1>2, FS_EmptySet
<1>5. Cardinality(A) \in Nat /\ Cardinality(B) \in Nat
  BY <1>1, FS_CardinalityType
<1>6. QED
  BY <1>2, <1>3, <1>4, <1>5

(* Fewer columns of a set lie before one of its columns than it has.         *)
LEMMA RankBelow ==
  ASSUME NEW n \in Nat, NEW S \in SUBSET (1 .. n), NEW i \in S
  PROVE  Rank(S, i) \in Nat /\ Rank(S, i) < Cardinality(S)
<1>1. PICK A, B : A = {j \in S : j < i} /\ B = S \ A
  OBVIOUS
<1>2. IsFiniteSet(S) /\ S = A \cup B /\ A \cap B = {}
  BY <1>1, ColumnsFinite
<1>3. Cardinality(A) \in Nat /\ Cardinality(B) \in Nat /\ Cardinality(S) = Cardinality(A) + Cardinality(B)
  BY <1>2, PartsSize
<1>4. i \in B
  BY <1>1
<1>5. Cardinality(B) # 0
  <2>1. IsFiniteSet(B)
    BY <1>1, <1>2, FS_Subset
  <2>2. QED
    BY <1>4, <2>1, FS_EmptySet
<1>6. QED
  BY <1>1, <1>3, <1>5 DEF Rank

-----------------------------------------------------------------------------
(* The place of a column: those above the threshold first, each kind in the  *)
(* order of the columns.                                                     *)
Place(score, q, n, i) ==
  IF Key(score[i]) > q THEN Rank(Higher(score, q, n, Tiles), i)
  ELSE Cardinality(Higher(score, q, n, Tiles)) + Rank(Equal(score, q, n, Tiles), i)

LEMMA PlacesDiffer ==
  ASSUME NEW score, NEW n, KeysOf(score, n), NEW q \in Nat,
         NEW i \in 1 .. n, NEW j \in 1 .. n, i < j, Key(score[i]) >= q, Key(score[j]) >= q
  PROVE  /\ Place(score, q, n, i) \in Nat /\ Place(score, q, n, j) \in Nat
         /\ Place(score, q, n, i) # Place(score, q, n, j)
<1>1. PICK H, E : H = Higher(score, q, n, Tiles) /\ E = Equal(score, q, n, Tiles)
  OBVIOUS
<1>2. n \in Nat /\ H \in SUBSET (1 .. n) /\ E \in SUBSET (1 .. n)
  BY <1>1 DEF KeysOf, Higher, Equal
<1>3. /\ IsFiniteSet(H) /\ IsFiniteSet(E) /\ H \in SUBSET Int /\ E \in SUBSET Int
      /\ Cardinality(H) \in Nat
  BY <1>2, ColumnsFinite
<1>4. ASSUME NEW k \in 1 .. n, Key(score[k]) >= q
      PROVE  /\ Key(score[k]) > q => k \in H /\ Place(score, q, n, k) = Rank(H, k)
             /\ ~ (Key(score[k]) > q) => k \in E /\ Place(score, q, n, k) = Cardinality(H) + Rank(E, k)
  <2>1. k \in 1 .. Width
    BY ConstantsAre DEF KeysOf
  <2>2. TileOf(k) \in Tiles /\ Key(score[k]) \in Nat
    BY <2>1, TilesAre, KeyIs DEF KeysOf
  <2>3. ~ (Key(score[k]) > q) => Key(score[k]) = q
    BY <1>4, <2>2
  <2>4. QED
    BY <1>1, <2>2, <2>3 DEF Place, Higher, Equal
<1>5. ASSUME NEW k \in H
      PROVE  Rank(H, k) \in Nat /\ Rank(H, k) < Cardinality(H)
  BY <1>2, RankBelow
<1>6. ASSUME NEW k \in E
      PROVE  Rank(E, k) \in Nat
  BY <1>2, RankBelow
<1>7. i \in H /\ j \in H => Rank(H, i) < Rank(H, j)
  BY <1>3, Ranks DEF Rank
<1>8. i \in E /\ j \in E => Rank(E, i) < Rank(E, j)
  BY <1>3, Ranks DEF Rank
<1>9. QED
  BY <1>3, <1>4, <1>5, <1>6, <1>7, <1>8


-----------------------------------------------------------------------------
(* The digit a pass selects.                                                 *)

Counts(h, score, q, p, n, Q) ==
  \A d \in 0 .. (Base - 1) : h[d] = Cardinality(Digits(score, q, p, n, Q, d))
Enough(h, r) == {b \in 0 .. (Base - 1) : SumFunctionOnSet(h, b .. (Base - 1)) >= r}
From(score, q, p, n, b) == {i \in On(score, q, p - 1, n) : Digit(Key(score[i]), p) >= b}

(* The columns of the digits from b on are those that match the prefix and   *)
(* have such a digit.                                                        *)
LEMMA TailIs ==
  ASSUME NEW score, NEW n, KeysOf(score, n), NEW q \in Nat, NEW p \in 1 .. Passes,
         NEW h, Counts(h, score, q, p, n, Tiles), NEW b \in Nat
  PROVE  SumFunctionOnSet(h, b .. (Base - 1)) = Cardinality(From(score, q, p, n, b))
<1> USE ConstantsAre
<1>1. n \in Nat /\ \A i \in 1 .. n : TileOf(i) \in Tiles /\ Key(score[i]) \in Nat
  <2>1. n \in Nat /\ \A i \in 1 .. n : i \in 1 .. Width
    BY DEF KeysOf
  <2>2. QED
    BY <2>1, TilesAre, KeyIs DEF KeysOf
<1>2. PICK S : S = b .. (Base - 1)
  OBVIOUS
<1>3. IsFiniteSet(S) /\ S \subseteq 0 .. (Base - 1)
  <2>1. b \in Int /\ Base - 1 \in Int
    OBVIOUS
  <2>2. IsFiniteSet(b .. (Base - 1))
    BY <2>1, FS_Interval
  <2>3. QED
    BY <1>2, <2>2
<1>4. PICK A : A = [d \in 0 .. (Base - 1) |-> Digits(score, q, p, n, Tiles, d)]
  OBVIOUS
<1>5. ASSUME NEW d \in S
      PROVE  IsFiniteSet(A[d]) /\ h[d] = Cardinality(A[d])
  <2>1. A[d] = Digits(score, q, p, n, Tiles, d) /\ d \in 0 .. (Base - 1)
    BY <1>3, <1>4
  <2>2. Digits(score, q, p, n, Tiles, d) \in SUBSET (1 .. n)
    BY DEF Digits
  <2>3. IsFiniteSet(A[d])
    BY <1>1, <2>1, <2>2, ColumnsFinite
  <2>4. QED
    BY <2>1, <2>3 DEF Counts
<1>6. ASSUME NEW d \in S, NEW e \in S, d # e
      PROVE  A[d] \cap A[e] = {}
  BY <1>3, <1>4, <1>6 DEF Digits
<1>7. Parts(S, h, A)
  BY <1>5, <1>6 DEF Parts
<1>8. SumFunctionOnSet(h, S) = Cardinality(Joined(S, A))
  BY <1>3, <1>7, SumIs
<1>9. Joined(S, A) = From(score, q, p, n, b)
  <2>1. ASSUME NEW i, i \in Joined(S, A)
        PROVE  i \in From(score, q, p, n, b)
    <3>1. PICK d \in S : i \in A[d]
      BY <2>1, Zenon DEF Joined
    <3>2. i \in Digits(score, q, p, n, Tiles, d)
      BY <1>3, <1>4, <3>1
    <3>3. d >= b
      BY <1>2
    <3>4. QED
      BY <3>2, <3>3 DEF Digits, From, On
  <2>2. ASSUME NEW i, i \in From(score, q, p, n, b)
        PROVE  i \in Joined(S, A)
    <3>1. /\ i \in 1 .. n /\ Prefix(Key(score[i]), p - 1) = q
          /\ Digit(Key(score[i]), p) >= b
      BY <2>2 DEF From, On
    <3>2. Digit(Key(score[i]), p) \in 0 .. (Base - 1)
      BY <1>1, <3>1, PrefixNext
    <3>3. PICK d \in S : d = Digit(Key(score[i]), p)
      BY <1>2, <3>1, <3>2
    <3>4. i \in A[d]
      <4>1. i \in Digits(score, q, p, n, Tiles, d)
        BY <1>1, <3>1, <3>3 DEF Digits
      <4>2. QED
        BY <1>3, <1>4, <4>1
    <3>5. QED
      BY <3>4, Zenon DEF Joined
  <2>3. QED
    BY <2>1, <2>2
<1>10. QED
  BY <1>2, <1>8, <1>9

LEMMA SelectIs ==
  ASSUME NEW score, NEW n, KeysOf(score, n), NEW q \in Nat, NEW p \in 1 .. Passes,
         NEW h, Counts(h, score, q, p, n, Tiles), NEW r \in 1 .. TopK,
         Cardinality(Over(score, q, p - 1, n)) = TopK - r,
         Cardinality(On(score, q, p - 1, n)) >= r,
         NEW B, B = Enough(h, r)
  PROVE  \E d \in 0 .. (Base - 1), s \in 1 .. TopK :
           /\ Cardinality(B) - 1 = d
           /\ r - (SumFunctionOnSet(h, d .. (Base - 1)) - h[d]) = s
           /\ Cardinality(Over(score, q * Base + d, p, n)) = TopK - s
           /\ Cardinality(On(score, q * Base + d, p, n)) >= s
<1> USE ConstantsAre
<1>1. n \in Nat /\ \A i \in 1 .. n : Key(score[i]) \in Nat
  BY KeyIs DEF KeysOf
<1>2. ASSUME NEW b \in Nat
      PROVE  /\ From(score, q, p, n, b) \in SUBSET (1 .. n)
             /\ IsFiniteSet(From(score, q, p, n, b)) /\ Cardinality(From(score, q, p, n, b)) \in Nat
             /\ SumFunctionOnSet(h, b .. (Base - 1)) = Cardinality(From(score, q, p, n, b))
  <2>1. From(score, q, p, n, b) \in SUBSET (1 .. n)
    BY DEF From, On
  <2>2. IsFiniteSet(From(score, q, p, n, b)) /\ Cardinality(From(score, q, p, n, b)) \in Nat
    BY <1>1, <2>1, ColumnsFinite
  <2>3. SumFunctionOnSet(h, b .. (Base - 1)) = Cardinality(From(score, q, p, n, b))
    BY TailIs
  <2>4. QED
    BY <2>1, <2>2, <2>3
<1>3. ASSUME NEW a \in Nat, NEW b \in Nat, a <= b
      PROVE  Cardinality(From(score, q, p, n, b)) <= Cardinality(From(score, q, p, n, a))
  <2>1. From(score, q, p, n, b) \subseteq From(score, q, p, n, a)
    <3>1. ASSUME NEW i \in From(score, q, p, n, b)
          PROVE  i \in From(score, q, p, n, a)
      <4>1. i \in On(score, q, p - 1, n) /\ Digit(Key(score[i]), p) >= b /\ i \in 1 .. n
        BY <3>1 DEF From, On
      <4>2. Digit(Key(score[i]), p) \in 0 .. (Base - 1)
        BY <1>1, <4>1, PrefixNext
      <4>3. Digit(Key(score[i]), p) >= a
        BY <1>3, <4>1, <4>2
      <4>4. QED
        BY <4>1, <4>3 DEF From
    <3>2. QED
      BY <3>1
  <2>2. QED
    BY <1>2, <2>1, FS_Subset
<1>4. Cardinality(From(score, q, p, n, 0)) >= r
  <2>1. From(score, q, p, n, 0) = On(score, q, p - 1, n)
    <3>1. ASSUME NEW i \in On(score, q, p - 1, n)
          PROVE  Digit(Key(score[i]), p) >= 0
      <4>1. i \in 1 .. n
        BY DEF On
      <4>2. Digit(Key(score[i]), p) \in 0 .. (Base - 1)
        BY <1>1, <4>1, PrefixNext
      <4>3. QED
        BY <4>2
    <3>2. QED
      BY <3>1 DEF From
  <2>2. QED
    BY <2>1
<1>5. From(score, q, p, n, Base) = {}
  <2>1. ASSUME NEW i \in From(score, q, p, n, Base)
        PROVE  FALSE
    <3>1. Digit(Key(score[i]), p) >= Base /\ i \in 1 .. n
      BY <2>1 DEF From, On
    <3>2. Digit(Key(score[i]), p) \in 0 .. (Base - 1)
      BY <1>1, <3>1, PrefixNext
    <3>3. QED
      BY <3>1, <3>2
  <2>2. QED
    BY <2>1
<1>6. Cardinality(From(score, q, p, n, Base)) = 0
  BY <1>5, FS_EmptySet
(* The digits with enough behind them are the first ones.                    *)
<1>7. PICK m \in 1 .. Base : /\ Cardinality(From(score, q, p, n, m)) < r
                             /\ \A b \in 0 .. (m - 1) : Cardinality(From(score, q, p, n, b)) >= r
  <2> DEFINE U == {b \in 0 .. Base : Cardinality(From(score, q, p, n, b)) < r}
  <2>1. IsFiniteSet(U) /\ U \in SUBSET Int
    <3>1. 0 \in Int /\ Base \in Int
      OBVIOUS
    <3>2. IsFiniteSet(0 .. Base)
      BY <3>1, FS_Interval
    <3>3. QED
      BY <3>2, FS_Subset
  <2>2. Base \in U
    <3>1. 0 < r /\ Base \in 0 .. Base
      OBVIOUS
    <3>2. QED
      BY <1>6, <3>1
  <2>3. PICK m \in U : \A b \in U : m <= b
    <3> HIDE DEF U
    <3>1. QED
      BY <2>1, <2>2, Least
  <2>4. m \in 0 .. Base /\ Cardinality(From(score, q, p, n, m)) < r
    BY <2>3
  <2>5. m # 0
    <3>1. ASSUME m = 0
          PROVE  FALSE
      <4>1. PICK c \in Nat : c = Cardinality(From(score, q, p, n, 0))
        BY <1>2
      <4>2. c < r /\ c >= r
        BY <1>4, <2>4, <3>1, <4>1
      <4>3. QED
        BY <4>1, <4>2
    <3>2. QED
      BY <3>1
  <2>6. ASSUME NEW b \in 0 .. (m - 1)
        PROVE  Cardinality(From(score, q, p, n, b)) >= r
    <3>1. b \notin U /\ b \in 0 .. Base /\ b \in Nat
      BY <2>3, <2>4
    <3>2. PICK c \in Nat : c = Cardinality(From(score, q, p, n, b))
      BY <1>2, <3>1
    <3>3. ~ (c < r)
      BY <3>1, <3>2
    <3>4. QED
      BY <3>2, <3>3
  <2>7. QED
    BY <2>4, <2>5, <2>6
<1>8. B = 0 .. (m - 1)
  <2>0. B = {b \in 0 .. (Base - 1) : SumFunctionOnSet(h, b .. (Base - 1)) >= r}
    BY DEF Enough
  <2>1. ASSUME NEW b \in 0 .. (Base - 1)
        PROVE  (SumFunctionOnSet(h, b .. (Base - 1)) >= r) <=> b \in 0 .. (m - 1)
    <3>1. PICK c \in Nat : c = Cardinality(From(score, q, p, n, b))
                           /\ c = SumFunctionOnSet(h, b .. (Base - 1))
      <4>1. b \in Nat
        OBVIOUS
      <4>2. QED
        BY <1>2, <4>1
    <3>2. CASE b \in 0 .. (m - 1)
      BY <1>7, <3>1, <3>2
    <3>3. CASE b \notin 0 .. (m - 1)
      <4>1. m <= b /\ m \in Nat /\ b \in Nat
        BY <3>3
      <4>2. PICK e \in Nat : e = Cardinality(From(score, q, p, n, m))
        BY <1>2, <4>1
      <4>3. c <= e /\ e < r
        BY <1>3, <1>7, <3>1, <4>1, <4>2
      <4>4. QED
        BY <3>1, <3>3, <4>3
    <3>4. QED
      BY <3>2, <3>3
  <2>2. \A b \in 0 .. (m - 1) : b \in 0 .. (Base - 1)
    OBVIOUS
  <2>3. QED
    BY <2>0, <2>1, <2>2
<1>9. Cardinality(B) = m
  <2>1. m \in Nat
    OBVIOUS
  <2>2. Cardinality(0 .. (m - 1)) = m
    BY <2>1, IntervalSize
  <2>3. QED
    BY <1>8, <2>2
<1>10. PICK d \in 0 .. (Base - 1) : d = m - 1 /\ d + 1 = m
  <2>1. m - 1 \in 0 .. (Base - 1) /\ (m - 1) + 1 = m
    OBVIOUS
  <2>2. QED
    BY <2>1
<1>11. PICK D : D = Digits(score, q, p, n, Tiles, d)
  OBVIOUS
<1>12. D \in SUBSET (1 .. n) /\ h[d] = Cardinality(D)
  BY <1>11 DEF Counts, Digits
<1>13. PICK Fd, Fm : Fd = From(score, q, p, n, d) /\ Fm = From(score, q, p, n, m)
  OBVIOUS
<1>14. D = {i \in 1 .. n : Prefix(Key(score[i]), p - 1) = q /\ Digit(Key(score[i]), p) = d}
  <2>1. \A i \in 1 .. n : TileOf(i) \in Tiles
    <3>1. \A i \in 1 .. n : i \in 1 .. Width
      BY <1>1 DEF KeysOf
    <3>2. QED
      BY <3>1, TilesAre
  <2>2. QED
    BY <1>11, <2>1 DEF Digits
<1>15. ASSUME NEW i \in 1 .. n
       PROVE  /\ Digit(Key(score[i]), p) \in 0 .. (Base - 1) /\ Prefix(Key(score[i]), p - 1) \in Nat
              /\ Prefix(Key(score[i]), p) = Base * Prefix(Key(score[i]), p - 1) + Digit(Key(score[i]), p)
              /\ i \in D <=> Prefix(Key(score[i]), p - 1) = q /\ Digit(Key(score[i]), p) = d
              /\ i \in Fd <=> Prefix(Key(score[i]), p - 1) = q /\ Digit(Key(score[i]), p) >= d
              /\ i \in Fm <=> Prefix(Key(score[i]), p - 1) = q /\ Digit(Key(score[i]), p) > d
  <2>1. /\ Digit(Key(score[i]), p) \in 0 .. (Base - 1) /\ Prefix(Key(score[i]), p - 1) \in Nat
        /\ Prefix(Key(score[i]), p) = Base * Prefix(Key(score[i]), p - 1) + Digit(Key(score[i]), p)
    BY <1>1, PrefixNext
  <2>2. i \in Fd <=> Prefix(Key(score[i]), p - 1) = q /\ Digit(Key(score[i]), p) >= d
    BY <1>13 DEF From, On
  <2>3. i \in Fm <=> Prefix(Key(score[i]), p - 1) = q /\ Digit(Key(score[i]), p) >= m
    BY <1>13 DEF From, On
  <2>4. Digit(Key(score[i]), p) >= m <=> Digit(Key(score[i]), p) > d
    BY <1>10, <2>1
  <2>5. QED
    BY <1>14, <2>1, <2>2, <2>3, <2>4
<1>16. Fd \in SUBSET (1 .. n) /\ Fm \in SUBSET (1 .. n) /\ IsFiniteSet(Fd)
  <2>1. d \in Nat /\ m \in Nat
    OBVIOUS
  <2>2. From(score, q, p, n, d) \in SUBSET (1 .. n) /\ From(score, q, p, n, m) \in SUBSET (1 .. n)
        /\ IsFiniteSet(From(score, q, p, n, d))
    BY <1>2, <2>1
  <2>3. QED
    BY <1>13, <2>2
<1>17. Cardinality(Fd) = Cardinality(D) + Cardinality(Fm) /\ Cardinality(D) \in Nat /\ Cardinality(Fm) \in Nat
  <2>1. Fd = D \cup Fm /\ D \cap Fm = {}
    <3>1. ASSUME NEW i \in 1 .. n
          PROVE  (i \in Fd <=> i \in D \/ i \in Fm) /\ ~ (i \in D /\ i \in Fm)
      BY <1>15
    <3>2. QED
      BY <1>12, <1>16, <3>1
  <2>2. QED
    BY <1>16, <2>1, PartsSize
<1>18. PICK O1, O2, N2 : /\ O1 = Over(score, q, p - 1, n) /\ O2 = Over(score, q * Base + d, p, n)
                         /\ N2 = On(score, q * Base + d, p, n)
  OBVIOUS
<1>19. ASSUME NEW i \in 1 .. n
       PROVE  /\ i \in N2 <=> i \in D
              /\ i \in O2 <=> i \in O1 \/ i \in Fm
              /\ ~ (i \in O1 /\ i \in Fm)
  <2>1. PICK x \in Nat, e \in 0 .. (Base - 1) :
           x = Prefix(Key(score[i]), p - 1) /\ e = Digit(Key(score[i]), p)
    BY <1>15
  <2>2. Prefix(Key(score[i]), p) = Base * x + e
    BY <1>15, <2>1
  <2>3. /\ i \in N2 <=> Base * x + e = Base * q + d
        /\ i \in O2 <=> Base * x + e > Base * q + d
        /\ i \in O1 <=> x > q
    <3>1. q * Base = Base * q
      OBVIOUS
    <3>2. QED
      BY <1>18, <2>1, <2>2, <3>1 DEF On, Over
  <2>4. PICK y \in Int, z \in Int : y = Base * x /\ z = Base * q
    OBVIOUS
  <2>5. x < q => y + Base <= z
    BY <2>4, Multiples
  <2>6. q < x => z + Base <= y
    BY <2>4, Multiples
  <2>7. i \in N2 <=> y + e = z + d
    BY <2>3, <2>4
  <2>8. i \in O2 <=> y + e > z + d
    BY <2>3, <2>4
  <2>9. x = q => y = z
    BY <2>4
  <2>10. (y + e = z + d) <=> (x = q /\ e = d)
    BY <2>4, <2>5, <2>6, <2>9
  <2>11. (y + e > z + d) <=> (x > q \/ (x = q /\ e > d))
    BY <2>4, <2>5, <2>6, <2>9
  <2>12. (i \in D <=> x = q /\ e = d) /\ (i \in Fm <=> x = q /\ e > d)
    BY <1>15, <2>1
  <2>13. ~ (x > q /\ x = q)
    OBVIOUS
  <2>14. QED
    BY <2>3, <2>7, <2>8, <2>10, <2>11, <2>12, <2>13
<1>20. O1 \in SUBSET (1 .. n) /\ O2 \in SUBSET (1 .. n) /\ N2 \in SUBSET (1 .. n)
  BY <1>18 DEF Over, On
<1>21. N2 = D /\ O2 = O1 \cup Fm /\ O1 \cap Fm = {}
  BY <1>12, <1>16, <1>19, <1>20
<1>22. Cardinality(O2) = Cardinality(O1) + Cardinality(Fm) /\ Cardinality(O1) \in Nat
  <2>1. IsFiniteSet(O2)
    BY <1>1, <1>20, ColumnsFinite
  <2>2. QED
    BY <1>21, <2>1, PartsSize
<1>23. PICK cd \in Nat, cm \in Nat, co \in Nat :
         cd = Cardinality(D) /\ cm = Cardinality(Fm) /\ co = Cardinality(O1)
  BY <1>17, <1>22
<1>24. cd + cm >= r /\ cm < r /\ co = TopK - r
  <2>1. Cardinality(Fd) >= r
    <3>1. d \in 0 .. (m - 1)
      BY <1>10
    <3>2. QED
      BY <1>7, <1>13, <3>1
  <2>2. QED
    BY <1>7, <1>13, <1>17, <1>18, <1>23, <2>1
<1>25. SumFunctionOnSet(h, d .. (Base - 1)) - h[d] = cm
  <2>1. d \in Nat
    OBVIOUS
  <2>2. SumFunctionOnSet(h, d .. (Base - 1)) = cd + cm /\ h[d] = cd
    BY <1>2, <1>12, <1>13, <1>17, <1>23, <2>1
  <2>3. QED
    BY <1>23, <2>2
<1>26. PICK s \in 1 .. TopK : s = r - cm
  BY <1>23, <1>24
<1>27. Cardinality(O2) = TopK - s /\ Cardinality(N2) >= s
  <2>1. Cardinality(O2) = co + cm /\ Cardinality(N2) = cd
    BY <1>21, <1>22, <1>23
  <2>2. QED
    BY <1>23, <1>24, <1>26, <2>1
<1>28. Cardinality(B) - 1 = d
  BY <1>9, <1>10
<1>29. QED
  BY <1>18, <1>25, <1>26, <1>27, <1>28


-----------------------------------------------------------------------------
(* The invariant of the launches of one call.                                *)

TkShape ==
  /\ tk = [stage |-> tk.stage, done |-> tk.done, pass |-> tk.pass, n |-> tk.n,
           prefix |-> tk.prefix, rem |-> tk.rem, hist |-> tk.hist, cnt |-> tk.cnt,
           off |-> tk.off, sel |-> tk.sel]
  /\ tk.hist = [d \in 0 .. (Base - 1) |-> tk.hist[d]]
  /\ tk.cnt = [t \in Tiles |-> tk.cnt[t]]
  /\ tk.sel = [p \in 1 .. TopK |-> tk.sel[p]]

(* A launch is under way or a program that runs alone is next.               *)
TkStage ==
  /\ tk.done \in SUBSET Tiles
  /\ tk.stage \in {"hist", "select", "count", "scan", "write", "done"}
  /\ tk.stage \in {"hist", "count", "write"} => tk.done # Tiles
  /\ tk.stage \in {"select", "scan", "done"} => tk.done = {}
  /\ tk.pass \in 1 .. (Passes + 1)
  /\ tk.stage \in {"hist", "select"} <=> tk.pass # Passes + 1

(* The digits so far cut the keys so that those above them and rem of those  *)
(* that share them make up the selection.                                    *)
TkCut(score) ==
  /\ tk.prefix \in Nat /\ tk.rem \in 1 .. TopK
  /\ Cardinality(Over(score, tk.prefix, tk.pass - 1, tk.n)) = TopK - tk.rem
  /\ Cardinality(On(score, tk.prefix, tk.pass - 1, tk.n)) >= tk.rem

(* the tiles a launch of this stage has dealt with, all once it is over      *)
Dealt(stage) == IF tk.stage = stage THEN tk.done ELSE Tiles
TkHistRight(score) ==
  tk.stage \in {"hist", "select"} =>
    Counts(tk.hist, score, tk.prefix, tk.pass, tk.n, Dealt("hist"))
TileCounts(c, score, q, n, Q) ==
  \A t \in Q : c[t].gt = Cardinality(Higher(score, q, n, {t}))
               /\ c[t].eq = Cardinality(Equal(score, q, n, {t}))
TkCntRight(score) ==
  tk.stage \in {"count", "scan"} => TileCounts(tk.cnt, score, tk.prefix, tk.n, Dealt("count"))
Before(t) == {u \in Tiles : u < t}
Offsets(o, score, q, n) ==
  \A t \in Tiles :
     /\ o[t].gt = Cardinality(Higher(score, q, n, Before(t)))
     /\ o[t].eq = Cardinality(Higher(score, q, n, Tiles)) + Cardinality(Equal(score, q, n, Before(t)))
TkOffRight(score) ==
  tk.stage \in {"write", "done"} => Offsets(tk.off, score, tk.prefix, tk.n)
Selects(sel, score, row, q, n, Q) ==
  \A i \in 1 .. n :
     TileOf(i) \in Q /\ Key(score[i]) >= q /\ Place(score, q, n, i) < TopK =>
       sel[Place(score, q, n, i) + 1] = row[i]
TkSelRight(score, row) ==
  tk.stage \in {"write", "done"} =>
    Selects(tk.sel, score, row, tk.prefix, tk.n, Dealt("write"))
TkCopied(row) ==
  (tk.stage = "write" /\ 0 \in tk.done) \/ tk.stage = "done" => tk.sel = Copied(row)

TopkInv(score, row) ==
  /\ TkShape /\ TkStage /\ KeysOf(score, tk.n) /\ tk.n = Len(row)
  /\ Fast => TkCopied(row)
  /\ ~ Fast => /\ TkCut(score) /\ TkHistRight(score) /\ TkCntRight(score)
               /\ TkOffRight(score) /\ TkSelRight(score, row)

(* A call starts over whatever the last one left.                            *)
LEMMA StartedRight ==
  ASSUME NEW score, NEW row, NEW n, KeysOf(score, n), n = Len(row), TkShape, tk' = TkStarted(n)
  PROVE  TopkInv(score, row)'
<1> USE ConstantsAre
<1>1. /\ tk' = [stage |-> "hist", done |-> {}, pass |-> 1, n |-> n, prefix |-> 0, rem |-> TopK,
                hist |-> [d \in 0 .. (Base - 1) |-> 0], cnt |-> tk.cnt, off |-> tk.off, sel |-> tk.sel]
  BY DEF TkShape, TkStarted
<1>2. TkShape'
  BY <1>1 DEF TkShape
<1>3. TkStage'
  <2>1. Tiles # {}
    BY TilesAre
  <2>2. 1 \in 1 .. (Passes + 1) /\ 1 # Passes + 1
    OBVIOUS
  <2>3. QED
    BY <1>1, <2>1, <2>2 DEF TkStage
<1>4. KeysOf(score, tk'.n) /\ tk'.n = Len(row)
  BY <1>1
<1>5. n \in 1 .. Width /\ n \in Nat /\ \A i \in 1 .. n : Prefix(Key(score[i]), 0) = 0
  BY KeyIs, PrefixFirst DEF KeysOf
<1>6. ASSUME ~ Fast'
      PROVE  TkCut(score)'
  <2>1. n > TopK
    BY <1>1, <1>5, <1>6 DEF Fast
  <2>2. Over(score, 0, 0, n) = {} /\ On(score, 0, 0, n) = 1 .. n
    BY <1>5 DEF Over, On
  <2>3. Cardinality(Over(score, 0, 0, n)) = 0
    BY <2>2, FS_EmptySet
  <2>4. Cardinality(On(score, 0, 0, n)) = n
    <3>1. 1 \in Int /\ n \in Int
      BY <1>5
    <3>2. Cardinality(1 .. n) = IF 1 > n THEN 0 ELSE n - 1 + 1
      BY <3>1, FS_Interval
    <3>3. QED
      BY <1>5, <2>2, <3>2
  <2>5. tk'.prefix = 0 /\ tk'.rem = TopK /\ tk'.pass - 1 = 0 /\ tk'.n = n
    BY <1>1
  <2>6. /\ 0 \in Nat /\ TopK \in 1 .. TopK
        /\ Cardinality(Over(score, 0, 0, n)) = TopK - TopK /\ Cardinality(On(score, 0, 0, n)) >= TopK
    BY <1>5, <2>1, <2>3, <2>4
  <2>7. QED
    BY <2>5, <2>6 DEF TkCut
<1>7. TkHistRight(score)'
  <2>1. Dealt("hist")' = {}
    BY <1>1 DEF Dealt
  <2>2. ASSUME NEW d \in 0 .. (Base - 1)
        PROVE  tk'.hist[d] = Cardinality(Digits(score, 0, 1, n, {}, d))
    <3>1. Digits(score, 0, 1, n, {}, d) = {}
      BY DEF Digits
    <3>2. Cardinality(Digits(score, 0, 1, n, {}, d)) = 0
      BY <3>1, FS_EmptySet
    <3>3. QED
      BY <1>1, <3>2
  <2>3. Counts(tk'.hist, score, 0, 1, n, {})
    BY <2>2 DEF Counts
  <2>4. QED
    <3>1. tk'.prefix = 0 /\ tk'.pass = 1 /\ tk'.n = n
      BY <1>1
    <3>2. QED
      BY <2>1, <2>3, <3>1 DEF TkHistRight
<1>8. TkCntRight(score)' /\ TkOffRight(score)' /\ TkSelRight(score, row)' /\ TkCopied(row)'
  BY <1>1 DEF TkCntRight, TkOffRight, TkSelRight, TkCopied
<1>9. QED
  BY <1>2, <1>3, <1>4, <1>6, <1>7, <1>8 DEF TopkInv

-----------------------------------------------------------------------------
(* One lemma per kind of program.                                            *)

LEMMA AfterIs ==
  ASSUME NEW t \in Tiles, TkStage, t \notin tk.done, NEW next, next # tk.stage
  PROVE  \/ /\ tk.done \cup {t} = Tiles
            /\ After(t, next).stage = next /\ After(t, next).done = {}
         \/ /\ tk.done \cup {t} # Tiles /\ tk.done \cup {t} \in SUBSET Tiles
            /\ After(t, next).stage = tk.stage /\ After(t, next).done = tk.done \cup {t}
BY DEF After, TkStage

LEMMA HistKeeps ==
  ASSUME NEW score, NEW row, TopkInv(score, row), NEW t \in Tiles, TkHist(score, t)
  PROVE  TopkInv(score, row)'
<1> USE ConstantsAre
<1>1. TkShape /\ TkStage /\ KeysOf(score, tk.n) /\ tk.stage = "hist" /\ t \notin tk.done
  BY DEF TopkInv, TkHist, TileStep
<1>2. PICK n, q, p : n = tk.n /\ q = tk.prefix /\ p = tk.pass
  OBVIOUS
<1>3. n \in 1 .. Width /\ n \in Nat /\ p \in 1 .. Passes
  BY <1>1, <1>2 DEF KeysOf, TkStage
<1>4. PICK h : /\ h = [d \in 0 .. (Base - 1) |->
                         IF Fast THEN tk.hist[d]
                         ELSE tk.hist[d] + Cardinality({i \in Columns(t) :
                                /\ Prefix(Key(score[i]), tk.pass - 1) = tk.prefix
                                /\ Digit(Key(score[i]), tk.pass) = d})]
               /\ tk' = [tk EXCEPT !.hist = h, !.stage = After(t, "select").stage,
                                   !.done = After(t, "select").done]
  BY DEF TkHist
<1>5. PICK st, dn : st = After(t, "select").stage /\ dn = After(t, "select").done
  OBVIOUS
<1>6. tk' = [stage |-> st, done |-> dn, pass |-> tk.pass, n |-> tk.n, prefix |-> tk.prefix,
             rem |-> tk.rem, hist |-> h, cnt |-> tk.cnt, off |-> tk.off, sel |-> tk.sel]
  BY <1>1, <1>4, <1>5 DEF TkShape
<1>7. \/ tk.done \cup {t} = Tiles /\ st = "select" /\ dn = {}
      \/ tk.done \cup {t} # Tiles /\ tk.done \cup {t} \in SUBSET Tiles /\ st = "hist" /\ dn = tk.done \cup {t}
  <2>1. "select" # tk.stage
    BY <1>1
  <2>2. QED
    BY <1>1, <1>5, <2>1, AfterIs
<1>8. TkShape'
  <2>1. h = [d \in 0 .. (Base - 1) |-> h[d]]
    BY <1>4
  <2>2. QED
    BY <1>1, <1>6, <2>1 DEF TkShape
<1>9. TkStage'
  BY <1>1, <1>6, <1>7 DEF TkStage
<1>10. /\ KeysOf(score, tk.n)' /\ TkCntRight(score)' /\ TkOffRight(score)'
       /\ TkSelRight(score, row)' /\ TkCopied(row)' /\ (Fast' <=> Fast) /\ tk'.n = tk.n
  BY <1>1, <1>6, <1>7 DEF TkCntRight, TkOffRight, TkSelRight, TkCopied, Fast
<1>11. ASSUME ~ Fast
       PROVE  TkCut(score)' /\ TkHistRight(score)'
  <2>1. TkCut(score) /\ Counts(tk.hist, score, q, p, n, tk.done)
    BY <1>1, <1>2, <1>11 DEF TopkInv, TkHistRight, Dealt
  <2>2. TkCut(score)'
    BY <1>6, <2>1 DEF TkCut
  <2>3. PICK Q : Q = tk.done \cup {t}
    OBVIOUS
  <2>4. ASSUME NEW d \in 0 .. (Base - 1)
        PROVE  h[d] = Cardinality(Digits(score, q, p, n, Q, d))
    <3>1. PICK A, B, C : /\ A = Digits(score, q, p, n, tk.done, d) /\ B = Digits(score, q, p, n, {t}, d)
                         /\ C = Digits(score, q, p, n, Q, d)
      OBVIOUS
    <3>2. C = A \cup B /\ A \cap B = {} /\ C \in SUBSET (1 .. n)
      BY <1>1, <2>3, <3>1 DEF Digits
    <3>3. Cardinality(C) = Cardinality(A) + Cardinality(B)
      <4>1. IsFiniteSet(C)
        BY <1>3, <3>2, ColumnsFinite
      <4>2. QED
        BY <3>2, <4>1, PartsSize
    <3>4. B = {i \in Columns(t) : Prefix(Key(score[i]), tk.pass - 1) = tk.prefix
                                  /\ Digit(Key(score[i]), tk.pass) = d}
      BY <1>2, <3>1 DEF Digits, Columns, TileOf
    <3>5. h[d] = tk.hist[d] + Cardinality(B)
      BY <1>4, <1>11, <3>4
    <3>6. tk.hist[d] = Cardinality(A)
      BY <2>1, <3>1 DEF Counts
    <3>7. QED
      BY <3>1, <3>3, <3>5, <3>6
  <2>5. Counts(h, score, q, p, n, Q)
    BY <2>4 DEF Counts
  <2>6. Dealt("hist")' = Q
    BY <1>6, <1>7, <2>3 DEF Dealt
  <2>7. TkHistRight(score)'
    <3>1. tk'.hist = h /\ tk'.prefix = q /\ tk'.pass = p /\ tk'.n = n
      BY <1>2, <1>6
    <3>2. QED
      BY <2>5, <2>6, <3>1 DEF TkHistRight
  <2>8. QED
    BY <2>2, <2>7
<1>12. QED
  BY <1>8, <1>9, <1>10, <1>11 DEF TopkInv


LEMMA SelectKeeps ==
  ASSUME NEW score, NEW row, TopkInv(score, row), TkSelect
  PROVE  TopkInv(score, row)'
<1> USE ConstantsAre
<1>1. TkShape /\ TkStage /\ KeysOf(score, tk.n) /\ tk.stage = "select" /\ tk.done = {}
  BY DEF TopkInv, TkSelect, TkStage
<1>2. PICK n, q, p, r, h : n = tk.n /\ q = tk.prefix /\ p = tk.pass /\ r = tk.rem /\ h = tk.hist
  OBVIOUS
<1>3. n \in 1 .. Width /\ n \in Nat /\ p \in 1 .. Passes
  BY <1>1, <1>2 DEF KeysOf, TkStage
<1>4. PICK B, d : B = {b \in 0 .. (Base - 1) : AtOrAbove(b) >= tk.rem} /\ d = Cardinality(B) - 1
  OBVIOUS
<1>5. PICK st : st = IF tk.pass = Passes THEN "count" ELSE "hist"
  OBVIOUS
<1>6. PICK q2, r2, h2 : /\ q2 = IF Fast THEN q ELSE q * Base + d
                        /\ r2 = IF Fast THEN r ELSE r - (AtOrAbove(d) - h[d])
                        /\ h2 = IF Fast THEN h ELSE Cleared
  OBVIOUS
<1>7. tk' = [stage |-> st, done |-> {}, pass |-> p + 1, n |-> n, prefix |-> q2,
             rem |-> r2, hist |-> h2, cnt |-> tk.cnt, off |-> tk.off, sel |-> tk.sel]
  <2>1. tk' = [(IF Fast THEN tk ELSE [tk EXCEPT !.prefix = @ * Base + d,
                                                !.rem = @ - (AtOrAbove(d) - tk.hist[d]),
                                                !.hist = Cleared]) EXCEPT !.pass = @ + 1, !.stage = st]
    BY <1>4, <1>5, Zenon DEF TkSelect
  <2>2. CASE Fast
    <3>1. tk' = [tk EXCEPT !.pass = @ + 1, !.stage = st]
      BY <2>1, <2>2
    <3>2. q2 = q /\ r2 = r /\ h2 = h
      BY <1>6, <2>2
    <3>3. QED
      BY <1>1, <1>2, <3>1, <3>2 DEF TkShape
  <2>3. CASE ~ Fast
    <3>1. tk' = [[tk EXCEPT !.prefix = @ * Base + d, !.rem = @ - (AtOrAbove(d) - tk.hist[d]),
                            !.hist = Cleared] EXCEPT !.pass = @ + 1, !.stage = st]
      BY <2>1, <2>3
    <3>2. q2 = tk.prefix * Base + d /\ r2 = tk.rem - (AtOrAbove(d) - tk.hist[d]) /\ h2 = Cleared
      BY <1>2, <1>6, <2>3
    <3>3. QED
      BY <1>1, <1>2, <3>1, <3>2 DEF TkShape
  <2>4. QED
    BY <2>2, <2>3
<1>8. TkShape'
  <2>1. h2 = [b \in 0 .. (Base - 1) |-> h2[b]]
    BY <1>1, <1>2, <1>6 DEF TkShape, Cleared
  <2>2. QED
    BY <1>1, <1>7, <2>1 DEF TkShape
<1>9. \/ st = "count" /\ p = Passes /\ p + 1 = Passes + 1
      \/ st = "hist" /\ p + 1 \in 1 .. Passes
  BY <1>2, <1>3, <1>5
<1>10. TkStage'
  <2>1. Tiles # {} /\ p + 1 \in 1 .. (Passes + 1)
    BY <1>3, TilesAre
  <2>2. CASE st = "count" /\ p + 1 = Passes + 1
    BY <1>7, <2>1, <2>2 DEF TkStage
  <2>3. CASE st = "hist" /\ p + 1 \in 1 .. Passes
    <3>1. p + 1 # Passes + 1
      BY <2>3
    <3>2. QED
      BY <1>7, <2>1, <2>3, <3>1 DEF TkStage
  <2>4. QED
    BY <1>9, <2>2, <2>3
<1>11. /\ KeysOf(score, tk.n)' /\ TkOffRight(score)' /\ TkSelRight(score, row)' /\ TkCopied(row)'
       /\ (Fast' <=> Fast) /\ tk'.n = tk.n
  BY <1>1, <1>2, <1>7, <1>9 DEF TkOffRight, TkSelRight, TkCopied, Fast
<1>12. ASSUME ~ Fast
       PROVE  TkCut(score)' /\ TkHistRight(score)' /\ TkCntRight(score)'
  <2>1. /\ q \in Nat /\ r \in 1 .. TopK
        /\ Cardinality(Over(score, q, p - 1, n)) = TopK - r /\ Cardinality(On(score, q, p - 1, n)) >= r
    BY <1>2, <1>12 DEF TopkInv, TkCut
  <2>2. Counts(h, score, q, p, n, Tiles)
    BY <1>1, <1>2, <1>12 DEF TopkInv, TkHistRight, Dealt
  <2>3. B = Enough(h, r)
    <3>1. B = {b \in 0 .. (Base - 1) : SumFunctionOnSet(h, b .. (Base - 1)) >= r}
      BY <1>2, <1>4 DEF AtOrAbove
    <3>2. QED
      BY <3>1 DEF Enough
  <2>4. PICK e \in 0 .. (Base - 1), s \in 1 .. TopK :
           /\ Cardinality(B) - 1 = e
           /\ r - (SumFunctionOnSet(h, e .. (Base - 1)) - h[e]) = s
           /\ Cardinality(Over(score, q * Base + e, p, n)) = TopK - s
           /\ Cardinality(On(score, q * Base + e, p, n)) >= s
    <3>1. KeysOf(score, n)
      BY <1>1, <1>2
    <3>2. QED
      BY <1>3, <2>1, <2>2, <2>3, <3>1, SelectIs
  <2>5. e = d
    BY <1>4, <2>4
  <2>6. q2 = q * Base + e /\ r2 = s /\ h2 = Cleared
    BY <1>2, <1>6, <1>12, <2>4, <2>5 DEF AtOrAbove
  <2>7. q * Base + e \in Nat /\ (p + 1) - 1 = p
    <3>1. PICK x \in Nat : x = q * Base
      BY <2>1
    <3>2. QED
      BY <1>3, <3>1
  <2>8. tk'.prefix = q * Base + e /\ tk'.rem = s /\ tk'.pass - 1 = p /\ tk'.n = n /\ tk'.hist = Cleared
        /\ tk'.stage = st /\ tk'.done = {}
    <3>1. tk'.prefix = q2 /\ tk'.rem = r2 /\ tk'.pass = p + 1 /\ tk'.n = n /\ tk'.hist = h2
          /\ tk'.stage = st /\ tk'.done = {}
      BY <1>7, Zenon
    <3>2. QED
      BY <2>6, <2>7, <3>1, Zenon
  <2>9. TkCut(score)'
    BY <2>4, <2>7, <2>8 DEF TkCut
  <2>10. TkHistRight(score)'
    <3>1. ASSUME NEW Q, Q = {}, NEW a, NEW b
          PROVE  Counts(Cleared, score, a, b, n, Q)
      <4>1. ASSUME NEW c \in 0 .. (Base - 1)
            PROVE  Cleared[c] = Cardinality(Digits(score, a, b, n, Q, c))
        <5>1. Digits(score, a, b, n, Q, c) = {}
          BY <3>1 DEF Digits
        <5>2. QED
          BY <5>1, FS_EmptySet DEF Cleared
      <4>2. QED
        BY <4>1 DEF Counts
    <3>2. tk'.stage # "select" /\ (tk'.stage = "hist" => Dealt("hist")' = {})
      BY <1>9, <2>8 DEF Dealt
    <3>3. QED
      BY <2>8, <3>1, <3>2 DEF TkHistRight
  <2>11. TkCntRight(score)'
    <3>1. tk'.stage # "scan" /\ (tk'.stage = "count" => Dealt("count")' = {})
      BY <1>9, <2>8 DEF Dealt
    <3>2. QED
      BY <3>1 DEF TkCntRight, TileCounts
  <2>12. QED
    BY <2>9, <2>10, <2>11
<1>13. QED
  BY <1>8, <1>10, <1>11, <1>12 DEF TopkInv

LEMMA CountKeeps ==
  ASSUME NEW score, NEW row, TopkInv(score, row), NEW t \in Tiles, TkCount(score, t)
  PROVE  TopkInv(score, row)'
<1> USE ConstantsAre
<1>1. TkShape /\ TkStage /\ KeysOf(score, tk.n) /\ tk.stage = "count" /\ t \notin tk.done
  BY DEF TopkInv, TkCount, TileStep
<1>2. PICK n, q : n = tk.n /\ q = tk.prefix
  OBVIOUS
<1>3. PICK w : w = IF Fast THEN [gt |-> 0, eq |-> 0]
                   ELSE [gt |-> Cardinality(Above(score, t)), eq |-> Cardinality(AtThreshold(score, t))]
  OBVIOUS
<1>4. PICK st, dn : st = After(t, "scan").stage /\ dn = After(t, "scan").done
  OBVIOUS
<1>5. PICK c : c = [tk.cnt EXCEPT ![t] = w]
  OBVIOUS
<1>6. tk' = [stage |-> st, done |-> dn, pass |-> tk.pass, n |-> tk.n, prefix |-> tk.prefix,
             rem |-> tk.rem, hist |-> tk.hist, cnt |-> c, off |-> tk.off, sel |-> tk.sel]
  <2>1. tk' = [tk EXCEPT !.cnt[t] = w, !.stage = st, !.done = dn]
    BY <1>3, <1>4 DEF TkCount
  <2>2. QED
    BY <1>1, <1>5, <2>1 DEF TkShape
<1>7. \/ tk.done \cup {t} = Tiles /\ st = "scan" /\ dn = {}
      \/ tk.done \cup {t} # Tiles /\ tk.done \cup {t} \in SUBSET Tiles /\ st = "count" /\ dn = tk.done \cup {t}
  <2>1. "scan" # tk.stage
    BY <1>1
  <2>2. QED
    BY <1>1, <1>4, <2>1, AfterIs
<1>8. TkShape'
  <2>1. c = [u \in Tiles |-> c[u]]
    BY <1>1, <1>5 DEF TkShape
  <2>2. QED
    BY <1>1, <1>6, <2>1 DEF TkShape
<1>9. TkStage'
  BY <1>1, <1>6, <1>7 DEF TkStage
<1>10. /\ KeysOf(score, tk.n)' /\ TkHistRight(score)' /\ TkOffRight(score)'
       /\ TkSelRight(score, row)' /\ TkCopied(row)' /\ (Fast' <=> Fast) /\ tk'.n = tk.n
  BY <1>1, <1>6, <1>7 DEF TkHistRight, TkOffRight, TkSelRight, TkCopied, Fast
<1>11. ASSUME ~ Fast
       PROVE  TkCut(score)' /\ TkCntRight(score)'
  <2>1. TkCut(score) /\ TileCounts(tk.cnt, score, q, n, tk.done)
    BY <1>1, <1>2, <1>11 DEF TopkInv, TkCntRight, Dealt
  <2>2. TkCut(score)'
    BY <1>6, <2>1 DEF TkCut
  <2>3. PICK Q : Q = tk.done \cup {t}
    OBVIOUS
  <2>4. Above(score, t) = Higher(score, q, n, {t}) /\ AtThreshold(score, t) = Equal(score, q, n, {t})
    BY <1>2 DEF Above, AtThreshold, Higher, Equal, Columns, TileOf
  <2>5. ASSUME NEW u \in Q
        PROVE  /\ c[u].gt = Cardinality(Higher(score, q, n, {u}))
               /\ c[u].eq = Cardinality(Equal(score, q, n, {u}))
    <3>1. CASE u = t
      <4>1. c[t] = w
        BY <1>1, <1>5 DEF TkShape
      <4>2. w.gt = Cardinality(Higher(score, q, n, {t})) /\ w.eq = Cardinality(Equal(score, q, n, {t}))
        BY <1>3, <1>11, <2>4
      <4>3. QED
        BY <3>1, <4>1, <4>2
    <3>2. CASE u # t
      <4>1. u \in tk.done /\ u \in Tiles
        BY <1>1, <2>3, <3>2 DEF TkStage
      <4>2. c[u] = tk.cnt[u]
        BY <1>1, <1>5, <3>2, <4>1 DEF TkShape
      <4>3. QED
        BY <2>1, <4>1, <4>2 DEF TileCounts
    <3>3. QED
      BY <3>1, <3>2
  <2>6. TileCounts(c, score, q, n, Q)
    BY <2>5 DEF TileCounts
  <2>7. Dealt("count")' = Q
    BY <1>6, <1>7, <2>3 DEF Dealt
  <2>8. TkCntRight(score)'
    <3>1. tk'.cnt = c /\ tk'.prefix = q /\ tk'.n = n
      BY <1>2, <1>6
    <3>2. QED
      BY <2>6, <2>7, <3>1 DEF TkCntRight
  <2>9. QED
    BY <2>2, <2>8
<1>12. QED
  BY <1>8, <1>9, <1>10, <1>11 DEF TopkInv

CountsOf(c) == [gt |-> [t \in Tiles |-> c[t].gt], eq |-> [t \in Tiles |-> c[t].eq]]

(* What the tiles of a set hold together.                                    *)
LEMMA TilesSum ==
  ASSUME NEW score, NEW q, NEW n, KeysOf(score, n), NEW c, TileCounts(c, score, q, n, Tiles),
         NEW Q \in SUBSET Tiles, NEW gt, gt = CountsOf(c).gt, NEW eq, eq = CountsOf(c).eq
  PROVE  /\ SumFunctionOnSet(gt, Q) = Cardinality(Higher(score, q, n, Q))
         /\ SumFunctionOnSet(eq, Q) = Cardinality(Equal(score, q, n, Q))
<1>1. n \in Nat /\ IsFiniteSet(Q)
  <2>1. IsFiniteSet(Tiles)
    BY TilesAre
  <2>2. QED
    BY <2>1, FS_Subset DEF KeysOf
<1>2. gt = [t \in Tiles |-> c[t].gt] /\ eq = [t \in Tiles |-> c[t].eq]
  BY DEF CountsOf
<1>3. PICK A, D : /\ A = [t \in Tiles |-> Higher(score, q, n, {t})]
                  /\ D = [t \in Tiles |-> Equal(score, q, n, {t})]
  OBVIOUS
<1>4. ASSUME NEW t \in Q
      PROVE  /\ IsFiniteSet(A[t]) /\ gt[t] = Cardinality(A[t])
             /\ IsFiniteSet(D[t]) /\ eq[t] = Cardinality(D[t])
  <2>1. t \in Tiles /\ A[t] = Higher(score, q, n, {t}) /\ D[t] = Equal(score, q, n, {t})
    BY <1>3
  <2>2. A[t] \in SUBSET (1 .. n) /\ D[t] \in SUBSET (1 .. n)
    BY <2>1 DEF Higher, Equal
  <2>3. IsFiniteSet(A[t]) /\ IsFiniteSet(D[t])
    BY <1>1, <2>2, ColumnsFinite
  <2>4. QED
    BY <1>2, <2>1, <2>3 DEF TileCounts
<1>5. ASSUME NEW t \in Q, NEW u \in Q, t # u
      PROVE  A[t] \cap A[u] = {} /\ D[t] \cap D[u] = {}
  BY <1>3, <1>5 DEF Higher, Equal
<1>6. Parts(Q, gt, A) /\ Parts(Q, eq, D)
  BY <1>4, <1>5 DEF Parts
<1>7. SumFunctionOnSet(gt, Q) = Cardinality(Joined(Q, A))
  BY <1>1, <1>6, SumIs
<1>8. SumFunctionOnSet(eq, Q) = Cardinality(Joined(Q, D))
  BY <1>1, <1>6, SumIs
<1>9. Joined(Q, A) = Higher(score, q, n, Q)
  <2>1. ASSUME NEW i
        PROVE  (\E t \in Q : i \in A[t]) <=> i \in Higher(score, q, n, Q)
    BY <1>3 DEF Higher
  <2>2. \A i : i \in Joined(Q, A) <=> \E t \in Q : i \in A[t]
    BY Zenon DEF Joined
  <2>3. QED
    BY <2>1, <2>2
<1>10. Joined(Q, D) = Equal(score, q, n, Q)
  <2>1. ASSUME NEW i
        PROVE  (\E t \in Q : i \in D[t]) <=> i \in Equal(score, q, n, Q)
    BY <1>3 DEF Equal
  <2>2. \A i : i \in Joined(Q, D) <=> \E t \in Q : i \in D[t]
    BY Zenon DEF Joined
  <2>3. QED
    BY <2>1, <2>2
<1>11. QED
  BY <1>7, <1>8, <1>9, <1>10

LEMMA ScanKeeps ==
  ASSUME NEW score, NEW row, TopkInv(score, row), TkScan
  PROVE  TopkInv(score, row)'
<1> USE ConstantsAre
<1>1. TkShape /\ TkStage /\ KeysOf(score, tk.n) /\ tk.stage = "scan" /\ tk.done = {}
  BY DEF TopkInv, TkScan, TkStage
<1>2. PICK n, q, c : n = tk.n /\ q = tk.prefix /\ c = tk.cnt
  OBVIOUS
<1>3. PICK gt, eq : gt = [t \in Tiles |-> c[t].gt] /\ eq = [t \in Tiles |-> c[t].eq]
  OBVIOUS
<1>4. PICK o : o = [t \in Tiles |->
                      [gt |-> SumFunctionOnSet(gt, Before(t)),
                       eq |-> SumFunction(gt) + SumFunctionOnSet(eq, Before(t))]]
  OBVIOUS
<1>5. tk' = [tk EXCEPT !.off = o, !.stage = "write"]
  <2>1. tk' = [tk EXCEPT !.off = [t \in Tiles |->
                   [gt |-> SumFunctionOnSet([u \in Tiles |-> tk.cnt[u].gt], {u \in Tiles : u < t}),
                    eq |-> SumFunction([u \in Tiles |-> tk.cnt[u].gt])
                             + SumFunctionOnSet([u \in Tiles |-> tk.cnt[u].eq], {u \in Tiles : u < t})]],
                         !.stage = "write"]
    BY Zenon DEF TkScan
  <2>2. [u \in Tiles |-> tk.cnt[u].gt] = gt /\ [u \in Tiles |-> tk.cnt[u].eq] = eq
    BY <1>2, <1>3
  <2>3. QED
    BY <1>4, <2>1, <2>2, Zenon DEF Before
<1>6. tk' = [stage |-> "write", done |-> {}, pass |-> tk.pass, n |-> tk.n, prefix |-> tk.prefix,
             rem |-> tk.rem, hist |-> tk.hist, cnt |-> tk.cnt, off |-> o, sel |-> tk.sel]
  BY <1>1, <1>5 DEF TkShape
<1>7. TkShape'
  BY <1>1, <1>6 DEF TkShape
<1>8. TkStage'
  <2>1. Tiles # {}
    BY TilesAre
  <2>2. QED
    BY <1>1, <1>6, <2>1 DEF TkStage
<1>9. /\ KeysOf(score, tk.n)' /\ TkHistRight(score)' /\ TkCntRight(score)'
      /\ TkCopied(row)' /\ (Fast' <=> Fast) /\ tk'.n = tk.n
  BY <1>1, <1>6 DEF TkHistRight, TkCntRight, TkCopied, Fast
<1>10. TkSelRight(score, row)'
  <2>1. Dealt("write")' = {}
    BY <1>6 DEF Dealt
  <2>2. QED
    BY <2>1 DEF TkSelRight, Selects
<1>11. ASSUME ~ Fast
       PROVE  TkCut(score)' /\ TkOffRight(score)'
  <2>1. TkCut(score) /\ TileCounts(c, score, q, n, Tiles)
    BY <1>1, <1>2, <1>11 DEF TopkInv, TkCntRight, Dealt
  <2>2. TkCut(score)'
    BY <1>6, <2>1 DEF TkCut
  <2>3. gt = CountsOf(c).gt /\ eq = CountsOf(c).eq
    BY <1>3 DEF CountsOf
  <2>4. KeysOf(score, n)
    BY <1>1, <1>2
  <2>5. ASSUME NEW t \in Tiles
        PROVE  /\ o[t].gt = Cardinality(Higher(score, q, n, Before(t)))
               /\ o[t].eq = Cardinality(Higher(score, q, n, Tiles)) + Cardinality(Equal(score, q, n, Before(t)))
    <3>1. PICK Q \in SUBSET Tiles : Q = Before(t)
      BY DEF Before
    <3>2. /\ SumFunctionOnSet(gt, Q) = Cardinality(Higher(score, q, n, Q))
          /\ SumFunctionOnSet(eq, Q) = Cardinality(Equal(score, q, n, Q))
      BY <2>1, <2>4, <2>3, TilesSum
    <3>3. PICK all \in SUBSET Tiles : all = Tiles
      OBVIOUS
    <3>4. SumFunctionOnSet(gt, all) = Cardinality(Higher(score, q, n, all))
      BY <2>1, <2>4, <2>3, TilesSum
    <3>5. SumFunction(gt) = SumFunctionOnSet(gt, all)
      BY <1>3, <3>3 DEF SumFunction
    <3>6. o[t] = [gt |-> SumFunctionOnSet(gt, Q), eq |-> SumFunction(gt) + SumFunctionOnSet(eq, Q)]
      BY <1>4, <3>1
    <3>7. QED
      BY <3>1, <3>2, <3>3, <3>4, <3>5, <3>6
  <2>6. Offsets(o, score, q, n)
    BY <2>5 DEF Offsets
  <2>7. TkOffRight(score)'
    <3>1. tk'.off = o /\ tk'.prefix = q /\ tk'.n = n
      BY <1>2, <1>6
    <3>2. QED
      BY <2>6, <3>1 DEF TkOffRight
  <2>8. QED
    BY <2>2, <2>7
<1>12. QED
  BY <1>7, <1>8, <1>9, <1>10, <1>11 DEF TopkInv


(* The place a tile works out for a column is the column's.                  *)
LEMMA PlaceInTile ==
  ASSUME NEW score, NEW n, KeysOf(score, n), NEW q \in Nat, NEW o, Offsets(o, score, q, n),
         NEW t \in Tiles, NEW i \in 1 .. n, TileOf(i) = t, Key(score[i]) >= q
  PROVE  /\ Place(score, q, n, i) \in Nat
         /\ Key(score[i]) > q =>
              i \in Higher(score, q, n, {t})
              /\ o[t].gt + Rank(Higher(score, q, n, {t}), i) = Place(score, q, n, i)
         /\ ~ (Key(score[i]) > q) =>
              i \in Equal(score, q, n, {t})
              /\ o[t].eq + Rank(Equal(score, q, n, {t}), i) = Place(score, q, n, i)
<1>1. n \in Nat /\ \A j \in 1 .. n : j \in 1 .. Width /\ TileOf(j) \in Tiles /\ Key(score[j]) \in Nat
  <2>1. n \in Nat /\ \A j \in 1 .. n : j \in 1 .. Width
    BY ConstantsAre DEF KeysOf
  <2>2. QED
    BY <2>1, TilesAre, KeyIs DEF KeysOf
<1>2. ASSUME NEW j \in 1 .. n
      PROVE  j < i <=> TileOf(j) \in Before(t) \/ (TileOf(j) = t /\ j < i)
  <2>1. TileOf(j) \in Nat /\ t \in Nat /\ j \in Int /\ i \in Int
    <3>1. Tiles \in SUBSET Nat /\ TileOf(j) \in Tiles
      BY <1>1, TilesAre
    <3>2. j \in Int /\ i \in Int
      OBVIOUS
    <3>3. QED
      BY <3>1, <3>2
  <2>2. j < i => TileOf(j) <= t
    BY <1>1, TilesAre
  <2>3. i < j => t <= TileOf(j)
    BY <1>1, TilesAre
  <2>4. j = i => TileOf(j) = t
    OBVIOUS
  <2>5. TileOf(j) \in Before(t) <=> TileOf(j) < t
    BY <1>1 DEF Before
  <2>6. QED
    BY <2>1, <2>2, <2>3, <2>4, <2>5
<1>3. t \notin Before(t) /\ Before(t) \subseteq Tiles
  <2>1. t \in Nat
    BY TilesAre
  <2>2. QED
    BY <2>1 DEF Before
<1>4. PICK H, E, hb, eb, ht, et :
        /\ H = Higher(score, q, n, Tiles) /\ E = Equal(score, q, n, Tiles)
        /\ hb = Higher(score, q, n, Before(t)) /\ eb = Equal(score, q, n, Before(t))
        /\ ht = Higher(score, q, n, {t}) /\ et = Equal(score, q, n, {t})
  OBVIOUS
<1>5. Rank(H, i) = Cardinality(hb) + Rank(ht, i) /\ Rank(H, i) \in Nat
  <2>1. PICK C, D : C = {j \in H : j < i} /\ D = {j \in ht : j < i}
    OBVIOUS
  <2>2. ASSUME NEW j \in 1 .. n
        PROVE  (j \in C <=> j \in hb \/ j \in D) /\ ~ (j \in hb /\ j \in D)
    BY <1>1, <1>2, <1>3, <1>4, <2>1 DEF Higher
  <2>3. C \in SUBSET (1 .. n) /\ hb \in SUBSET (1 .. n) /\ D \in SUBSET (1 .. n)
    BY <1>4, <2>1 DEF Higher
  <2>4. C = hb \cup D /\ hb \cap D = {}
    BY <2>2, <2>3
  <2>5. IsFiniteSet(C) /\ Cardinality(C) \in Nat
    BY <1>1, <2>3, ColumnsFinite
  <2>6. Cardinality(C) = Cardinality(hb) + Cardinality(D)
    BY <2>4, <2>5, PartsSize
  <2>7. QED
    BY <2>1, <2>5, <2>6 DEF Rank
<1>6. Rank(E, i) = Cardinality(eb) + Rank(et, i) /\ Rank(E, i) \in Nat /\ Cardinality(eb) \in Nat
      /\ Rank(et, i) \in Nat
  <2>1. PICK C, D : C = {j \in E : j < i} /\ D = {j \in et : j < i}
    OBVIOUS
  <2>2. ASSUME NEW j \in 1 .. n
        PROVE  (j \in C <=> j \in eb \/ j \in D) /\ ~ (j \in eb /\ j \in D)
    BY <1>1, <1>2, <1>3, <1>4, <2>1 DEF Equal
  <2>3. C \in SUBSET (1 .. n) /\ eb \in SUBSET (1 .. n) /\ D \in SUBSET (1 .. n)
    BY <1>4, <2>1 DEF Equal
  <2>4. C = eb \cup D /\ eb \cap D = {}
    BY <2>2, <2>3
  <2>5. IsFiniteSet(C) /\ Cardinality(C) \in Nat
    BY <1>1, <2>3, ColumnsFinite
  <2>6. /\ Cardinality(eb) \in Nat /\ Cardinality(D) \in Nat
        /\ Cardinality(C) = Cardinality(eb) + Cardinality(D)
    BY <2>4, <2>5, PartsSize
  <2>7. QED
    BY <2>1, <2>5, <2>6 DEF Rank
<1>7. Cardinality(H) \in Nat
  <2>1. H \in SUBSET (1 .. n)
    BY <1>4 DEF Higher
  <2>2. QED
    BY <1>1, <2>1, ColumnsFinite
<1>8. /\ o[t].gt = Cardinality(hb) /\ o[t].eq = Cardinality(H) + Cardinality(eb)
  BY <1>4 DEF Offsets
<1>9. CASE Key(score[i]) > q
  <2>1. Place(score, q, n, i) = Rank(H, i) /\ i \in ht
    BY <1>4, <1>9 DEF Place, Higher
  <2>2. QED
    BY <1>4, <1>5, <1>8, <1>9, <2>1
<1>10. CASE ~ (Key(score[i]) > q)
  <2>1. Key(score[i]) = q
    BY <1>1, <1>10
  <2>2. Place(score, q, n, i) = Cardinality(H) + Rank(E, i) /\ i \in et
    BY <1>4, <1>10, <2>1 DEF Place, Equal
  <2>3. o[t].eq + Rank(et, i) = Cardinality(H) + Rank(E, i)
    BY <1>6, <1>7, <1>8
  <2>4. QED
    BY <1>4, <1>6, <1>7, <1>10, <2>2, <2>3
<1>11. QED
  BY <1>9, <1>10

(* Two columns of one place are one.                                         *)
LEMMA OnePlace ==
  ASSUME NEW score, NEW n, KeysOf(score, n), NEW q \in Nat,
         NEW i \in 1 .. n, NEW j \in 1 .. n, Key(score[i]) >= q, Key(score[j]) >= q,
         Place(score, q, n, i) = Place(score, q, n, j)
  PROVE  i = j
<1>1. ~ (i < j)
  BY PlacesDiffer
<1>2. ~ (j < i)
  BY PlacesDiffer
<1>3. i \in Int /\ j \in Int
  OBVIOUS
<1>4. QED
  BY <1>1, <1>2, <1>3

(* What a tile writes: its own columns at their places, the rest as it was.  *)
LEMMA WrittenIs ==
  ASSUME NEW score, NEW row, TopkInv(score, row), ~ Fast, tk.stage = "write", NEW t \in Tiles,
         NEW i \in 1 .. tk.n, Key(score[i]) >= tk.prefix,
         Place(score, tk.prefix, tk.n, i) < TopK
  PROVE  /\ Place(score, tk.prefix, tk.n, i) + 1 \in 1 .. TopK
         /\ TileOf(i) = t => Written(score, row, t)[Place(score, tk.prefix, tk.n, i) + 1] = row[i]
         /\ TileOf(i) # t => Written(score, row, t)[Place(score, tk.prefix, tk.n, i) + 1]
                               = tk.sel[Place(score, tk.prefix, tk.n, i) + 1]
<1> USE ConstantsAre
<1>1. PICK n, q, r, o : n = tk.n /\ q = tk.prefix /\ r = tk.rem /\ o = tk.off
  OBVIOUS
<1>2. /\ KeysOf(score, n) /\ q \in Nat /\ r \in 1 .. TopK /\ Offsets(o, score, q, n) /\ i \in 1 .. n
      /\ Key(score[i]) >= q
  BY <1>1 DEF TopkInv, TkCut, TkOffRight
<1>3. PICK G, E : G = Above(score, t) /\ E = AtThreshold(score, t)
  OBVIOUS
<1>4. G = Higher(score, q, n, {t}) /\ E = Equal(score, q, n, {t})
  BY <1>1, <1>3 DEF Above, AtThreshold, Higher, Equal, Columns, TileOf
<1>5. PICK og, oe : og = o[t].gt /\ oe = o[t].eq
  OBVIOUS
<1>6. PICK L : L = Written(score, row, t)
  OBVIOUS
<1>7. L = [p \in 1 .. TopK |->
             IF \E j \in G : og + Rank(G, j) = p - 1
             THEN row[CHOOSE j \in G : og + Rank(G, j) = p - 1]
             ELSE IF \E j \in E : Kept(oe + Rank(E, j)) /\ oe + Rank(E, j) = p - 1
             THEN row[CHOOSE j \in E : Kept(oe + Rank(E, j)) /\ oe + Rank(E, j) = p - 1]
             ELSE tk.sel[p]]
  BY <1>1, <1>3, <1>5, <1>6, Zenon DEF Written
<1>8. ASSUME NEW j \in 1 .. n, Key(score[j]) >= q
      PROVE  Place(score, q, n, j) \in Nat
  <2>1. TileOf(j) \in Tiles
    <3>1. j \in 1 .. Width
      BY <1>2 DEF KeysOf
    <3>2. QED
      BY <3>1, TilesAre
  <2>2. PICK u \in Tiles : u = TileOf(j)
    BY <2>1
  <2>3. QED
    BY <1>2, <1>8, <2>2, PlaceInTile
<1>9. ASSUME NEW j \in G
      PROVE  /\ j \in 1 .. n /\ Key(score[j]) >= q /\ Key(score[j]) > q /\ TileOf(j) = t
             /\ og + Rank(G, j) = Place(score, q, n, j)
  <2>1. j \in 1 .. n /\ Key(score[j]) > q /\ TileOf(j) = t
    BY <1>4 DEF Higher
  <2>2. Key(score[j]) \in Nat
    BY <1>2, <2>1, KeyIs DEF KeysOf
  <2>3. Key(score[j]) >= q
    BY <1>2, <2>1, <2>2
  <2>4. QED
    BY <1>2, <1>4, <1>5, <2>1, <2>3, PlaceInTile
<1>10. ASSUME NEW j \in E
       PROVE  /\ j \in 1 .. n /\ Key(score[j]) >= q /\ Key(score[j]) = q /\ TileOf(j) = t
              /\ oe + Rank(E, j) = Place(score, q, n, j)
  <2>1. j \in 1 .. n /\ Key(score[j]) = q /\ TileOf(j) = t
    BY <1>4 DEF Equal
  <2>2. Key(score[j]) >= q /\ ~ (Key(score[j]) > q)
    BY <1>2, <2>1
  <2>3. QED
    BY <1>2, <1>4, <1>5, <2>1, <2>2, PlaceInTile
<1>11. PICK k \in Nat, p \in 1 .. TopK : k = Place(score, q, n, i) /\ k < TopK /\ p = k + 1 /\ p - 1 = k
  <2>1. PICK k \in Nat : k = Place(score, q, n, i)
    BY <1>2, <1>8
  <2>2. k < TopK
    BY <1>1, <2>1
  <2>3. k + 1 \in 1 .. TopK /\ (k + 1) - 1 = k
    BY <2>2
  <2>4. QED
    BY <2>1, <2>2, <2>3
<1>12. ASSUME NEW j \in G, og + Rank(G, j) = p - 1
       PROVE  j = i
  BY <1>2, <1>9, <1>11, <1>12, OnePlace
<1>13. ASSUME NEW j \in E, oe + Rank(E, j) = p - 1
       PROVE  j = i
  BY <1>2, <1>10, <1>11, <1>13, OnePlace
<1>14. CASE TileOf(i) = t
  <2>1. CASE Key(score[i]) > q
    <3>1. i \in G /\ og + Rank(G, i) = p - 1
      <4>1. i \in G
        BY <1>2, <1>4, <1>14, <2>1 DEF Higher
      <4>2. QED
        BY <1>9, <1>11, <4>1
    <3>2. i = CHOOSE j \in G : og + Rank(G, j) = p - 1
      BY <1>12, <3>1
    <3>3. L[p] = row[CHOOSE j \in G : og + Rank(G, j) = p - 1]
      BY <1>7, <3>1
    <3>4. QED
      BY <1>1, <1>6, <1>11, <1>14, <3>2, <3>3
  <2>2. CASE ~ (Key(score[i]) > q)
    <3>1. i \in E /\ oe + Rank(E, i) = p - 1
      <4>1. Key(score[i]) \in Nat
        BY <1>2, KeyIs DEF KeysOf
      <4>2. Key(score[i]) = q
        BY <1>2, <2>2, <4>1
      <4>3. i \in E
        BY <1>2, <1>4, <1>14, <4>2 DEF Equal
      <4>4. QED
        BY <1>10, <1>11, <4>3
    <3>2. ~ \E j \in G : og + Rank(G, j) = p - 1
      BY <1>9, <1>12, <2>2
    <3>3. Kept(oe + Rank(E, i))
      BY <1>1, <1>2, <1>11, <3>1 DEF Kept
    <3>4. i = CHOOSE j \in E : Kept(oe + Rank(E, j)) /\ oe + Rank(E, j) = p - 1
      BY <1>13, <3>1, <3>3
    <3>5. L[p] = row[CHOOSE j \in E : Kept(oe + Rank(E, j)) /\ oe + Rank(E, j) = p - 1]
      BY <1>7, <3>1, <3>2, <3>3
    <3>6. QED
      BY <1>1, <1>6, <1>11, <1>14, <3>4, <3>5
  <2>3. QED
    BY <2>1, <2>2
<1>15. CASE TileOf(i) # t
  <2>1. ~ \E j \in G : og + Rank(G, j) = p - 1
    BY <1>9, <1>12, <1>15
  <2>2. ~ \E j \in E : Kept(oe + Rank(E, j)) /\ oe + Rank(E, j) = p - 1
    BY <1>10, <1>13, <1>15
  <2>3. L[p] = tk.sel[p]
    BY <1>7, <2>1, <2>2
  <2>4. QED
    BY <1>1, <1>6, <1>11, <1>15, <2>3
<1>16. QED
  BY <1>14, <1>15

LEMMA WriteKeeps ==
  ASSUME NEW score, NEW row, TopkInv(score, row), NEW t \in Tiles, TkWrite(score, row, t)
  PROVE  TopkInv(score, row)'
<1> USE ConstantsAre
<1>1. TkShape /\ TkStage /\ KeysOf(score, tk.n) /\ tk.stage = "write" /\ t \notin tk.done
  BY DEF TopkInv, TkWrite, TileStep
<1>2. PICK n, q : n = tk.n /\ q = tk.prefix
  OBVIOUS
<1>3. PICK w : w = IF Fast THEN IF t = 0 THEN Copied(row) ELSE tk.sel ELSE Written(score, row, t)
  OBVIOUS
<1>4. PICK st, dn : st = After(t, "done").stage /\ dn = After(t, "done").done
  OBVIOUS
<1>5. tk' = [stage |-> st, done |-> dn, pass |-> tk.pass, n |-> tk.n, prefix |-> tk.prefix,
             rem |-> tk.rem, hist |-> tk.hist, cnt |-> tk.cnt, off |-> tk.off, sel |-> w]
  <2>1. tk' = [tk EXCEPT !.sel = w, !.stage = st, !.done = dn]
    BY <1>3, <1>4 DEF TkWrite
  <2>2. QED
    BY <1>1, <2>1 DEF TkShape
<1>6. \/ tk.done \cup {t} = Tiles /\ st = "done" /\ dn = {}
      \/ tk.done \cup {t} # Tiles /\ tk.done \cup {t} \in SUBSET Tiles /\ st = "write" /\ dn = tk.done \cup {t}
  <2>1. "done" # tk.stage
    BY <1>1
  <2>2. QED
    BY <1>1, <1>4, <2>1, AfterIs
<1>7. TkShape'
  <2>1. w = [p \in 1 .. TopK |-> w[p]]
    <3>1. Copied(row) = [p \in 1 .. TopK |-> Copied(row)[p]]
      BY DEF Copied
    <3>2. Written(score, row, t) = [p \in 1 .. TopK |-> Written(score, row, t)[p]]
      BY DEF Written
    <3>3. QED
      BY <1>1, <1>3, <3>1, <3>2 DEF TkShape
  <2>2. QED
    BY <1>1, <1>5, <2>1 DEF TkShape
<1>8. TkStage'
  BY <1>1, <1>5, <1>6 DEF TkStage
<1>9. /\ KeysOf(score, tk.n)' /\ TkHistRight(score)' /\ TkCntRight(score)' /\ (Fast' <=> Fast) /\ tk'.n = tk.n
  BY <1>1, <1>5, <1>6 DEF TkHistRight, TkCntRight, Fast
<1>10. ASSUME Fast
       PROVE  TkCopied(row)'
  <2>1. Copied(row)' = Copied(row)
    BY <1>5 DEF Copied
  <2>2. CASE t = 0
    <3>1. tk'.sel = Copied(row)
      BY <1>3, <1>5, <1>10, <2>2
    <3>2. QED
      BY <2>1, <3>1 DEF TkCopied
  <2>3. CASE t # 0
    <3>1. tk'.sel = tk.sel
      BY <1>3, <1>5, <1>10, <2>3
    <3>2. (tk'.stage = "write" /\ 0 \in tk'.done) \/ tk'.stage = "done" => 0 \in tk.done
      BY <1>5, <1>6, <2>3, TilesAre
    <3>3. 0 \in tk.done => tk.sel = Copied(row)
      BY <1>1, <1>10 DEF TopkInv, TkCopied
    <3>4. QED
      BY <2>1, <3>1, <3>2, <3>3 DEF TkCopied
  <2>4. QED
    BY <2>2, <2>3
<1>11. ASSUME ~ Fast
       PROVE  TkCut(score)' /\ TkOffRight(score)' /\ TkSelRight(score, row)'
  <2>1. TkCut(score) /\ Offsets(tk.off, score, q, n) /\ Selects(tk.sel, score, row, q, n, tk.done)
    BY <1>1, <1>2, <1>11 DEF TopkInv, TkOffRight, TkSelRight, Dealt
  <2>2. TkCut(score)'
    BY <1>5, <2>1 DEF TkCut
  <2>3. TkOffRight(score)'
    BY <1>2, <1>5, <2>1 DEF TkOffRight
  <2>4. PICK Q : Q = tk.done \cup {t}
    OBVIOUS
  <2>5. ASSUME NEW i \in 1 .. n, TileOf(i) \in Q, Key(score[i]) >= q, Place(score, q, n, i) < TopK
        PROVE  w[Place(score, q, n, i) + 1] = row[i]
    <3>1. w = Written(score, row, t)
      BY <1>3, <1>11
    <3>2. /\ TileOf(i) = t => Written(score, row, t)[Place(score, q, n, i) + 1] = row[i]
          /\ TileOf(i) # t => Written(score, row, t)[Place(score, q, n, i) + 1]
                                = tk.sel[Place(score, q, n, i) + 1]
      BY <1>1, <1>2, <1>11, <2>5, WrittenIs
    <3>3. TileOf(i) # t => TileOf(i) \in tk.done
      BY <2>4, <2>5
    <3>4. TileOf(i) \in tk.done => tk.sel[Place(score, q, n, i) + 1] = row[i]
      BY <2>1, <2>5 DEF Selects
    <3>5. QED
      BY <3>1, <3>2, <3>3, <3>4
  <2>6. Selects(w, score, row, q, n, Q)
    BY <2>5 DEF Selects
  <2>7. Dealt("write")' = Q
    BY <1>5, <1>6, <2>4 DEF Dealt
  <2>8. TkSelRight(score, row)'
    <3>1. tk'.sel = w /\ tk'.prefix = q /\ tk'.n = n
      BY <1>2, <1>5
    <3>2. QED
      BY <2>6, <2>7, <3>1 DEF TkSelRight
  <2>9. QED
    BY <2>2, <2>3, <2>8
<1>12. QED
  BY <1>7, <1>8, <1>9, <1>10, <1>11 DEF TopkInv

(* Every program of every launch, whichever of its launch ran before it,    *)
(* keeps what the select knows of its keys (_tk_hist to _tk_write).         *)
THEOREM TopkKeeps ==
  ASSUME NEW score, NEW row, TopkInv(score, row), TkStep(score, row)
  PROVE  TopkInv(score, row)'
<1>1. CASE TkSelect
  BY <1>1, SelectKeeps
<1>2. CASE TkScan
  BY <1>2, ScanKeeps
<1>3. ASSUME NEW t \in Tiles, TkHist(score, t) \/ TkCount(score, t) \/ TkWrite(score, row, t)
      PROVE  TopkInv(score, row)'
  BY <1>3, HistKeeps, CountKeeps, WriteKeeps
<1>4. QED
  BY <1>1, <1>2, <1>3 DEF TkStep


-----------------------------------------------------------------------------
(* The selection of a finished call.                                         *)

Chosen(score, q, n) == {i \in 1 .. n : Key(score[i]) >= q /\ Place(score, q, n, i) < TopK}
RowApart(row, n) ==
  /\ \A i \in 1 .. n : row[i] # NoSlot
  /\ \A i, j \in 1 .. n : row[i] = row[j] => i = j

(* Every place below TopK is some chosen column's.                           *)
LEMMA PlacesFilled ==
  ASSUME NEW score, NEW row, TopkInv(score, row), ~ Fast, tk.stage = "done", NEW k \in 0 .. (TopK - 1)
  PROVE  \E i \in Chosen(score, tk.prefix, tk.n) : Place(score, tk.prefix, tk.n, i) = k
<1> USE ConstantsAre
<1>1. PICK n, q, r : n = tk.n /\ q = tk.prefix /\ r = tk.rem
  OBVIOUS
<1>2. /\ KeysOf(score, n) /\ q \in Nat /\ r \in 1 .. TopK /\ tk.pass = Passes + 1
      /\ Cardinality(Over(score, q, tk.pass - 1, n)) = TopK - r
      /\ Cardinality(On(score, q, tk.pass - 1, n)) >= r
  BY <1>1 DEF TopkInv, TkCut, TkStage
<1>3. tk.pass - 1 = Passes
  BY <1>2
<1>4. n \in Nat /\ \A j \in 1 .. n : TileOf(j) \in Tiles /\ Key(score[j]) \in Nat
                                     /\ Prefix(Key(score[j]), Passes) = Key(score[j])
  <2>1. n \in Nat /\ \A j \in 1 .. n : j \in 1 .. Width
    BY <1>2 DEF KeysOf
  <2>2. \A j \in 1 .. n : Key(score[j]) \in Nat
    BY <1>2, KeyIs DEF KeysOf
  <2>3. QED
    BY <2>1, <2>2, TilesAre, PrefixLast
<1>5. PICK H, E : H = Higher(score, q, n, Tiles) /\ E = Equal(score, q, n, Tiles)
  OBVIOUS
<1>6. Over(score, q, Passes, n) = H /\ On(score, q, Passes, n) = E
  BY <1>4, <1>5 DEF Over, On, Higher, Equal
<1>7. /\ H \in SUBSET (1 .. n) /\ E \in SUBSET (1 .. n)
      /\ IsFiniteSet(H) /\ IsFiniteSet(E) /\ H \in SUBSET Int /\ E \in SUBSET Int
  <2>1. H \in SUBSET (1 .. n) /\ E \in SUBSET (1 .. n)
    BY <1>5 DEF Higher, Equal
  <2>2. QED
    BY <1>4, <2>1, ColumnsFinite
<1>8. PICK h \in Nat, e \in Nat : h = Cardinality(H) /\ e = Cardinality(E) /\ h = TopK - r /\ e >= r
  BY <1>2, <1>3, <1>6, <1>7, FS_CardinalityType
<1>9. CASE k < h
  <2>1. k \in Nat /\ k < Cardinality(H)
    BY <1>8, <1>9
  <2>2. PICK i \in H : Cardinality({x \in H : x < i}) = k
    BY <1>7, <2>1, Ranks
  <2>3. i \in 1 .. n /\ Key(score[i]) > q /\ Key(score[i]) \in Nat
    BY <1>4, <1>5 DEF Higher
  <2>4. Place(score, q, n, i) = k
    BY <1>5, <2>2, <2>3 DEF Place, Rank
  <2>5. i \in Chosen(score, q, n)
    BY <1>2, <2>3, <2>4 DEF Chosen
  <2>6. QED
    BY <1>1, <2>4, <2>5
<1>10. CASE ~ (k < h)
  <2>1. PICK m \in Nat : m = k - h /\ m < Cardinality(E)
    <3>1. k - h \in Nat /\ k - h < e
      BY <1>2, <1>8, <1>10
    <3>2. QED
      BY <1>8, <3>1
  <2>2. PICK i \in E : Cardinality({x \in E : x < i}) = m
    BY <1>7, <2>1, Ranks
  <2>3. i \in 1 .. n /\ Key(score[i]) = q
    BY <1>5 DEF Equal
  <2>4. Place(score, q, n, i) = h + m
    <3>1. ~ (Key(score[i]) > q)
      BY <1>2, <2>3
    <3>2. QED
      BY <1>5, <1>8, <2>2, <3>1 DEF Place, Rank
  <2>5. h + m = k
    BY <1>8, <2>1
  <2>6. i \in Chosen(score, q, n)
    <3>1. Key(score[i]) >= q /\ Place(score, q, n, i) < TopK
      BY <1>2, <2>3, <2>4, <2>5
    <3>2. QED
      BY <2>3, <3>1 DEF Chosen
  <2>7. QED
    BY <1>1, <2>4, <2>5, <2>6
<1>11. QED
  BY <1>9, <1>10

LEMMA SelectionSize ==
  ASSUME NEW score, NEW row, TopkInv(score, row), ~ Fast, tk.stage = "done"
  PROVE  Cardinality(Chosen(score, tk.prefix, tk.n)) = TopK
<1> USE ConstantsAre
<1>1. PICK n, q, C : n = tk.n /\ q = tk.prefix /\ C = Chosen(score, q, n)
  OBVIOUS
<1>2. KeysOf(score, n) /\ q \in Nat /\ n \in Nat
  BY <1>1 DEF TopkInv, TkCut, KeysOf
<1>3. ASSUME NEW i \in C
      PROVE  /\ i \in 1 .. n /\ Key(score[i]) >= q
             /\ Place(score, q, n, i) \in Nat /\ Place(score, q, n, i) < TopK
  <2>1. i \in 1 .. n /\ Key(score[i]) >= q /\ Place(score, q, n, i) < TopK
    BY <1>1 DEF Chosen
  <2>2. TileOf(i) \in Tiles
    <3>1. i \in 1 .. Width
      BY <1>2, <2>1 DEF KeysOf
    <3>2. QED
      BY <3>1, TilesAre
  <2>3. Offsets(tk.off, score, q, n)
    BY <1>1 DEF TopkInv, TkOffRight
  <2>4. PICK t \in Tiles : t = TileOf(i)
    BY <2>2
  <2>5. Place(score, q, n, i) \in Nat
    BY <1>2, <2>1, <2>3, <2>4, PlaceInTile
  <2>6. QED
    BY <2>1, <2>5
<1>4. C \in SUBSET (1 .. n) /\ IsFiniteSet(C) /\ Cardinality(C) \in Nat
  <2>1. C \in SUBSET (1 .. n)
    BY <1>3
  <2>2. QED
    BY <1>2, <2>1, ColumnsFinite
<1>5. PICK K : K = 0 .. (TopK - 1)
  OBVIOUS
<1>6. IsFiniteSet(K) /\ Cardinality(K) = TopK
  BY <1>5, IntervalSize
<1>7. \A k \in K : \E i \in C : Place(score, q, n, i) = k
  BY <1>1, <1>5, PlacesFilled
<1>8. TopK <= Cardinality(C)
  <2>1. PICK F : F = [i \in C |-> Place(score, q, n, i)]
    OBVIOUS
  <2>2. F = [i \in C |-> F[i]] /\ \A k \in K : \E i \in C : F[i] = k
    BY <1>7, <2>1
  <2>3. Cardinality(K) <= Cardinality(C)
    BY <1>4, <2>2, ImageSize
  <2>4. QED
    BY <1>6, <2>3
<1>9. Cardinality(C) <= TopK
  <2>1. PICK F : F = [k \in K |-> CHOOSE i \in C : Place(score, q, n, i) = k]
    OBVIOUS
  <2>2. ASSUME NEW i \in C
        PROVE  \E k \in K : F[k] = i
    <3>1. PICK k \in K : k = Place(score, q, n, i)
      BY <1>3, <1>5
    <3>2. ASSUME NEW j \in C, Place(score, q, n, j) = k
          PROVE  j = i
      BY <1>2, <1>3, <3>1, <3>2, OnePlace
    <3>3. F[k] = CHOOSE j \in C : Place(score, q, n, j) = k
      BY <2>1
    <3>4. F[k] = i
      BY <3>1, <3>2, <3>3
    <3>5. QED
      BY <3>4
  <2>3. F = [k \in K |-> F[k]]
    BY <2>1
  <2>4. Cardinality(C) <= Cardinality(K)
    BY <1>6, <2>2, <2>3, ImageSize
  <2>5. QED
    BY <1>6, <2>4
<1>10. QED
  BY <1>1, <1>4, <1>8, <1>9

LEMMA SelectedAre ==
  ASSUME NEW score, NEW row, TopkInv(score, row), ~ Fast, tk.stage = "done"
  PROVE  /\ \A p \in 1 .. TopK : \E i \in Chosen(score, tk.prefix, tk.n) : tk.sel[p] = row[i]
         /\ \A i \in Chosen(score, tk.prefix, tk.n) : \E p \in 1 .. TopK : tk.sel[p] = row[i]
<1> USE ConstantsAre
<1>1. PICK n, q, C : n = tk.n /\ q = tk.prefix /\ C = Chosen(score, q, n)
  OBVIOUS
<1>2. KeysOf(score, n) /\ q \in Nat /\ Selects(tk.sel, score, row, q, n, Tiles)
      /\ Offsets(tk.off, score, q, n)
  BY <1>1 DEF TopkInv, TkCut, TkSelRight, TkOffRight, Dealt
<1>3. ASSUME NEW i \in C
      PROVE  /\ Place(score, q, n, i) \in Nat /\ Place(score, q, n, i) < TopK
             /\ tk.sel[Place(score, q, n, i) + 1] = row[i]
  <2>1. i \in 1 .. n /\ Key(score[i]) >= q /\ Place(score, q, n, i) < TopK
    BY <1>1 DEF Chosen
  <2>2. TileOf(i) \in Tiles
    <3>1. i \in 1 .. Width
      BY <1>2, <2>1 DEF KeysOf
    <3>2. QED
      BY <3>1, TilesAre
  <2>3. PICK t \in Tiles : t = TileOf(i)
    BY <2>2
  <2>4. Place(score, q, n, i) \in Nat
    BY <1>2, <2>1, <2>3, PlaceInTile
  <2>5. QED
    BY <1>2, <2>1, <2>2, <2>4 DEF Selects
<1>4. ASSUME NEW p \in 1 .. TopK
      PROVE  \E i \in C : tk.sel[p] = row[i]
  <2>1. PICK k \in 0 .. (TopK - 1) : k = p - 1 /\ k + 1 = p
    <3>1. p - 1 \in 0 .. (TopK - 1) /\ (p - 1) + 1 = p
      OBVIOUS
    <3>2. QED
      BY <3>1
  <2>2. PICK i \in C : Place(score, q, n, i) = k
    BY <1>1, PlacesFilled
  <2>3. QED
    BY <1>3, <2>1, <2>2
<1>5. ASSUME NEW i \in C
      PROVE  \E p \in 1 .. TopK : tk.sel[p] = row[i]
  <2>1. PICK k \in Nat : k = Place(score, q, n, i) /\ k < TopK /\ tk.sel[k + 1] = row[i]
    BY <1>3
  <2>2. k + 1 \in 1 .. TopK
    BY <2>1
  <2>3. QED
    BY <2>1, <2>2
<1>6. QED
  BY <1>1, <1>4, <1>5

LEMMA FinishedExact ==
  ASSUME NEW score, NEW row, TopkInv(score, row), RowApart(row, tk.n)
  PROVE  TopkExact(score, row)
<1> USE ConstantsAre
<1>0. SUFFICES ASSUME tk.stage = "done"
               PROVE  LET got == {p \in 1 .. TopK : tk.sel[p] # NoSlot}
                          cols == {i \in 1 .. tk.n : \E p \in got : tk.sel[p] = row[i]}
                      IN /\ Cardinality(got) = Smaller(TopK, tk.n)
                         /\ Cardinality(cols) = Cardinality(got)
                         /\ \A i \in cols, j \in (1 .. tk.n) \ cols : AtLeastFloat(score[i], score[j])
  BY Zenon DEF TopkExact
<1>1. PICK n, q : n = tk.n /\ q = tk.prefix
  OBVIOUS
<1>2. KeysOf(score, n) /\ n \in Nat /\ n \in 1 .. Width
  BY <1>1 DEF TopkInv, KeysOf
<1>3. PICK got : got = {p \in 1 .. TopK : tk.sel[p] # NoSlot}
  OBVIOUS
<1>4. PICK cols : cols = {i \in 1 .. tk.n : \E p \in got : tk.sel[p] = row[i]}
  OBVIOUS
<1>5. ASSUME NEW k \in Nat
      PROVE  Cardinality(1 .. k) = k
  <2>1. 1 \in Int /\ k \in Int
    OBVIOUS
  <2>2. Cardinality(1 .. k) = IF 1 > k THEN 0 ELSE k - 1 + 1
    BY <2>1, FS_Interval
  <2>3. QED
    BY <2>2
<1>6. CASE Fast
  <2>1. n <= TopK /\ tk.sel = Copied(row)
    BY <1>0, <1>1, <1>6 DEF TopkInv, TkCopied, Fast
  <2>2. ASSUME NEW p \in 1 .. TopK
        PROVE  tk.sel[p] = IF p <= n THEN row[p] ELSE NoSlot
    BY <1>1, <2>1 DEF Copied
  <2>3. got = 1 .. n
    <3>1. ASSUME NEW p \in 1 .. TopK
          PROVE  tk.sel[p] # NoSlot <=> p <= n
      BY <1>1, <1>2, <2>2 DEF RowApart
    <3>2. QED
      BY <1>2, <1>3, <2>1, <3>1
  <2>4. cols = 1 .. n
    <3>1. ASSUME NEW i \in 1 .. n
          PROVE  i \in got /\ tk.sel[i] = row[i]
      BY <1>2, <2>1, <2>2, <2>3
    <3>2. QED
      BY <1>1, <1>4, <3>1
  <2>5. Smaller(TopK, n) = n
    BY <1>2, <2>1 DEF Smaller
  <2>6. Cardinality(got) = Smaller(TopK, n) /\ Cardinality(cols) = Cardinality(got)
    BY <1>2, <1>5, <2>3, <2>4, <2>5
  <2>7. (1 .. n) \ cols = {}
    BY <2>4
  <2>8. QED
    BY <1>1, <1>3, <1>4, <2>6, <2>7
<1>7. CASE ~ Fast
  <2>1. n > TopK /\ Smaller(TopK, n) = TopK
    BY <1>1, <1>2, <1>7 DEF Fast, Smaller
  <2>2. PICK C : C = Chosen(score, q, n)
    OBVIOUS
  <2>3. /\ \A p \in 1 .. TopK : \E i \in C : tk.sel[p] = row[i]
        /\ \A i \in C : \E p \in 1 .. TopK : tk.sel[p] = row[i]
        /\ Cardinality(C) = TopK
    BY <1>0, <1>1, <1>7, <2>2, SelectedAre, SelectionSize
  <2>4. C \in SUBSET (1 .. n)
    BY <2>2 DEF Chosen
  <2>5. got = 1 .. TopK
    <3>1. ASSUME NEW p \in 1 .. TopK
          PROVE  tk.sel[p] # NoSlot
      BY <1>1, <2>3, <2>4 DEF RowApart
    <3>2. QED
      BY <1>3, <3>1
  <2>6. cols = C
    <3>1. ASSUME NEW i \in cols
          PROVE  i \in C
      <4>1. PICK p \in 1 .. TopK : tk.sel[p] = row[i] /\ i \in 1 .. n
        BY <1>1, <1>4, <2>5
      <4>2. PICK j \in C : tk.sel[p] = row[j]
        BY <2>3
      <4>3. i = j
        BY <1>1, <2>4, <4>1, <4>2 DEF RowApart
      <4>4. QED
        BY <4>3
    <3>2. ASSUME NEW i \in C
          PROVE  i \in cols
      BY <1>1, <1>4, <2>3, <2>4, <2>5
    <3>3. QED
      BY <3>1, <3>2
  <2>7. Cardinality(got) = Smaller(TopK, n) /\ Cardinality(cols) = Cardinality(got)
    BY <1>5, <2>1, <2>3, <2>5, <2>6
  <2>8. ASSUME NEW i \in cols, NEW j \in (1 .. n) \ cols
        PROVE  AtLeastFloat(score[i], score[j])
    <3>1. i \in 1 .. n /\ j \in 1 .. n /\ Key(score[i]) >= q /\ j \notin C
      BY <2>2, <2>6 DEF Chosen
    <3>2. /\ score[i] \in Floats /\ score[j] \in Floats /\ Key(score[i]) \in Nat /\ Key(score[j]) \in Nat
      BY <1>2, <3>1, KeyIs DEF KeysOf
    <3>3. q \in Nat
      BY <1>1, <1>7 DEF TopkInv, TkCut
    <3>4. ~ (Key(score[j]) > q)
      <4>1. SUFFICES ASSUME Key(score[j]) > q
                     PROVE  FALSE
        OBVIOUS
      <4>2. PICK H : H = Higher(score, q, n, Tiles)
        OBVIOUS
      <4>3. TileOf(j) \in Tiles
        <5>1. j \in 1 .. Width
          BY <1>2, <3>1
        <5>2. QED
          BY <5>1, TilesAre
      <4>4. j \in H /\ H \in SUBSET (1 .. n)
        BY <3>1, <4>1, <4>2, <4>3 DEF Higher
      <4>5. Rank(H, j) \in Nat /\ Rank(H, j) < Cardinality(H) /\ Cardinality(H) \in Nat
        BY <1>2, <4>4, RankBelow, ColumnsFinite
      <4>6. Cardinality(H) < TopK
        <5>1. /\ tk.rem \in 1 .. TopK /\ tk.pass = Passes + 1
              /\ Cardinality(Over(score, q, tk.pass - 1, n)) = TopK - tk.rem
          BY <1>0, <1>1, <1>7 DEF TopkInv, TkCut, TkStage
        <5>2. tk.pass - 1 = Passes
          BY <5>1
        <5>3. Over(score, q, Passes, n) = H
          <6>1. ASSUME NEW k \in 1 .. n
                PROVE  TileOf(k) \in Tiles /\ Prefix(Key(score[k]), Passes) = Key(score[k])
            <7>1. k \in 1 .. Width
              BY <1>2
            <7>2. Key(score[k]) \in Nat
              BY <1>2, KeyIs DEF KeysOf
            <7>3. QED
              BY <7>1, <7>2, TilesAre, PrefixLast
          <6>2. QED
            BY <4>2, <6>1 DEF Over, Higher
        <5>4. QED
          BY <5>1, <5>2, <5>3
      <4>7. Place(score, q, n, j) = Rank(H, j)
        BY <4>1, <4>2 DEF Place
      <4>8. Place(score, q, n, j) < TopK
        BY <4>5, <4>6, <4>7
      <4>9. Key(score[j]) >= q
        BY <3>2, <3>3, <4>1
      <4>10. QED
        BY <2>2, <3>1, <4>8, <4>9 DEF Chosen
    <3>5. Key(score[i]) >= Key(score[j])
      BY <3>1, <3>2, <3>3, <3>4
    <3>6. QED
      BY <3>2, <3>5, KeyIs
  <2>9. QED
    BY <1>1, <1>3, <1>4, <2>7, <2>8
<1>8. QED
  BY <1>6, <1>7

-----------------------------------------------------------------------------
(* Lists of slots.  The members of a finite set of integers in order.        *)

Img(map, S) == {map[s] : s \in S}
NoTwice(q) == \A i, j \in DOMAIN q : q[i] = q[j] => i = j

LEMMA AscendingIs ==
  ASSUME NEW S \in SUBSET Int, IsFiniteSet(S)
  PROVE  /\ Cardinality(S) \in Nat
         /\ Ascending(S) \in Seq(S) /\ Len(Ascending(S)) = Cardinality(S)
         /\ \A i, j \in 1 .. Cardinality(S) : Ascending(S)[i] = Ascending(S)[j] => i = j
         /\ \A x \in S : \E i \in 1 .. Cardinality(S) : Ascending(S)[i] = x
<1>1. PICK n \in Nat : n = Cardinality(S)
  BY FS_CardinalityType
<1>2. PICK L : L = Ascending(S)
  OBVIOUS
<1>3. L = [i \in 1 .. n |-> CHOOSE x \in S : Cardinality({y \in S : y < x}) = i - 1]
  BY <1>1, <1>2 DEF Ascending
<1>4. ASSUME NEW i \in 1 .. n
      PROVE  L[i] \in S /\ Cardinality({y \in S : y < L[i]}) = i - 1
  <2>1. i - 1 \in Nat /\ i - 1 < Cardinality(S)
    BY <1>1
  <2>2. \E x \in S : Cardinality({y \in S : y < x}) = i - 1
    BY <2>1, Ranks
  <2>3. L[i] = CHOOSE x \in S : Cardinality({y \in S : y < x}) = i - 1
    BY <1>3
  <2>4. QED
    BY <2>2, <2>3
<1>5. L \in Seq(S) /\ Len(L) = n
  <2> DEFINE C(i) == CHOOSE x \in S : Cardinality({y \in S : y < x}) = i - 1
  <2>0. L = [i \in 1 .. n |-> C(i)]
    BY <1>3
  <2> HIDE DEF C
  <2>1. L = [i \in 1 .. n |-> L[i]]
    BY <2>0
  <2>2. L \in [1 .. n -> S]
    BY <1>4, <2>1
  <2>3. QED
    BY <2>1, <2>2
<1>6. ASSUME NEW i \in 1 .. n, NEW j \in 1 .. n, L[i] = L[j]
      PROVE  i = j
  <2>1. i - 1 = j - 1
    BY <1>4, <1>6
  <2>2. QED
    BY <2>1
<1>7. ASSUME NEW x \in S
      PROVE  \E i \in 1 .. n : L[i] = x
  <2>1. PICK P : P = 1 .. n
    OBVIOUS
  <2>2. IsFiniteSet(P) /\ Cardinality(P) = n
    <3>1. 1 \in Int /\ n \in Int
      OBVIOUS
    <3>2. IsFiniteSet(1 .. n) /\ Cardinality(1 .. n) = IF 1 > n THEN 0 ELSE n - 1 + 1
      BY <3>1, FS_Interval
    <3>3. QED
      BY <2>1, <3>2
  <2>3. L \in Injection(P, S)
    <3>1. L \in [P -> S] /\ \A i, j \in P : L[i] = L[j] => i = j
      BY <1>3, <1>4, <1>6, <2>1
    <3>2. QED
      BY <3>1, Fun_IsInj
  <2>4. L \in Surjection(P, S)
    BY <1>1, <2>2, <2>3, FS_Injection
  <2>5. QED
    BY <2>1, <2>4, Fun_SurjectionProperties
<1>8. QED
  BY <1>1, <1>2, <1>5, <1>6, <1>7


(* A list of n entries, each of S and each of S once.                        *)
Lists(q, S, n) ==
  /\ n \in Nat /\ q = [i \in 1 .. n |-> q[i]]
  /\ \A i \in 1 .. n : q[i] \in S
  /\ \A i, j \in 1 .. n : q[i] = q[j] => i = j
  /\ \A x \in S : \E i \in 1 .. n : q[i] = x

LEMMA ListsAre ==
  ASSUME NEW q, NEW S, NEW n, Lists(q, S, n)
  PROVE  /\ n \in Nat /\ q \in Seq(S) /\ Len(q) = n /\ DOMAIN q = 1 .. n
         /\ IsFiniteSet(S) /\ Cardinality(S) = n
<1>1. n \in Nat /\ q = [i \in 1 .. n |-> q[i]] /\ \A i \in 1 .. n : q[i] \in S
  BY DEF Lists
<1>2. q \in [1 .. n -> S]
  BY <1>1
<1>3. q \in Seq(S) /\ Len(q) = n /\ DOMAIN q = 1 .. n
  BY <1>1, <1>2
<1>4. PICK N : N = 1 .. n
  OBVIOUS
<1>5. IsFiniteSet(N) /\ Cardinality(N) = n
  <2>1. 1 \in Int /\ n \in Int
    BY <1>1
  <2>2. IsFiniteSet(1 .. n) /\ Cardinality(1 .. n) = IF 1 > n THEN 0 ELSE n - 1 + 1
    BY <2>1, FS_Interval
  <2>3. QED
    BY <1>1, <1>4, <2>2
<1>6. q \in Bijection(N, S)
  <2>1. q \in [N -> S] /\ (\A i, j \in N : q[i] = q[j] => i = j) /\ \A x \in S : \E i \in N : q[i] = x
    BY <1>2, <1>4 DEF Lists
  <2>2. q \in Injection(N, S)
    BY <2>1, Fun_IsInj
  <2>3. q \in Surjection(N, S)
    BY <2>1, Fun_IsSurj
  <2>4. QED
    BY <2>2, <2>3 DEF Bijection
<1>7. IsFiniteSet(S) /\ Cardinality(S) = n
  <2>1. q \in Surjection(N, S) /\ q \in Injection(N, S)
    BY <1>6 DEF Bijection
  <2>2. IsFiniteSet(S) /\ Cardinality(S) = Cardinality(N)
    BY <1>5, <2>1, FS_Surjection
  <2>3. QED
    BY <1>5, <2>2
<1>8. QED
  BY <1>1, <1>3, <1>7

(* The entries at a set of places that hold different ones.                  *)
LEMMA EntriesList ==
  ASSUME NEW q, NEW P \in SUBSET Int, IsFiniteSet(P), \A i, j \in P : q[i] = q[j] => i = j
  PROVE  Lists(Entries(q, P), Img(q, P), Cardinality(P))
<1>1. PICK at, n : at = Ascending(P) /\ n = Cardinality(P)
  OBVIOUS
<1>2. /\ n \in Nat /\ at \in Seq(P) /\ Len(at) = n
      /\ \A i, j \in 1 .. n : at[i] = at[j] => i = j
      /\ \A x \in P : \E i \in 1 .. n : at[i] = x
  BY <1>1, AscendingIs
<1>3. DOMAIN at = 1 .. n /\ \A i \in 1 .. n : at[i] \in P
  BY <1>2
<1>4. PICK e : e = Entries(q, P)
  OBVIOUS
<1>5. e = [i \in 1 .. n |-> q[at[i]]]
  BY <1>1, <1>3, <1>4 DEF Entries
<1>6. e = [i \in 1 .. n |-> e[i]] /\ \A i \in 1 .. n : e[i] = q[at[i]]
  BY <1>5
<1>7. \A i \in 1 .. n : e[i] \in Img(q, P)
  BY <1>3, <1>6 DEF Img
<1>8. \A i, j \in 1 .. n : e[i] = e[j] => i = j
  BY <1>2, <1>3, <1>6
<1>9. ASSUME NEW x \in Img(q, P)
      PROVE  \E i \in 1 .. n : e[i] = x
  <2>1. PICK p \in P : x = q[p]
    BY DEF Img
  <2>2. PICK i \in 1 .. n : at[i] = p
    BY <1>2
  <2>3. QED
    BY <1>6, <2>1, <2>2
<1>10. QED
  BY <1>1, <1>2, <1>4, <1>6, <1>7, <1>8, <1>9 DEF Lists

LEMMA JoinedLists ==
  ASSUME NEW a, NEW A, NEW m, Lists(a, A, m), NEW b, NEW B, NEW n, Lists(b, B, n), A \cap B = {}
  PROVE  Lists(a \o b, A \cup B, m + n)
<1>1. /\ m \in Nat /\ n \in Nat /\ a \in Seq(A) /\ b \in Seq(B) /\ Len(a) = m /\ Len(b) = n
  BY ListsAre
<1>2. PICK C : C = A \cup B
  OBVIOUS
<1>3. a \in Seq(C) /\ b \in Seq(C)
  BY <1>1, <1>2
<1>4. PICK c : c = a \o b
  OBVIOUS
<1>5. /\ c \in Seq(C) /\ Len(c) = m + n
      /\ \A i \in 1 .. m : c[i] = a[i]
      /\ \A i \in 1 .. n : c[m + i] = b[i]
  <2>1. /\ c \in Seq(C) /\ Len(c) = Len(a) + Len(b)
        /\ \A i \in 1 .. (Len(a) + Len(b)) : c[i] = IF i <= Len(a) THEN a[i] ELSE b[i - Len(a)]
    BY <1>3, <1>4, ConcatProperties
  <2>2. ASSUME NEW i \in 1 .. n
        PROVE  c[m + i] = b[i]
    <3>1. m + i \in 1 .. (m + n) /\ ~ (m + i <= m) /\ (m + i) - m = i
      BY <1>1
    <3>2. c[m + i] = b[(m + i) - m]
      BY <1>1, <2>1, <3>1
    <3>3. QED
      BY <3>1, <3>2
  <2>3. ASSUME NEW i \in 1 .. m
        PROVE  c[i] = a[i]
    <3>1. i \in 1 .. (m + n) /\ i <= m
      BY <1>1
    <3>2. QED
      BY <1>1, <2>1, <3>1
  <2>4. QED
    BY <1>1, <2>1, <2>2, <2>3
<1>6. /\ \A i \in 1 .. m : c[i] = a[i] /\ c[i] \in A /\ c[i] \notin B
      /\ \A i \in 1 .. n : c[m + i] = b[i] /\ c[m + i] \in B /\ c[m + i] \notin A
  BY <1>5 DEF Lists
<1>7. ASSUME NEW i \in 1 .. (m + n)
      PROVE  i \in 1 .. m \/ \E k \in 1 .. n : i = m + k
  <2>1. CASE i <= m
    BY <1>1, <2>1
  <2>2. CASE ~ (i <= m)
    <3>1. i - m \in 1 .. n /\ i = m + (i - m)
      BY <1>1, <2>2
    <3>2. QED
      BY <3>1
  <2>3. QED
    BY <2>1, <2>2
<1>8. c = [i \in 1 .. (m + n) |-> c[i]] /\ \A i \in 1 .. (m + n) : c[i] \in C
  BY <1>1, <1>5
<1>9. ASSUME NEW i \in 1 .. (m + n), NEW j \in 1 .. (m + n), c[i] = c[j]
      PROVE  i = j
  <2>1. CASE i \in 1 .. m /\ j \in 1 .. m
    BY <1>6, <1>9, <2>1 DEF Lists
  <2>2. CASE i \in 1 .. m /\ \E k \in 1 .. n : j = m + k
    BY <1>6, <1>9, <2>2
  <2>3. CASE j \in 1 .. m /\ \E k \in 1 .. n : i = m + k
    BY <1>6, <1>9, <2>3
  <2>4. ASSUME NEW k \in 1 .. n, i = m + k, NEW l \in 1 .. n, j = m + l
        PROVE  i = j
    BY <1>6, <1>9, <2>4 DEF Lists
  <2>5. QED
    BY <1>7, <2>1, <2>2, <2>3, <2>4
<1>10. ASSUME NEW x \in C
       PROVE  \E i \in 1 .. (m + n) : c[i] = x
  <2>1. CASE x \in A
    <3>1. PICK i \in 1 .. m : a[i] = x
      BY <2>1 DEF Lists
    <3>2. i \in 1 .. (m + n)
      BY <1>1
    <3>3. QED
      BY <1>6, <3>1, <3>2
  <2>2. CASE x \in B
    <3>1. PICK i \in 1 .. n : b[i] = x
      BY <2>2 DEF Lists
    <3>2. m + i \in 1 .. (m + n)
      BY <1>1
    <3>3. QED
      BY <1>6, <3>1, <3>2
  <2>3. QED
    BY <1>2, <2>1, <2>2
<1>11. m + n \in Nat
  BY <1>1
<1>12. QED
  BY <1>2, <1>4, <1>8, <1>9, <1>10, <1>11 DEF Lists

LEMMA OneListed == Lists(<<Sink>>, {Sink}, 1)
BY DEF Lists

(* A list made of N lists that have nothing in common.                       *)
AllLists(q, Y, c, N) ==
  /\ q = [i \in 1 .. N |-> q[i]]
  /\ \A i \in 1 .. N : Lists(q[i], Y[i], c[i])
  /\ \A i, j \in 1 .. N : i # j => Y[i] \cap Y[j] = {}

(* S is what the first N sets of Y hold together.                            *)
SplitInto(S, Y, N) == \A x : x \in S <=> \E i \in 1 .. N : x \in Y[i]

LEMMA FlatList ==
  ASSUME NEW N \in Nat \ {0}, NEW q, NEW Y, NEW c, AllLists(q, Y, c, N),
         NEW S, SplitInto(S, Y, N)
  PROVE  \E n : Lists(FlattenSeq(q), S, n)
<1>0. \A x : x \in S <=> \E i \in 1 .. N : x \in Y[i]
  BY Zenon DEF SplitInto
<1> DEFINE Val(h, i) == IF i = 1 THEN q[i] ELSE h[i - 1] \o q[i]
           T == {k \in 0 .. (N - 1) : \E h : h = [i \in 1 .. (k + 1) |-> Val(h, i)]}
<1>1. 0 \in T
  <2>1. PICK h : h = [i \in 1 .. 1 |-> q[1]]
    OBVIOUS
  <2>2. \A i \in 1 .. 1 : i = 1
    OBVIOUS
  <2>3. h = [i \in 1 .. 1 |-> Val(h, i)]
    BY <2>1, <2>2
  <2>4. 0 \in 0 .. (N - 1) /\ 0 + 1 = 1
    OBVIOUS
  <2> HIDE DEF Val
  <2>5. QED
    BY <2>3, <2>4
<1>2. ASSUME NEW k \in 0 .. ((N - 1) - 1), k \in T
      PROVE  k + 1 \in T
  <2>1. PICK f : f = [i \in 1 .. (k + 1) |-> Val(f, i)]
    BY <1>2
  <2> DEFINE g == [i \in 1 .. (k + 2) |-> IF i \in 1 .. (k + 1) THEN f[i] ELSE f[k + 1] \o q[i]]
  <2>2. \A i \in 1 .. (k + 2) : g[i] = Val(g, i)
    <3>1. ASSUME NEW i \in 1 .. (k + 1)
          PROVE  g[i] = Val(g, i)
      <4>0. f[i] = Val(f, i)
        <5> HIDE DEF Val
        <5>1. QED
          BY <2>1
      <4>1. g[i] = Val(f, i)
        <5>1. i \in 1 .. (k + 2)
          OBVIOUS
        <5>2. g[i] = f[i]
          BY <5>1
        <5>3. QED
          BY <4>0, <5>2
      <4>2. i # 1 => i - 1 \in 1 .. (k + 1) /\ i - 1 \in 1 .. (k + 2)
        OBVIOUS
      <4>3. i # 1 => g[i - 1] = f[i - 1]
        BY <4>2
      <4>4. QED
        BY <4>1, <4>3
    <3>2. g[k + 2] = Val(g, k + 2)
      <4>1. /\ k + 1 \in 1 .. (k + 1) /\ k + 1 \in 1 .. (k + 2) /\ k + 2 \in 1 .. (k + 2)
            /\ k + 2 \notin 1 .. (k + 1) /\ (k + 2) - 1 = k + 1 /\ k + 2 # 1
        OBVIOUS
      <4>2. g[k + 2] = f[k + 1] \o q[k + 2] /\ g[k + 1] = f[k + 1]
        BY <4>1
      <4>3. QED
        BY <4>1, <4>2
    <3>3. \A i \in 1 .. (k + 2) : i \in 1 .. (k + 1) \/ i = k + 2
      OBVIOUS
    <3> HIDE DEF g, Val
    <3>4. QED
      BY <3>1, <3>2, <3>3
  <2>3. g = [i \in 1 .. (k + 2) |-> g[i]]
    OBVIOUS
  <2> HIDE DEF g
  <2>4. g = [i \in 1 .. (k + 2) |-> Val(g, i)]
    BY <2>2, <2>3
  <2>5. k + 1 \in 0 .. (N - 1) /\ (k + 1) + 1 = k + 2
    OBVIOUS
  <2> HIDE DEF Val
  <2>6. QED
    BY <2>4, <2>5
<1>3. N - 1 \in T
  <2> HIDE DEF T
  <2>1. N - 1 \in Nat /\ \A k \in 0 .. ((N - 1) - 1) : k \in T => k + 1 \in T
    BY <1>2
  <2>2. N - 1 \in 0 .. (N - 1)
    OBVIOUS
  <2>3. QED
    BY <1>1, <2>1, <2>2, UpTo
<1>4. PICK f : f = [k \in 1 .. N |-> Val(f, k)]
  <2>1. (N - 1) + 1 = N
    OBVIOUS
  <2> HIDE DEF Val
  <2>2. QED
    BY <1>3, <2>1
<1>5. Len(q) = N
  BY DEF AllLists
<1>6. PICK F : F = [k \in 1 .. N |-> Val(F, k)] /\ FlattenSeq(q) = F[N]
  <2> DEFINE fl[i \in 1 .. N] == IF i = 1 THEN q[i] ELSE fl[i - 1] \o q[i]
  <2>1. FlattenSeq(q) = fl[N]
    BY <1>5 DEF FlattenSeq
  <2>2. fl = CHOOSE h : h = [i \in 1 .. N |-> Val(h, i)]
    OBVIOUS
  <2> HIDE DEF fl, Val
  <2>3. fl = [i \in 1 .. N |-> Val(fl, i)]
    BY <1>4, <2>2
  <2>4. QED
    BY <2>1, <2>3
<1>7. F[1] = q[1] /\ \A i \in 1 .. N : i # 1 => F[i] = F[i - 1] \o q[i]
  <2>1. 1 \in 1 .. N
    OBVIOUS
  <2>2. QED
    BY <1>6, <2>1
<1> DEFINE Up(j) == {x \in S : \E i \in 1 .. j : x \in Y[i]}
           U == {k \in 0 .. (N - 1) : \E n : Lists(F[k + 1], Up(k + 1), n)}
<1>8. \A i \in 1 .. N : Y[i] \subseteq S
  BY <1>0
<1>9. 0 \in U
  <2>1. Up(1) = Y[1]
    BY <1>8
  <2>2. Lists(F[1], Up(1), c[1])
    <3>1. 1 \in 1 .. N
      OBVIOUS
    <3>2. Lists(q[1], Y[1], c[1])
      BY <3>1 DEF AllLists
    <3>3. QED
      BY <1>7, <2>1, <3>2
  <2>3. 0 \in 0 .. (N - 1) /\ 0 + 1 = 1
    OBVIOUS
  <2> HIDE DEF Up
  <2>4. QED
    BY <2>2, <2>3
<1>10. ASSUME NEW k \in 0 .. ((N - 1) - 1), k \in U
       PROVE  k + 1 \in U
  <2>1. PICK a, A, n : a = F[k + 1] /\ A = Up(k + 1) /\ Lists(a, A, n)
    BY <1>10
  <2>2. PICK b, B, m : b = q[k + 2] /\ B = Y[k + 2] /\ m = c[k + 2]
    OBVIOUS
  <2>3. k + 2 \in 1 .. N /\ k + 2 # 1 /\ (k + 2) - 1 = k + 1 /\ \A i \in 1 .. (k + 1) : i # k + 2 /\ i \in 1 .. N
    OBVIOUS
  <2>4. Lists(b, B, m)
    BY <2>2, <2>3 DEF AllLists
  <2>5. A \cap B = {}
    <3>1. ASSUME NEW x, x \in A, x \in B
          PROVE  FALSE
      <4>1. PICK i \in 1 .. (k + 1) : x \in Y[i]
        BY <2>1, <3>1
      <4>2. Y[i] \cap Y[k + 2] = {}
        BY <2>3 DEF AllLists
      <4>3. QED
        BY <2>2, <3>1, <4>1, <4>2
    <3>2. QED
      BY <3>1
  <2>6. Lists(a \o b, A \cup B, n + m)
    BY <2>1, <2>4, <2>5, JoinedLists
  <2>7. A \cup B = Up(k + 2)
    <3>1. \A i : i \in 1 .. (k + 2) <=> i \in 1 .. (k + 1) \/ i = k + 2
      OBVIOUS
    <3>2. QED
      BY <1>8, <2>1, <2>2, <2>3, <3>1
  <2>8. F[k + 2] = a \o b
    BY <1>7, <2>1, <2>2, <2>3
  <2>9. k + 1 \in 0 .. (N - 1) /\ (k + 1) + 1 = k + 2
    OBVIOUS
  <2> HIDE DEF Up
  <2>10. QED
    BY <2>6, <2>7, <2>8, <2>9
<1>11. N - 1 \in U
  <2> HIDE DEF U
  <2>1. N - 1 \in Nat /\ \A k \in 0 .. ((N - 1) - 1) : k \in U => k + 1 \in U
    BY <1>10
  <2>2. N - 1 \in 0 .. (N - 1)
    OBVIOUS
  <2>3. QED
    BY <1>9, <2>1, <2>2, UpTo
<1>12. Up(N) = S
  BY <1>0
<1>13. PICK n : Lists(F[N], Up(N), n)
  <2>1. (N - 1) + 1 = N
    OBVIOUS
  <2> HIDE DEF Up
  <2>2. QED
    BY <1>11, <2>1
<1>14. QED
  BY <1>6, <1>12, <1>13

(* What a kernel takes of a list: every slot in it, once, and the sink.      *)
LEMMA TakenList ==
  ASSUME NEW q, NEW n \in Nat, DOMAIN q = 1 .. n,
         \A i, j \in 1 .. n : q[i] # NoSlot /\ q[i] = q[j] => i = j
  PROVE  \E m : Lists(Taken(q), Img(q, 1 .. n) \ {NoSlot}, m)
<1>1. PICK P : P = {p \in DOMAIN q : q[p] # NoSlot}
  OBVIOUS
<1>2. P \in SUBSET Int /\ IsFiniteSet(P)
  <2>1. PICK N : N = 1 .. n
    OBVIOUS
  <2>2. P \subseteq N /\ N \subseteq Int
    BY <1>1, <2>1
  <2>3. IsFiniteSet(N)
    <3>1. 1 \in Int /\ n \in Int
      OBVIOUS
    <3>2. IsFiniteSet(1 .. n)
      BY <3>1, FS_Interval
    <3>3. QED
      BY <2>1, <3>2
  <2>4. IsFiniteSet(P)
    BY <2>2, <2>3, FS_Subset
  <2>5. QED
    BY <2>2, <2>4
<1>3. \A i, j \in P : q[i] = q[j] => i = j
  BY <1>1
<1>4. Lists(Entries(q, P), Img(q, P), Cardinality(P))
  BY <1>2, <1>3, EntriesList
<1>5. Taken(q) = Entries(q, P)
  BY <1>1 DEF Taken
<1>6. Img(q, P) = Img(q, 1 .. n) \ {NoSlot}
  BY <1>1 DEF Img
<1>7. QED
  BY <1>4, <1>5, <1>6

LEMMA Quotient ==
  ASSUME NEW a \in Int, NEW D \in Nat \ {0}
  PROVE  \E d \in Int, c \in 0 .. (D - 1) : d = a \div D /\ a = D * d + c
<1>1. PICK d, c : d = a \div D /\ c = a % D
  OBVIOUS
<1>2. d \in Int /\ c \in 0 .. (D - 1) /\ a = D * d + c
  BY <1>1, DivMod
<1>3. QED
  BY <1>1, <1>2

LEMMA CeilIs ==
  ASSUME NEW a \in Nat \ {0}, NEW b \in Nat \ {0}
  PROVE  CeilDiv(a, b) \in Nat \ {0} /\ b * CeilDiv(a, b) >= a
<1>1. PICK c \in Int, r \in 0 .. (b - 1) : c = CeilDiv(a, b) /\ a + b - 1 = b * c + r
  <2>1. a + b - 1 \in Int
    OBVIOUS
  <2>2. /\ (a + b - 1) \div b \in Int /\ (a + b - 1) % b \in 0 .. (b - 1)
        /\ a + b - 1 = b * ((a + b - 1) \div b) + ((a + b - 1) % b)
    BY <2>1, DivMod
  <2>3. QED
    BY <2>2 DEF CeilDiv
<1>2. PICK d \in Int : d = b * c
  OBVIOUS
<1>3. d >= a
  BY <1>1, <1>2
<1>4. c >= 1
  <2>1. SUFFICES ASSUME c < 1
                 PROVE  FALSE
    BY <1>1
  <2>2. b * c + b <= b * 1
    BY <2>1, Multiples
  <2>3. QED
    BY <1>2, <1>3, <2>2
<1>5. QED
  BY <1>1, <1>2, <1>3, <1>4

(* The parts of a split are whole tiles and cover the list.                  *)
LEMMA PartsCover ==
  ASSUME NEW n \in Nat \ {0}, NEW tile \in Nat \ {0}
  PROVE  PartLen(n, tile) \in Nat \ {0} /\ NSplit \in Nat \ {0} /\ n <= NSplit * PartLen(n, tile)
<1>1. NSplit \in Nat \ {0}
  BY AttnAssumption
<1>2. PICK c \in Nat \ {0} : c = CeilDiv(n, NSplit) /\ NSplit * c >= n
  BY <1>1, CeilIs
<1>3. PICK d \in Nat \ {0} : d = CeilDiv(c, tile) /\ tile * d >= c
  BY CeilIs
<1>4. PICK p \in Nat : p = d * tile /\ p >= c
  <2>1. d * tile = tile * d /\ d * tile \in Nat
    OBVIOUS
  <2>2. QED
    BY <1>3, <2>1
<1>5. PartLen(n, tile) = p
  BY <1>2, <1>3, <1>4 DEF PartLen
<1>6. NSplit * p >= NSplit * c
  <2>1. CASE p = c
    BY <1>1, <2>1
  <2>2. CASE c < p
    <3>1. NSplit * c + NSplit <= NSplit * p
      BY <1>1, <2>2, Multiples
    <3>2. QED
      BY <1>1, <3>1
  <2>3. QED
    BY <1>4, <2>1, <2>2
<1>7. p # 0
  BY <1>4
<1>8. QED
  BY <1>1, <1>2, <1>5, <1>6, <1>7

Split(q, n, per, sp) == {x \in Img(q, 1 .. n) \ {NoSlot} : \E i \in 1 .. n : (i - 1) \div per = sp /\ q[i] = x}

LEMMA PartList ==
  ASSUME NEW S, NEW q \in Seq(S), NEW n \in Nat \ {0}, n = Len(q), NEW tile \in Nat \ {0},
         NEW per \in Nat \ {0}, per = PartLen(n, tile), NEW sp \in Nat,
         \A i, j \in 1 .. n : q[i] # NoSlot /\ q[i] = q[j] => i = j
  PROVE  \E m : Lists(Taken(Part(q, sp, tile)), Split(q, n, per, sp), m)
<1>1. PICK lo \in Nat, up \in Nat : lo = sp * per /\ up = (sp + 1) * per /\ up = lo + per
  <2>1. sp * per \in Nat /\ (sp + 1) * per = sp * per + per
    OBVIOUS
  <2>2. QED
    BY <2>1
<1>2. PICK hi \in Nat : hi = Smaller(up, n) /\ hi <= up /\ hi <= n /\ (hi = up \/ hi = n)
  BY DEF Smaller
<1>3. PICK r : r = Part(q, sp, tile)
  OBVIOUS
<1>4. r = SubSeq(q, lo + 1, hi)
  BY <1>1, <1>2, <1>3 DEF Part
<1>5. \A i \in (lo + 1) .. hi : i \in 1 .. n /\ q[i] \in S
  BY <1>2
<1>6. PICK k \in Nat : k = IF lo + 1 <= hi THEN hi - lo ELSE 0
  <2>1. (IF lo + 1 <= hi THEN hi - lo ELSE 0) \in Nat
    OBVIOUS
  <2>2. QED
    BY <2>1
<1>7. DOMAIN r = 1 .. k /\ \A i \in 1 .. k : r[i] = q[lo + i]
  <2>1. /\ r \in Seq(S) /\ Len(r) = IF lo + 1 <= hi THEN hi - (lo + 1) + 1 ELSE 0
        /\ \A i \in 1 .. (hi - (lo + 1) + 1) : r[i] = q[(lo + 1) + i - 1]
    BY <1>4, <1>5, SubSeqProperties
  <2>2. Len(r) = k
    BY <1>6, <2>1
  <2>3. DOMAIN r = 1 .. k
    BY <2>1, <2>2
  <2>4. ASSUME NEW i \in 1 .. k
        PROVE  r[i] = q[lo + i]
    <3>1. i \in 1 .. (hi - (lo + 1) + 1) /\ (lo + 1) + i - 1 = lo + i
      BY <1>6
    <3>2. r[i] = q[(lo + 1) + i - 1]
      BY <2>1, <3>1
    <3>3. QED
      BY <3>1, <3>2
  <2>5. QED
    BY <2>3, <2>4
<1>8. ASSUME NEW i \in 1 .. k
      PROVE  lo + i \in 1 .. n /\ ((lo + i) - 1) \div per = sp
  <2>1. lo + i <= hi
    BY <1>6
  <2>2. i - 1 \in 0 .. (per - 1)
    <3>1. up = lo + per
      BY <1>1
    <3>2. i <= per
      BY <1>2, <2>1, <3>1
    <3>3. QED
      BY <3>2
  <2>3. PICK z \in Int, c \in 0 .. (per - 1) : z = (lo + i) - 1 /\ c = i - 1
    BY <2>2
  <2>4. z = per * sp + c
    <3>1. per * sp = lo
      BY <1>1
    <3>2. z = lo + c
      BY <2>3
    <3>3. QED
      BY <3>1, <3>2
  <2>5. z \div per = sp
    <3>1. sp \in Int
      OBVIOUS
    <3>2. QED
      BY <2>4, <3>1, DivUnique
  <2>6. lo + i \in 1 .. n
    BY <1>2, <2>1
  <2>7. QED
    BY <2>3, <2>5, <2>6
<1>9. ASSUME NEW i \in 1 .. n, (i - 1) \div per = sp
      PROVE  \E j \in 1 .. k : i = lo + j
  <2>1. PICK z \in Int : z = i - 1
    OBVIOUS
  <2>2. PICK c \in 0 .. (per - 1) : z = per * sp + c
    <3>1. z % per \in 0 .. (per - 1) /\ z = per * (z \div per) + (z % per)
      BY <2>1, DivMod
    <3>2. z \div per = sp
      BY <1>9, <2>1
    <3>3. QED
      BY <3>1, <3>2
  <2>3. i = lo + (c + 1)
    <3>1. per * sp = lo
      BY <1>1
    <3>2. z = lo + c
      BY <2>2, <3>1
    <3>3. QED
      BY <2>1, <3>2
  <2>4. i <= up
    <3>1. up = lo + per
      BY <1>1
    <3>2. c + 1 <= per
      OBVIOUS
    <3>3. QED
      BY <2>3, <3>1, <3>2
  <2>5. i <= hi
    BY <1>2, <2>4
  <2>6. c + 1 \in 1 .. k
    BY <1>6, <2>3, <2>5
  <2>7. QED
    BY <2>3, <2>6
<1>10. \A i, j \in 1 .. k : r[i] # NoSlot /\ r[i] = r[j] => i = j
  <2>1. ASSUME NEW i \in 1 .. k, NEW j \in 1 .. k, r[i] # NoSlot, r[i] = r[j]
        PROVE  i = j
    <3>1. lo + i = lo + j
      BY <1>7, <1>8, <2>1
    <3>2. QED
      BY <3>1
  <2>2. QED
    BY <2>1
<1>11. \E m : Lists(Taken(r), Img(r, 1 .. k) \ {NoSlot}, m)
  BY <1>7, <1>10, TakenList
<1>12. Img(r, 1 .. k) \ {NoSlot} = Split(q, n, per, sp)
  <2>1. ASSUME NEW i \in 1 .. k, r[i] # NoSlot
        PROVE  r[i] \in Split(q, n, per, sp)
    <3>1. PICK h \in 1 .. n : h = lo + i /\ (h - 1) \div per = sp
      BY <1>8
    <3>2. q[h] = r[i]
      BY <1>7, <3>1
    <3>3. QED
      BY <2>1, <3>1, <3>2 DEF Split, Img
  <2>2. ASSUME NEW x \in Split(q, n, per, sp)
        PROVE  x # NoSlot /\ \E i \in 1 .. k : r[i] = x
    <3>1. PICK i \in 1 .. n : (i - 1) \div per = sp /\ q[i] = x
      BY DEF Split
    <3>2. PICK j \in 1 .. k : i = lo + j
      BY <1>9, <3>1
    <3>3. r[j] = x
      BY <1>7, <3>1, <3>2
    <3>4. x # NoSlot
      BY DEF Split
    <3>5. QED
      BY <3>3, <3>4
  <2>3. QED
    BY <2>1, <2>2 DEF Img
<1>13. QED
  BY <1>3, <1>11, <1>12


LEMMA DecodeReadsList ==
  ASSUME NEW S, NEW q \in Seq(S), NEW n \in Nat \ {0}, n = Len(q), NEW tile \in Nat \ {0},
         \A i, j \in 1 .. n : q[i] # NoSlot /\ q[i] = q[j] => i = j,
         NEW A, A = Img(q, 1 .. n) \ {NoSlot}, Sink \notin A
  PROVE  \E m : Lists(DecodeReads(q, tile), A \cup {Sink}, m)
<1>1. PICK per \in Nat \ {0}, N \in Nat \ {0} : per = PartLen(n, tile) /\ N = NSplit /\ n <= N * per
  BY PartsCover
<1>2. PICK parts : parts = [sp \in 1 .. N |-> Taken(Part(q, sp - 1, tile))]
  OBVIOUS
<1>3. PICK Y : Y = [sp \in 1 .. N |-> Split(q, n, per, sp - 1)]
  OBVIOUS
<1>4. PICK c : c = [sp \in 1 .. N |-> CHOOSE m : Lists(parts[sp], Y[sp], m)]
  OBVIOUS
<1>5. ASSUME NEW sp \in 1 .. N
      PROVE  Lists(parts[sp], Y[sp], c[sp])
  <2>1. PICK k \in Nat : k = sp - 1
    <3>1. sp - 1 \in Nat
      OBVIOUS
    <3>2. QED
      BY <3>1
  <2>2. \E m : Lists(Taken(Part(q, k, tile)), Split(q, n, per, k), m)
    BY <1>1, PartList
  <2>3. parts[sp] = Taken(Part(q, k, tile)) /\ Y[sp] = Split(q, n, per, k)
    BY <1>2, <1>3, <2>1
  <2>4. c[sp] = CHOOSE m : Lists(parts[sp], Y[sp], m)
    BY <1>4
  <2>5. QED
    BY <2>2, <2>3, <2>4
<1>6. ASSUME NEW i \in 1 .. N, NEW j \in 1 .. N, NEW x, x \in Y[i], x \in Y[j]
      PROVE  i = j
  <2>1. x \in Split(q, n, per, i - 1) /\ x \in Split(q, n, per, j - 1)
    BY <1>3, <1>6
  <2>2. PICK a \in 1 .. n : (a - 1) \div per = i - 1 /\ q[a] = x
    BY <2>1 DEF Split
  <2>3. PICK b \in 1 .. n : (b - 1) \div per = j - 1 /\ q[b] = x
    BY <2>1 DEF Split
  <2>4. x # NoSlot
    BY <2>1 DEF Split
  <2>5. a = b
    BY <2>2, <2>3, <2>4
  <2>6. i - 1 = j - 1
    BY <2>2, <2>3, <2>5
  <2>7. QED
    BY <2>6
<1>7. AllLists(parts, Y, c, N)
  <2>1. parts = [sp \in 1 .. N |-> parts[sp]]
    BY <1>2
  <2>2. QED
    BY <1>5, <1>6, <2>1 DEF AllLists
<1>8. ASSUME NEW x
      PROVE  x \in A <=> \E sp \in 1 .. N : x \in Y[sp]
  <2>1. ASSUME NEW sp \in 1 .. N, x \in Y[sp]
        PROVE  x \in A
    BY <1>3, <2>1 DEF Split
  <2>2. ASSUME x \in A
        PROVE  \E sp \in 1 .. N : x \in Y[sp]
    <3>1. PICK i \in 1 .. n : q[i] = x
      BY <2>2 DEF Img
    <3>2. PICK z \in Nat : z = i - 1 /\ z < n
      <4>1. i - 1 \in Nat /\ i - 1 < n
        OBVIOUS
      <4>2. QED
        BY <4>1
    <3>3. PICK d \in Int, r \in 0 .. (per - 1) : d = z \div per /\ z = per * d + r
      BY Quotient
    <3>4. ~ (d < 0)
      <4>1. SUFFICES ASSUME d < 0
                     PROVE  FALSE
        OBVIOUS
      <4>2. per * d + per <= per * 0
        BY <4>1, Multiples
      <4>3. QED
        BY <3>3, <4>2
    <3>5. ~ (N <= d)
      <4>1. SUFFICES ASSUME N <= d
                     PROVE  FALSE
        OBVIOUS
      <4>2. per * N <= per * d
        <5>1. N = d \/ per * N + per <= per * d
          BY <4>1, Multiples
        <5>2. QED
          BY <5>1
      <4>3. PICK u \in Int, v \in Int : u = per * N /\ v = per * d
        OBVIOUS
      <4>4. n <= u
        BY <1>1, <4>3
      <4>5. z = v + r /\ u <= v
        BY <3>3, <4>2, <4>3
      <4>6. QED
        BY <3>2, <4>4, <4>5
    <3>6. PICK sp \in 1 .. N : sp = d + 1 /\ sp - 1 = d
      <4>1. d + 1 \in 1 .. N /\ (d + 1) - 1 = d
        BY <3>4, <3>5
      <4>2. QED
        BY <4>1
    <3>7. (i - 1) \div per = sp - 1
      BY <3>2, <3>3, <3>6
    <3>8. x \in Split(q, n, per, sp - 1)
      BY <2>2, <3>1, <3>7 DEF Split
    <3>9. QED
      BY <1>3, <3>8
  <2>3. QED
    BY <2>1, <2>2
<1>9. PICK m : Lists(FlattenSeq(parts), A, m)
  <2>1. SplitInto(A, Y, N)
    BY <1>8 DEF SplitInto
  <2>2. \E m : Lists(FlattenSeq(parts), A, m)
    BY <1>7, <2>1, FlatList
  <2>3. QED
    BY <2>2
<1>10. PICK g, one, B : g = FlattenSeq(parts) /\ one = <<Sink>> /\ B = {Sink}
  OBVIOUS
<1>11. Lists(g, A, m) /\ Lists(one, B, 1) /\ A \cap B = {}
  BY <1>9, <1>10, OneListed
<1>12. Lists(g \o one, A \cup B, m + 1)
  BY <1>11, JoinedLists
<1>13. DecodeReads(q, tile) = g \o one
  BY <1>1, <1>2, <1>10 DEF DecodeReads
<1>14. QED
  BY <1>10, <1>12, <1>13

(* The places of a row a query at p sees through a window of w, 0 for none,  *)
(* which hold slots of their own.                                            *)
Places(p, w) == {i \in 1 .. (p + 1) : w > 0 => i + w > p + 1}
Apart(row, P) == \A i, j \in P : row[i] = row[j] => i = j

LEMMA ExtendReadsList ==
  ASSUME NEW S, NEW row \in Seq(S), Sink \notin S,
         NEW prefix \in Nat, NEW qLen \in Nat, NEW tok \in 0 .. (qLen - 1), Len(row) = prefix + qLen,
         NEW w \in Nat, NEW p, p = prefix + tok, Apart(row, Places(p, w))
  PROVE  \E m : Lists(ExtendReads(row, prefix, qLen, tok, w), Img(row, Places(p, w)) \cup {Sink}, m)
<1>1. BlockT \in Nat \ {0} /\ BlockN \in Nat \ {0}
  BY AttnAssumption
<1>2. PICK t0 \in Nat : t0 = (tok \div BlockT) * BlockT /\ t0 <= tok /\ tok < t0 + BlockT
  <2>1. PICK d \in Int, c \in 0 .. (BlockT - 1) : d = tok \div BlockT /\ tok = BlockT * d + c
    BY <1>1, Quotient
  <2>2. PICK e \in Int : e = BlockT * d /\ e = d * BlockT
    <3>1. BlockT \in Int
      BY <1>1
    <3>2. BlockT * d \in Int /\ BlockT * d = d * BlockT
      BY <3>1, TimesSwaps
    <3>3. QED
      BY <3>2
  <2>3. ~ (d < 0)
    <3>1. SUFFICES ASSUME d < 0
                   PROVE  FALSE
      OBVIOUS
    <3>2. BlockT * d + BlockT <= BlockT * 0
      BY <1>1, <2>1, <3>1, Multiples
    <3>3. QED
      BY <1>1, <2>1, <2>2, <3>2
  <2>4. e >= 0
    BY <1>1, <2>1, <2>2, <2>3
  <2>5. e = (tok \div BlockT) * BlockT /\ tok = e + c
    BY <2>1, <2>2
  <2>6. e \in Nat /\ e <= tok /\ tok < e + BlockT
    BY <1>1, <2>4, <2>5
  <2>7. QED
    BY <2>5, <2>6, Zenon
<1>3. PICK last \in Nat : last = prefix + Smaller(qLen, t0 + BlockT) - 1 /\ p <= last
  <2>1. PICK s : s = Smaller(qLen, t0 + BlockT)
    OBVIOUS
  <2>2. s \in Nat /\ tok < s
    BY <1>1, <1>2, <2>1 DEF Smaller
  <2>3. prefix + s - 1 \in Nat /\ p <= prefix + s - 1
    BY <2>2
  <2>4. QED
    BY <2>1, <2>3
<1>4. PICK lo \in Nat : /\ lo = IF w > 0 THEN (Larger(0, prefix + t0 - w + 1) \div BlockN) * BlockN ELSE 0
                        /\ \A k \in Nat : (w > 0 => k + w > p) => lo <= k
  <2>1. CASE w > 0
    <3>1. PICK g \in Nat : g = Larger(0, prefix + t0 - w + 1) /\ (g = 0 \/ g = prefix + t0 - w + 1)
      BY <1>2 DEF Larger
    <3>2. PICK d \in Int, c \in 0 .. (BlockN - 1) : d = g \div BlockN /\ g = BlockN * d + c
      BY <1>1, Quotient
    <3>3. PICK e \in Int : e = BlockN * d /\ e = d * BlockN
      <4>1. BlockN \in Int
        BY <1>1
      <4>2. BlockN * d \in Int /\ BlockN * d = d * BlockN
        BY <4>1, TimesSwaps
      <4>3. QED
        BY <4>2
    <3>4. ~ (d < 0)
      <4>1. SUFFICES ASSUME d < 0
                     PROVE  FALSE
        OBVIOUS
      <4>2. BlockN * d + BlockN <= BlockN * 0
        BY <1>1, <3>2, <4>1, Multiples
      <4>3. QED
        BY <1>1, <3>2, <3>3, <4>2
    <3>5. e >= 0
      BY <1>1, <3>2, <3>3, <3>4
    <3>6. e \in Nat /\ e <= g
      <4>1. g = e + c
        BY <3>2, <3>3
      <4>2. QED
        BY <1>1, <3>5, <4>1
    <3>7. ASSUME NEW k \in Nat, k + w > p
          PROVE  e <= k
      BY <1>2, <3>1, <3>6, <3>7
    <3>8. e = IF w > 0 THEN (Larger(0, prefix + t0 - w + 1) \div BlockN) * BlockN ELSE 0
      BY <2>1, <3>1, <3>2, <3>3
    <3>9. QED
      BY <2>1, <3>6, <3>7, <3>8
  <2>2. CASE ~ (w > 0)
    BY <2>2
  <2>3. QED
    BY <2>1, <2>2
<1>5. PICK allowed : allowed = {k \in lo .. last : k <= prefix + tok /\ (w > 0 => k + w > prefix + tok)}
  OBVIOUS
<1>6. PICK P : P = {k + 1 : k \in allowed}
  OBVIOUS
<1>7. P = Places(p, w)
  <2>1. ASSUME NEW k \in allowed
        PROVE  k + 1 \in Places(p, w)
    <3>1. k \in Nat /\ k <= p /\ (w > 0 => k + w > p)
      BY <1>5
    <3>2. k + 1 \in 1 .. (p + 1) /\ (w > 0 => (k + 1) + w > p + 1)
      BY <3>1
    <3>3. QED
      BY <3>2 DEF Places
  <2>2. ASSUME NEW i \in Places(p, w)
        PROVE  \E k \in allowed : i = k + 1
    <3>1. PICK k \in Nat : i = k + 1 /\ k <= p /\ (w > 0 => k + w > p)
      <4>1. i \in 1 .. (p + 1) /\ (w > 0 => i + w > p + 1)
        BY DEF Places
      <4>2. i - 1 \in Nat /\ i = (i - 1) + 1 /\ i - 1 <= p /\ (w > 0 => (i - 1) + w > p)
        BY <4>1
      <4>3. QED
        BY <4>2
    <3>2. lo <= k
      BY <1>4, <3>1
    <3>3. k \in allowed
      BY <1>3, <1>5, <3>1, <3>2
    <3>4. QED
      BY <3>1, <3>3
  <2>3. QED
    BY <1>6, <2>1, <2>2
<1>8. PICK n \in Nat : n = Len(row) /\ DOMAIN row = 1 .. n /\ p + 1 <= n /\ p \in Nat
  BY SMT
<1>9. P \in SUBSET Int /\ IsFiniteSet(P) /\ \A i \in P : i \in DOMAIN row
  <2>1. PICK N : N = 1 .. n
    OBVIOUS
  <2>2. P \subseteq N /\ N \subseteq Int
    BY <1>7, <1>8, <2>1 DEF Places
  <2>3. IsFiniteSet(N)
    <3>1. 1 \in Int /\ n \in Int
      OBVIOUS
    <3>2. IsFiniteSet(1 .. n)
      BY <3>1, FS_Interval
    <3>3. QED
      BY <2>1, <3>2
  <2>4. IsFiniteSet(P)
    BY <2>2, <2>3, FS_Subset
  <2>5. QED
    BY <1>8, <2>1, <2>2, <2>4
<1>10. \A i, j \in P : row[i] = row[j] => i = j
  BY <1>7 DEF Apart
<1>11. PICK g, one, A, B, m : /\ g = Entries(row, P) /\ one = <<Sink>> /\ A = Img(row, P) /\ B = {Sink}
                              /\ m = Cardinality(P)
  OBVIOUS
<1>12. Lists(g, A, m) /\ Lists(one, B, 1)
  BY <1>9, <1>10, <1>11, EntriesList, OneListed
<1>13. B \cap A = {}
  <2>1. \A i \in P : row[i] \in S
    BY <1>8, <1>9
  <2>2. QED
    BY <1>11, <2>1 DEF Img
<1>14. Lists(one \o g, B \cup A, 1 + m)
  BY <1>12, <1>13, JoinedLists
<1>15. ExtendReads(row, prefix, qLen, tok, w) = one \o g
  <2>1. ExtendReads(row, prefix, qLen, tok, w) = <<Sink>> \o Entries(row, {k + 1 : k \in allowed})
    BY <1>2, <1>3, <1>4, <1>5, Zenon DEF ExtendReads
  <2>2. QED
    BY <1>6, <1>11, <2>1
<1>16. B \cup A = Img(row, Places(p, w)) \cup {Sink}
  BY <1>7, <1>11
<1>17. QED
  BY <1>14, <1>15, <1>16


(* A selection of columns, and what a sparse prefill reads of it.            *)
LEMMA SparseList ==
  ASSUME NEW S, NEW row \in Seq(S), NoTwice(row), Sink \notin S, NoSlot \notin S,
         NEW C \in SUBSET (DOMAIN row), Cardinality(C) <= TopK
  PROVE  \E m : Lists(SparseReads(Selection(row, C)), Img(row, C) \cup {Sink}, m)
<1>1. PICK n \in Nat, N \in {DOMAIN row} : n = Len(row) /\ N = 1 .. n /\ DOMAIN row = N
  OBVIOUS
<1>2. IsFiniteSet(C) /\ C \in SUBSET Int
  <2>1. 1 \in Int /\ n \in Int
    OBVIOUS
  <2>2. IsFiniteSet(1 .. n)
    BY <2>1, FS_Interval
  <2>3. IsFiniteSet(N) /\ C \subseteq N
    BY <1>1, <2>2
  <2>4. IsFiniteSet(C)
    BY <2>3, FS_Subset
  <2>5. N \subseteq Int
    BY <1>1
  <2>6. QED
    BY <2>3, <2>4, <2>5
<1>3. PICK k \in Nat, h \in {Entries(row, C)} : k = Cardinality(C) /\ h = Entries(row, C) /\ k <= TopK
  BY <1>2, FS_CardinalityType
<1>4. Lists(h, Img(row, C), k)
  <2>1. \A i, j \in C : row[i] = row[j] => i = j
    BY DEF NoTwice
  <2>2. QED
    BY <1>2, <1>3, <2>1, EntriesList
<1>5. Len(h) = k
  BY <1>4, ListsAre
<1>6. \A x \in Img(row, C) : x \in S
  <2>1. \A i \in C : row[i] \in S
    BY <1>1
  <2>2. QED
    BY <2>1 DEF Img
<1>7. PICK sel : sel = Selection(row, C)
  OBVIOUS
<1>8. sel = [i \in 1 .. TopK |-> IF i <= k THEN h[i] ELSE NoSlot]
  BY <1>3, <1>5, <1>7 DEF Selection
<1>9. TopK \in Nat
  BY AttnAssumption
<1>10. ASSUME NEW i \in 1 .. TopK, sel[i] # NoSlot
       PROVE  i \in 1 .. k /\ sel[i] = h[i]
  BY <1>8, <1>10
<1>11. ASSUME NEW i \in 1 .. k
       PROVE  i \in 1 .. TopK /\ sel[i] = h[i] /\ sel[i] # NoSlot
  <2>1. i \in 1 .. TopK
    BY <1>3, <1>9
  <2>2. sel[i] = h[i]
    BY <1>8, <2>1
  <2>3. h[i] \in S
    BY <1>4, <1>6 DEF Lists
  <2>4. QED
    BY <2>1, <2>2, <2>3
<1>12. \A i, j \in 1 .. TopK : sel[i] # NoSlot /\ sel[i] = sel[j] => i = j
  <2>1. ASSUME NEW i \in 1 .. TopK, NEW j \in 1 .. TopK, sel[i] # NoSlot, sel[i] = sel[j]
        PROVE  i = j
    <3>1. i \in 1 .. k /\ j \in 1 .. k /\ h[i] = h[j]
      BY <1>10, <2>1
    <3>2. QED
      BY <1>4, <3>1 DEF Lists
  <2>2. QED
    BY <2>1
<1>13. DOMAIN sel = 1 .. TopK
  BY <1>8
<1>14. PICK T \in Nat : T = TopK
  BY <1>9
<1>15. PICK m : Lists(Taken(sel), Img(sel, 1 .. T) \ {NoSlot}, m)
  BY <1>12, <1>13, <1>14, TakenList
<1>16. Img(sel, 1 .. T) \ {NoSlot} = Img(row, C)
  <2>1. ASSUME NEW i \in 1 .. T, sel[i] # NoSlot
        PROVE  sel[i] \in Img(row, C)
    BY <1>4, <1>10, <1>14, <2>1 DEF Lists
  <2>2. ASSUME NEW x \in Img(row, C)
        PROVE  x # NoSlot /\ \E i \in 1 .. T : sel[i] = x
    <3>1. PICK i \in 1 .. k : h[i] = x
      BY <1>4 DEF Lists
    <3>2. QED
      BY <1>11, <1>14, <3>1
  <2>3. QED
    BY <2>1, <2>2 DEF Img
<1>17. PICK g, one, A, B : g = Taken(sel) /\ one = <<Sink>> /\ A = Img(row, C) /\ B = {Sink}
  OBVIOUS
<1>18. Lists(g, A, m) /\ Lists(one, B, 1) /\ B \cap A = {}
  BY <1>6, <1>15, <1>16, <1>17, OneListed
<1>19. Lists(one \o g, B \cup A, 1 + m)
  BY <1>18, JoinedLists
<1>20. SparseReads(sel) = one \o g
  BY <1>17 DEF SparseReads
<1>21. B \cup A = Img(row, C) \cup {Sink}
  BY <1>17
<1>22. QED
  BY <1>7, <1>19, <1>20, <1>21

(* The window of the row's last query.                                       *)
LEMMA WindowIs ==
  ASSUME NEW S, NEW row \in Seq(S), NEW p \in Nat, Len(row) = p + 1, Apart(row, Places(p, Window))
  PROVE  \E n \in Nat \ {0} :
           /\ WindowList(row, p) \in Seq(S) /\ Len(WindowList(row, p)) = n /\ NoTwice(WindowList(row, p))
           /\ Img(WindowList(row, p), 1 .. n) = Img(row, Places(p, Window))
<1>1. PICK w \in Nat \ {0} : w = Window
  BY AttnAssumption
<1>2. PICK lo \in Nat : lo = Larger(0, p - Window + 1) /\ lo <= p /\ \A k \in Nat : k >= lo <=> k + w > p
  <2>1. PICK lo : lo = Larger(0, p - w + 1)
    OBVIOUS
  <2>2. lo \in Nat /\ lo <= p /\ \A k \in Nat : k >= lo <=> k + w > p
    BY <2>1 DEF Larger
  <2>3. QED
    BY <1>1, <2>1, <2>2
<1>3. Smaller(Len(row), p + 1) = p + 1
  BY DEF Smaller
<1>4. PICK r : r = WindowList(row, p)
  OBVIOUS
<1>5. r = SubSeq(row, lo + 1, p + 1)
  BY <1>2, <1>3, <1>4 DEF WindowList
<1>6. PICK n \in Nat \ {0} : n = p + 1 - lo
  <2>1. p + 1 - lo \in Nat \ {0}
    BY <1>2
  <2>2. QED
    BY <2>1
<1>7. r \in Seq(S) /\ Len(r) = n /\ \A i \in 1 .. n : r[i] = row[lo + i]
  <2>0. \A i \in (lo + 1) .. (p + 1) : row[i] \in S
    BY <1>2
  <2>1. /\ r \in Seq(S) /\ Len(r) = IF lo + 1 <= p + 1 THEN (p + 1) - (lo + 1) + 1 ELSE 0
        /\ \A i \in 1 .. ((p + 1) - (lo + 1) + 1) : r[i] = row[(lo + 1) + i - 1]
    <3>1. lo + 1 \in Int /\ p + 1 \in Int
      OBVIOUS
    <3>2. QED
      BY <1>5, <2>0, <3>1, SubSeqProperties
  <2>2. Len(r) = n
    BY <1>2, <1>6, <2>1
  <2>3. ASSUME NEW i \in 1 .. n
        PROVE  r[i] = row[lo + i]
    <3>1. i \in 1 .. ((p + 1) - (lo + 1) + 1) /\ (lo + 1) + i - 1 = lo + i
      BY <1>6
    <3>2. r[i] = row[(lo + 1) + i - 1]
      BY <2>1, <3>1
    <3>3. QED
      BY <3>1, <3>2
  <2>4. QED
    BY <2>1, <2>2, <2>3
<1>8. DOMAIN row = 1 .. (p + 1) /\ DOMAIN r = 1 .. n
  BY <1>7
<1>9. ASSUME NEW i \in 1 .. n
      PROVE  lo + i \in Places(p, Window) /\ lo + i \in 1 .. (p + 1)
  <2>1. lo + i \in 1 .. (p + 1)
    BY <1>6
  <2>2. PICK k \in Nat : k = lo + i - 1 /\ k >= lo
    <3>1. lo + i - 1 \in Nat /\ lo + i - 1 >= lo
      OBVIOUS
    <3>2. QED
      BY <3>1
  <2>3. k + w > p
    BY <1>2, <2>2
  <2>4. (lo + i) + w > p + 1
    BY <2>2, <2>3
  <2>5. QED
    BY <1>1, <2>1, <2>4 DEF Places
<1>10. NoTwice(r)
  <2>1. ASSUME NEW i \in 1 .. n, NEW j \in 1 .. n, r[i] = r[j]
        PROVE  i = j
    <3>1. row[lo + i] = row[lo + j]
      BY <1>7, <2>1
    <3>2. lo + i = lo + j
      BY <1>9, <3>1 DEF Apart
    <3>3. QED
      BY <3>2
  <2>2. QED
    BY <1>8, <2>1 DEF NoTwice
<1>11. Img(r, 1 .. n) = Img(row, Places(p, Window))
  <2>1. ASSUME NEW i \in 1 .. n
        PROVE  r[i] \in Img(row, Places(p, Window))
    BY <1>7, <1>9 DEF Img
  <2>2. ASSUME NEW i \in Places(p, Window)
        PROVE  \E k \in 1 .. n : r[k] = row[i]
    <3>1. i \in 1 .. (p + 1) /\ i + w > p + 1
      BY <1>1 DEF Places
    <3>2. PICK h \in Nat : i = h + 1 /\ h + w > p
      <4>1. i - 1 \in Nat /\ i = (i - 1) + 1 /\ (i - 1) + w > p
        BY <3>1
      <4>2. QED
        BY <4>1
    <3>3. h >= lo
      BY <1>2, <3>2
    <3>4. PICK k \in 1 .. n : i = lo + k
      <4>1. i - lo \in 1 .. n /\ i = lo + (i - lo)
        BY <1>6, <3>1, <3>2, <3>3
      <4>2. QED
        BY <4>1
    <3>5. QED
      BY <1>7, <3>4
  <2>3. QED
    BY <2>1, <2>2 DEF Img
<1>12. QED
  BY <1>4, <1>7, <1>10, <1>11
=============================================================================
