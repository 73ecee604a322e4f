-------------------------- MODULE PagedAllocProofs --------------------------
(* Proofs about PagedAlloc.                                                 *)
EXTENDS PagedAlloc, FiniteSetTheorems, FunctionTheorems, SequenceTheorems, WellFoundedInduction, TLAPS

(* The state in which the speculative horizon is really allocated: with     *)
(* MTP off, or while the free list stays above the comfort threshold.       *)
Steady == turn = "schedule" => Horizon = 0 \/ Cardinality(free) > Comfort

(* The end of what a request's row holds.                                   *)
RowEnd(r) == Max2(cached[r], alloc[r])

(* The places of the page table that own their page: live rows beyond what  *)
(* the prefix cache holds for them.                                         *)
Claims == {x \in Reqs \X Positions :
             x[1] \in Live /\ handle[x[1]] <= x[2] /\ x[2] < RowEnd(x[1])}

(* The pages C are partitioned: free f, cached by t, or at one place of cl. *)
At(rw, x) == rw[x[1]][x[2]]
Partition(C, f, t, rw, cl) ==
  /\ f \subseteq Pages
  /\ t \in [DOMAIN t -> Pages]
  /\ \A a, b \in DOMAIN t : t[a] = t[b] => a = b
  /\ \A k \in DOMAIN t : t[k] \notin f
  /\ \A x \in cl : At(rw, x) \in Pages /\ At(rw, x) \notin f
  /\ \A x \in cl : \A k \in DOMAIN t : t[k] # At(rw, x)
  /\ \A x, y \in cl : At(rw, x) = At(rw, y) => x = y
  /\ C = f \cup {t[k] : k \in DOMAIN t} \cup {At(rw, x) : x \in cl}

TableTypes ==
  /\ row \in [Reqs -> [Positions -> Pages \cup {NoPage}]]
  /\ st \in [Reqs -> Statuses]
  /\ cached \in [Reqs -> Nat] /\ dev \in [Reqs -> Nat]
  /\ alloc \in [Reqs -> Nat] /\ handle \in [Reqs -> Nat]
  /\ last = [kind |-> last.kind, reqs |-> last.reqs]
  /\ ongoing = [kind |-> ongoing.kind, reqs |-> ongoing.reqs]
  /\ last.reqs \subseteq Live /\ ongoing.reqs \subseteq Live

(* The lengths of a request.                                                *)
Lengths ==
  \A r \in Reqs :
    /\ handle[r] <= cached[r] /\ dev[r] <= MaxDeviceLen(r) /\ alloc[r] <= Width
    /\ st[r] = "new" => cached[r] = 0 /\ dev[r] = 0 /\ alloc[r] = 0 /\ handle[r] = 0
    /\ st[r] # "new" => dev[r] = cached[r] + 1
    /\ st[r] = "running" => dev[r] < MaxDeviceLen(r)
    /\ Horizon = 0 => alloc[r] = 0
    /\ Horizon > 0 /\ r \in Live => cached[r] <= alloc[r]

(* The prefix cache holds prefixes of requests, and every prefix of these.  *)
TreeClosed ==
  /\ \A k \in DOMAIN tree : \E r \in Reqs : \E i \in 1 .. MaxDeviceLen(r) : k = Tok(r, i)
  /\ \A r \in Reqs : \A i \in 1 .. MaxDeviceLen(r) :
       Tok(r, i) \in DOMAIN tree => \A j \in 1 .. i : Tok(r, j) \in DOMAIN tree

(* What a live request's handle locks is what its row shares.               *)
Shared ==
  \A r \in Live : \A i \in 1 .. handle[r] :
    Tok(r, i) \in DOMAIN tree /\ row[r][i - 1] = tree[Tok(r, i)]

TableInv(C) ==
  /\ TableTypes
  /\ Lengths
  /\ TreeClosed
  /\ Shared
  /\ Partition(C, free, tree, row, Claims)

KvTypes ==
  /\ kv = [p \in Pages |-> kv[p]]
  /\ spec \in [uid : Reqs \cup {0}, expect : Nat, left : Nat]

(* The positions of a row that hold accepted tokens: those computed and     *)
(* those a verify wrote and that are left to pop.                           *)
Verified(r) == cached[r] + (IF Keyed(r) THEN spec.left ELSE 0)
Holds(r, n) == \A j \in 0 .. (n - 1) : row[r][j] \in Pages /\ kv[row[r][j]] = Tok(r, j + 1)
VerifiedRight == \A r \in Live : Verified(r) <= RowEnd(r) /\ Holds(r, Verified(r))

(* The key of the speculative state is never ahead of its request, so that  *)
(* a key gone stale never becomes valid again.                              *)
KeyBehind ==
  spec.uid # 0 => st[spec.uid] # "new" /\ spec.expect <= dev[spec.uid]

PoolInv(C) ==
  /\ TableInv(C)
  /\ KvTypes
  /\ TreeRight
  /\ VerifiedRight
  /\ KeyBehind

-----------------------------------------------------------------------------
(* A set of naturals that is not empty has a least element: induction.      *)

NatLess == {ss \in Nat \X Nat : ss[1] < ss[2]}

LEMMA NatLeast ==
  ASSUME NEW T \in SUBSET Nat, T # {}
  PROVE  \E n \in T : \A m \in T : n <= m
<1>1. IsWellFoundedOn(OpToRel(<, Nat), Nat)
  BY NatLessThanWellFounded
<1>2. OpToRel(<, Nat) = NatLess
  BY Zenon DEF OpToRel, NatLess
<1>3. \E x \in T : \A y \in T : <<y, x>> \notin NatLess
  BY <1>1, <1>2, WFMin
<1>4. ASSUME NEW a \in Nat, NEW b \in Nat, <<a, b>> \notin NatLess
      PROVE  b <= a
  <2>1. <<a, b>> \in Nat \X Nat /\ <<a, b>>[1] = a /\ <<a, b>>[2] = b
    OBVIOUS
  <2>2. ~(a < b)
    BY <1>4, <2>1, Zenon DEF NatLess
  <2>3. QED
    BY <2>2
<1>5. QED
  BY <1>3, <1>4

-----------------------------------------------------------------------------
(* The prefixes of a request's tokens.                                      *)

LEMMA LengthsAre ==
  ASSUME NEW r \in Reqs
  PROVE  /\ InLen[r] \in Nat \ {0} /\ OutLen[r] \in Nat \ {0}
         /\ MaxDeviceLen(r) = InLen[r] + OutLen[r]
         /\ MaxDeviceLen(r) \in Nat /\ MaxDeviceLen(r) <= Width /\ Width \in Nat
<1>1. InLen[r] \in Nat \ {0} /\ OutLen[r] \in Nat \ {0} /\ MaxDeviceLen(r) <= Width
  BY RequestAssumption, Zenon
<1>2. Width \in Nat
  BY RequestAssumption, Zenon
<1>3. QED
  BY <1>1, <1>2 DEF MaxDeviceLen

(* A prefix has its length, and a prefix of it is a prefix of the request.  *)
LEMMA TokIs ==
  ASSUME NEW r \in Reqs, NEW i \in 0 .. MaxDeviceLen(r)
  PROVE  /\ Len(Tok(r, i)) = i
         /\ \A j \in 0 .. i : SubSeq(Tok(r, i), 1, j) = Tok(r, j)
<1> DEFINE V == UNION {Range(Key[q]) : q \in Reqs}
<1>1. Key[r] \in Seq(V) /\ Len(Key[r]) = MaxDeviceLen(r) /\ MaxDeviceLen(r) \in Nat
  <2>1. Key[r] \in Seq(V) /\ Len(Key[r]) = MaxDeviceLen(r)
    BY RequestAssumption, Zenon
  <2>2. QED
    BY <2>1, LengthsAre
<1> HIDE DEF V
<1>2. ASSUME NEW j \in 0 .. MaxDeviceLen(r)
      PROVE  /\ Tok(r, j) \in Seq(V) /\ Len(Tok(r, j)) = j
             /\ \A m \in 1 .. j : Tok(r, j)[m] = Key[r][m]
  BY <1>1, <1>2 DEF Tok
<1>3. ASSUME NEW j \in 0 .. i
      PROVE  SubSeq(Tok(r, i), 1, j) = Tok(r, j)
  <2>1. j \in 0 .. MaxDeviceLen(r)
    BY <1>1
  <2>2. /\ Tok(r, i) \in Seq(V) /\ Len(Tok(r, i)) = i
        /\ \A m \in 1 .. i : Tok(r, i)[m] = Key[r][m]
    BY <1>2
  <2>3. /\ Tok(r, j) \in Seq(V) /\ Len(Tok(r, j)) = j
        /\ \A m \in 1 .. j : Tok(r, j)[m] = Key[r][m]
    BY <1>2, <2>1
  <2> HIDE DEF Tok
  <2>4. /\ SubSeq(Tok(r, i), 1, j) \in Seq(V) /\ Len(SubSeq(Tok(r, i), 1, j)) = j
        /\ \A m \in 1 .. j : SubSeq(Tok(r, i), 1, j)[m] = Tok(r, i)[m]
    BY <1>3, <2>2
  <2>5. QED
    BY <2>2, <2>3, <2>4, SeqEqual
<1>4. QED
  BY <1>2, <1>3

(* MatchLen is the length of the longest cached prefix within n.            *)
LEMMA MatchLenIs ==
  ASSUME NEW r \in Reqs, NEW n \in Nat
  PROVE  /\ MatchLen(r, n) \in 0 .. n
         /\ \A i \in 1 .. MatchLen(r, n) : Tok(r, i) \in DOMAIN tree
         /\ MatchLen(r, n) < n => Tok(r, MatchLen(r, n) + 1) \notin DOMAIN tree
<1> DEFINE Ends == {m \in 0 .. n : m < n => Tok(r, m + 1) \notin DOMAIN tree}
<1>1. Ends \in SUBSET Nat /\ n \in Ends
  OBVIOUS
<1>2. PICK m \in Ends : \A e \in Ends : m <= e
  <2> HIDE DEF Ends
  <2>1. QED
    BY <1>1, NatLeast
<1>3. ASSUME NEW i \in 1 .. m
      PROVE  Tok(r, i) \in DOMAIN tree
  <2>1. PICK e \in Nat : e = i - 1
    BY <1>2
  <2>2. e \in 0 .. n /\ e < n /\ e + 1 = i /\ ~(m <= e)
    BY <1>2, <2>1
  <2>3. e \notin Ends
    BY <1>2, <2>2
  <2>4. QED
    BY <2>2, <2>3
<1>4. \E e \in 0 .. n : /\ \A i \in 1 .. e : Tok(r, i) \in DOMAIN tree
                        /\ e < n => Tok(r, e + 1) \notin DOMAIN tree
  BY <1>2, <1>3
<1>5. QED
  BY <1>4, Zenon DEF MatchLen

-----------------------------------------------------------------------------
(* Handing out pages in order.                                              *)

(* The pages of a finite set have the ranks 0, 1, ..., each exactly once.   *)
LEMMA PageRanks ==
  ASSUME NEW f \in SUBSET Int, IsFiniteSet(f)
  PROVE  /\ \A p, q \in f : p < q => Cardinality({x \in f : x < p}) < Cardinality({x \in f : x < q})
         /\ \A k \in Nat : k < Cardinality(f) =>
              \E p \in f : Cardinality({x \in f : x < p}) = k
<1> DEFINE Below(p) == {x \in f : x < p}
           Rank == [p \in f |-> Cardinality(Below(p))]
<1>1. ASSUME NEW p \in f
      PROVE  IsFiniteSet(Below(p)) /\ Cardinality(Below(p)) \in Nat
  BY FS_Subset, FS_CardinalityType
<1>2. ASSUME NEW p \in f, NEW q \in f, p < q
      PROVE  Cardinality(Below(p)) < Cardinality(Below(q))
  <2>1. Below(p) \subseteq Below(q) /\ p \in Below(q) /\ p \notin Below(p)
    <3>1. ASSUME NEW x \in f, x < p
          PROVE  x < q
      BY <1>2, <3>1
    <3>2. ~ (p < p)
      OBVIOUS
    <3>3. QED
      BY <1>2, <3>1, <3>2
  <2> HIDE DEF Below
  <2>2. /\ Cardinality(Below(p)) <= Cardinality(Below(q))
        /\ Cardinality(Below(q)) = Cardinality(Below(p)) => Below(q) = Below(p)
    BY <1>1, <2>1, FS_Subset
  <2>3. QED
    BY <1>1, <2>1, <2>2
<1>3. ASSUME NEW p \in f
      PROVE  Cardinality(Below(p)) < Cardinality(f)
  <2>1. Below(p) \subseteq f /\ p \in f /\ p \notin Below(p)
    OBVIOUS
  <2> HIDE DEF Below
  <2>2. /\ Cardinality(Below(p)) <= Cardinality(f)
        /\ Cardinality(f) = Cardinality(Below(p)) => f = Below(p)
    BY <2>1, FS_Subset
  <2>3. QED
    BY <1>1, <2>1, <2>2, FS_CardinalityType
<1>4. PICK n \in Nat : n = Cardinality(f)
  BY FS_CardinalityType
<1>5. IsFiniteSet(0 .. (n - 1)) /\ Cardinality(0 .. (n - 1)) = n
  BY FS_Interval
<1> HIDE DEF Below
<1>6. Rank \in [f -> 0 .. (n - 1)]
  BY <1>1, <1>3, <1>4
<1>7. \A p, q \in f : Rank[p] = Rank[q] => p = q
  BY <1>1, <1>2
<1>8. PICK N : N = 0 .. (n - 1)
  OBVIOUS
<1> HIDE DEF Rank
<1>9. Rank \in Injection(f, N)
  BY <1>6, <1>7, <1>8, Fun_IsInj
<1>10. Rank \in Surjection(f, N)
  BY <1>4, <1>5, <1>8, <1>9, FS_Injection
<1>11. \A k \in N : \E p \in f : Rank[p] = k
  BY <1>10, Fun_SurjectionProperties
<1>12. ASSUME NEW k \in Nat, k < Cardinality(f)
       PROVE  \E p \in f : Cardinality(Below(p)) = k
  <2>1. k \in N
    BY <1>4, <1>8, <1>12
  <2>2. QED
    BY <1>11, <2>1 DEF Rank
<1>13. QED
  BY <1>2, <1>12 DEF Below

(* The places of the page table, ordered by row and column, have ranks too. *)
LEMMA PlaceRanks ==
  ASSUME NEW S \in SUBSET (Nat \X Nat), IsFiniteSet(S)
  PROVE  /\ \A x, y \in S : Cardinality({z \in S : Precedes(z, x)})
                              = Cardinality({z \in S : Precedes(z, y)}) => x = y
         /\ \A x \in S : /\ Cardinality({z \in S : Precedes(z, x)}) \in Nat
                         /\ Cardinality({z \in S : Precedes(z, x)}) < Cardinality(S)
<1> DEFINE Before(x) == {z \in S : Precedes(z, x)}
<1>1. ASSUME NEW x \in S
      PROVE  IsFiniteSet(Before(x)) /\ Cardinality(Before(x)) \in Nat
  BY FS_Subset, FS_CardinalityType
<1>2. ASSUME NEW x \in S
      PROVE  ~ Precedes(x, x)
  BY DEF Precedes
<1>3. ASSUME NEW x \in S, NEW y \in S, Precedes(x, y)
      PROVE  Cardinality(Before(x)) < Cardinality(Before(y))
  <2>1. Before(x) \subseteq Before(y)
    BY <1>3 DEF Precedes
  <2>2. x \in Before(y) /\ x \notin Before(x)
    BY <1>2, <1>3
  <2> HIDE DEF Before
  <2>3. /\ Cardinality(Before(x)) <= Cardinality(Before(y))
        /\ Cardinality(Before(y)) = Cardinality(Before(x)) => Before(y) = Before(x)
    BY <1>1, <2>1, FS_Subset
  <2>4. QED
    BY <1>1, <2>2, <2>3
<1>4. ASSUME NEW x \in S
      PROVE  Cardinality(Before(x)) < Cardinality(S)
  <2>1. Before(x) \subseteq S /\ x \in S /\ x \notin Before(x)
    BY <1>2
  <2> HIDE DEF Before
  <2>2. /\ Cardinality(Before(x)) <= Cardinality(S)
        /\ Cardinality(S) = Cardinality(Before(x)) => S = Before(x)
    BY <2>1, FS_Subset
  <2>3. QED
    BY <1>1, <2>1, <2>2, FS_CardinalityType
<1>5. ASSUME NEW x \in S, NEW y \in S
      PROVE  x = y \/ Precedes(x, y) \/ Precedes(y, x)
  BY DEF Precedes
<1>6. ASSUME NEW x \in S, NEW y \in S, Cardinality(Before(x)) = Cardinality(Before(y))
      PROVE  x = y
  <2> HIDE DEF Before
  <2>1. QED
    BY <1>1, <1>3, <1>5, <1>6
<1>7. QED
  BY <1>1, <1>4, <1>6

(* Enough free pages: every place gets a page of its own.                   *)
LEMMA GrantedIs ==
  ASSUME NEW S \in SUBSET (Nat \X Nat), IsFiniteSet(S),
         NEW f \in SUBSET Int, IsFiniteSet(f), Cardinality(S) <= Cardinality(f)
  PROVE  /\ Granted(S, f) \in [S -> f]
         /\ \A x, y \in S : Granted(S, f)[x] = Granted(S, f)[y] => x = y
<1> DEFINE RankIn(x) == Cardinality({z \in S : Precedes(z, x)})
           RankOf(p) == Cardinality({q \in f : q < p})
<1>1. /\ \A x, y \in S : RankIn(x) = RankIn(y) => x = y
      /\ \A x \in S : RankIn(x) \in Nat /\ RankIn(x) < Cardinality(S)
  BY PlaceRanks
<1>2. \A k \in Nat : k < Cardinality(f) => \E p \in f : RankOf(p) = k
  BY PageRanks
<1>3. Cardinality(S) \in Nat /\ Cardinality(f) \in Nat
  BY FS_CardinalityType
<1>4. Granted(S, f) = [x \in S |-> CHOOSE p \in f : RankOf(p) = RankIn(x)]
  BY DEF Granted
<1> HIDE DEF RankIn, RankOf
<1>5. ASSUME NEW x \in S
      PROVE  Granted(S, f)[x] \in f /\ RankOf(Granted(S, f)[x]) = RankIn(x)
  <2>1. \E p \in f : RankOf(p) = RankIn(x)
    BY <1>1, <1>2, <1>3
  <2>2. Granted(S, f)[x] = CHOOSE p \in f : RankOf(p) = RankIn(x)
    BY <1>4
  <2>3. QED
    BY <2>1, <2>2
<1>6. QED
  BY <1>1, <1>4, <1>5

-----------------------------------------------------------------------------
(* What keeps the pages partitioned.                                        *)

(* The places S take the pages page of the free list f and of the evicted   *)
(* prefixes E.                                                              *)
Allocates(f, t, rw, E, S, page, f2, t2, rw2) ==
  LET pool == f \cup {t[k] : k \in E}
  IN /\ page \in [S -> pool]
     /\ \A x, y \in S : page[x] = page[y] => x = y
     /\ f2 = pool \ Range(page)
     /\ t2 = [k \in DOMAIN t \ E |-> t[k]]
     /\ rw2 = [r \in Reqs |-> [j \in Positions |->
                 IF <<r, j>> \in S THEN page[<<r, j>>] ELSE rw[r][j]]]

(* Handing out pages to places that held none keeps the partition.          *)
LEMMA AllocPartition ==
  ASSUME NEW C, NEW f, NEW t, NEW rw, NEW cl \in SUBSET (Reqs \X Positions),
         Partition(C, f, t, rw, cl),
         NEW E \in SUBSET DOMAIN t, NEW S \in SUBSET (Reqs \X Positions), S \cap cl = {},
         NEW page, NEW f2, NEW t2, NEW rw2, Allocates(f, t, rw, E, S, page, f2, t2, rw2)
  PROVE  Partition(C, f2, t2, rw2, cl \cup S)
<1> DEFINE pool == f \cup {t[k] : k \in E}
<1>0. /\ page \in [S -> pool]
      /\ \A x, y \in S : page[x] = page[y] => x = y
      /\ f2 = pool \ Range(page)
      /\ t2 = [k \in DOMAIN t \ E |-> t[k]]
      /\ rw2 = [r \in Reqs |-> [j \in Positions |->
                 IF <<r, j>> \in S THEN page[<<r, j>>] ELSE rw[r][j]]]
  BY Zenon DEF Allocates
<1>1. /\ f \subseteq Pages
      /\ t \in [DOMAIN t -> Pages]
      /\ \A a, b \in DOMAIN t : t[a] = t[b] => a = b
      /\ \A k \in DOMAIN t : t[k] \notin f
      /\ \A x \in cl : At(rw, x) \in Pages /\ At(rw, x) \notin f
      /\ \A x \in cl : \A k \in DOMAIN t : t[k] # At(rw, x)
      /\ \A x, y \in cl : At(rw, x) = At(rw, y) => x = y
      /\ C = f \cup {t[k] : k \in DOMAIN t} \cup {At(rw, x) : x \in cl}
  BY DEF Partition
<1>2. /\ DOMAIN t2 = DOMAIN t \ E
      /\ \A k \in DOMAIN t2 : t2[k] = t[k] /\ k \in DOMAIN t /\ k \notin E
  BY <1>0
<1>3. Range(page) = {page[x] : x \in S}
  BY <1>0 DEF Range
<1>4. \A x \in S : page[x] \in pool /\ page[x] \notin f2
  BY <1>0, <1>3
<1>5. pool \subseteq Pages
  BY <1>1
<1>6. ASSUME NEW x \in Reqs \X Positions
      PROVE  At(rw2, x) = IF x \in S THEN page[x] ELSE At(rw, x)
  <2>1. PICK r \in Reqs, j \in Positions : x = <<r, j>>
    OBVIOUS
  <2>2. QED
    BY <1>0, <2>1 DEF At
<1>7. \A x \in S : At(rw2, x) = page[x]
  BY <1>6
<1>8. \A x \in cl : x \notin S /\ At(rw2, x) = At(rw, x)
  BY <1>6
<1>9. \A x \in cl : At(rw, x) \notin pool
  BY <1>1
<1> HIDE DEF At
<1>10. f2 \subseteq Pages /\ t2 \in [DOMAIN t2 -> Pages]
  BY <1>0, <1>1, <1>2, <1>5
<1>11. \A a, b \in DOMAIN t2 : t2[a] = t2[b] => a = b
  BY <1>1, <1>2
<1>12. f2 \subseteq pool /\ \A k \in DOMAIN t2 : t2[k] \notin pool /\ t2[k] \notin f2
  BY <1>0, <1>1, <1>2
<1>13. \A x \in cl \cup S : /\ At(rw2, x) \in Pages /\ At(rw2, x) \notin f2
                            /\ \A k \in DOMAIN t2 : t2[k] # At(rw2, x)
  <2>1. ASSUME NEW x \in cl
        PROVE  /\ At(rw2, x) \in Pages /\ At(rw2, x) \notin f2
               /\ \A k \in DOMAIN t2 : t2[k] # At(rw2, x)
    <3> HIDE DEF pool
    <3>1. QED
      BY <1>1, <1>2, <1>8, <1>9, <1>12
  <2>2. ASSUME NEW x \in S
        PROVE  /\ At(rw2, x) \in Pages /\ At(rw2, x) \notin f2
               /\ \A k \in DOMAIN t2 : t2[k] # At(rw2, x)
    <3> HIDE DEF pool
    <3>1. QED
      BY <1>4, <1>5, <1>7, <1>12
  <2>3. QED
    BY <2>1, <2>2
<1>14. \A x, y \in cl \cup S : At(rw2, x) = At(rw2, y) => x = y
  <2>1. ASSUME NEW x \in cl, NEW y \in S
        PROVE  At(rw2, x) # At(rw2, y)
    BY <1>4, <1>7, <1>8, <1>9
  <2>2. ASSUME NEW x \in cl, NEW y \in cl, At(rw2, x) = At(rw2, y)
        PROVE  x = y
    BY <1>1, <1>8, <2>2
  <2>3. ASSUME NEW x \in S, NEW y \in S, At(rw2, x) = At(rw2, y)
        PROVE  x = y
    BY <1>0, <1>7, <2>3
  <2>4. QED
    BY <2>1, <2>2, <2>3
<1>15. f2 \cup {At(rw2, x) : x \in S} = pool
  <2>1. {At(rw2, x) : x \in S} = {page[x] : x \in S}
    BY <1>7
  <2>2. Range(page) \subseteq pool
    BY <1>3, <1>4
  <2>3. f2 \cup Range(page) = pool
    BY <1>0, <2>2
  <2>4. QED
    BY <1>3, <2>1, <2>3, Zenon
<1>16. {At(rw2, x) : x \in cl} = {At(rw, x) : x \in cl}
  BY <1>8
<1>17. {t2[k] : k \in DOMAIN t2} \cup {t[k] : k \in E} = {t[k] : k \in DOMAIN t}
  BY <1>2
<1>18. {At(rw2, x) : x \in cl \cup S} = {At(rw2, x) : x \in cl} \cup {At(rw2, x) : x \in S}
  OBVIOUS
<1>19. C = f2 \cup {t2[k] : k \in DOMAIN t2} \cup {At(rw2, x) : x \in cl \cup S}
  BY <1>1, <1>15, <1>16, <1>17, <1>18, Zenon
<1>20. QED
  BY <1>10, <1>11, <1>12, <1>13, <1>14, <1>19, Zenon DEF Partition

(* A commit: the places N of cl hand their pages to the prefix cache, under *)
(* the keys New, the places D to the free list, and cl2 keep theirs.        *)
Commits(f, t, rw, cl, N, D, cl2, f2, New, t2, place, rw2) ==
  /\ cl = N \cup D \cup cl2 /\ N \cap D = {} /\ N \cap cl2 = {} /\ D \cap cl2 = {}
  /\ f2 = f \cup {At(rw, x) : x \in D}
  /\ t2 \in [DOMAIN t \cup New -> Pages] /\ New \cap DOMAIN t = {}
  /\ \A k \in DOMAIN t : t2[k] = t[k]
  /\ place \in [New -> N] /\ \A k \in New : t2[k] = At(rw, place[k])
  /\ \A a, b \in New : place[a] = place[b] => a = b
  /\ \A x \in N : \E k \in New : place[k] = x
  /\ \A x \in cl2 : At(rw2, x) = At(rw, x)

LEMMA CommitPartition ==
  ASSUME NEW C, NEW f, NEW t, NEW rw, NEW cl, Partition(C, f, t, rw, cl),
         NEW N, NEW D, NEW cl2, NEW f2, NEW New, NEW t2, NEW place, NEW rw2,
         Commits(f, t, rw, cl, N, D, cl2, f2, New, t2, place, rw2)
  PROVE  Partition(C, f2, t2, rw2, cl2)
<1> SUFFICES ASSUME cl = N \cup D \cup cl2,
                    N \cap D = {}, N \cap cl2 = {}, D \cap cl2 = {},
                    f2 = f \cup {At(rw, x) : x \in D},
                    t2 \in [DOMAIN t \cup New -> Pages], New \cap DOMAIN t = {},
                    \A k \in DOMAIN t : t2[k] = t[k],
                    place \in [New -> N], \A k \in New : t2[k] = At(rw, place[k]),
                    \A a, b \in New : place[a] = place[b] => a = b,
                    \A x \in N : \E k \in New : place[k] = x,
                    \A x \in cl2 : At(rw2, x) = At(rw, x)
             PROVE  Partition(C, f2, t2, rw2, cl2)
  BY Zenon DEF Commits
<1>1. /\ f \subseteq Pages
      /\ t \in [DOMAIN t -> Pages]
      /\ \A a, b \in DOMAIN t : t[a] = t[b] => a = b
      /\ \A k \in DOMAIN t : t[k] \notin f
      /\ \A x \in cl : At(rw, x) \in Pages /\ At(rw, x) \notin f
      /\ \A x \in cl : \A k \in DOMAIN t : t[k] # At(rw, x)
      /\ \A x, y \in cl : At(rw, x) = At(rw, y) => x = y
      /\ C = f \cup {t[k] : k \in DOMAIN t} \cup {At(rw, x) : x \in cl}
  BY Zenon DEF Partition
<1> HIDE DEF At
<1>2. DOMAIN t2 = DOMAIN t \cup New /\ t2 \in [DOMAIN t2 -> Pages]
  OBVIOUS
<1>3. f2 \subseteq Pages
  BY <1>1
<1>4. \A a, b \in DOMAIN t2 : t2[a] = t2[b] => a = b
  <2>1. ASSUME NEW a \in DOMAIN t, NEW b \in New
        PROVE  t2[a] # t2[b]
    BY <1>1
  <2>2. ASSUME NEW a \in New, NEW b \in New, t2[a] = t2[b]
        PROVE  a = b
    <3>1. place[a] \in cl /\ place[b] \in cl /\ At(rw, place[a]) = At(rw, place[b])
      BY <2>2
    <3>2. QED
      BY <1>1, <3>1
  <2>3. QED
    BY <1>1, <1>2, <2>1, <2>2
<1>5. \A k \in DOMAIN t2 : t2[k] \notin f2
  <2>1. ASSUME NEW k \in DOMAIN t
        PROVE  t2[k] \notin f2
    BY <1>1
  <2>2. ASSUME NEW k \in New
        PROVE  t2[k] \notin f2
    <3>1. place[k] \in cl /\ place[k] \notin D /\ t2[k] = At(rw, place[k])
      OBVIOUS
    <3>2. t2[k] \notin f
      BY <1>1, <3>1
    <3>3. ASSUME NEW x \in D
          PROVE  t2[k] # At(rw, x)
      BY <1>1, <3>1
    <3>4. QED
      BY <3>2, <3>3
  <2>3. QED
    BY <1>2, <2>1, <2>2
<1>6. \A x \in cl2 : At(rw2, x) \in Pages /\ At(rw2, x) \notin f2
  <2>1. ASSUME NEW x \in cl2
        PROVE  At(rw, x) \notin f2
    <3>1. x \in cl /\ x \notin D
      OBVIOUS
    <3>2. ASSUME NEW y \in D
          PROVE  At(rw, x) # At(rw, y)
      BY <1>1, <3>1
    <3>3. QED
      BY <1>1, <3>1, <3>2
  <2>2. QED
    BY <1>1, <2>1
<1>7. \A x \in cl2 : \A k \in DOMAIN t2 : t2[k] # At(rw2, x)
  <2>1. ASSUME NEW x \in cl2, NEW k \in DOMAIN t
        PROVE  t2[k] # At(rw2, x)
    BY <1>1
  <2>2. ASSUME NEW x \in cl2, NEW k \in New
        PROVE  t2[k] # At(rw2, x)
    <3>1. place[k] \in cl /\ place[k] # x /\ x \in cl /\ t2[k] = At(rw, place[k])
      OBVIOUS
    <3>2. QED
      BY <1>1, <3>1
  <2>3. QED
    BY <1>2, <2>1, <2>2
<1>8. \A x, y \in cl2 : At(rw2, x) = At(rw2, y) => x = y
  BY <1>1
<1>9. {t2[k] : k \in New} = {At(rw, x) : x \in N}
  OBVIOUS
<1>10. {t2[k] : k \in DOMAIN t} = {t[k] : k \in DOMAIN t}
  OBVIOUS
<1>11. {t2[k] : k \in DOMAIN t2} = {t2[k] : k \in DOMAIN t} \cup {t2[k] : k \in New}
  BY <1>2
<1>12. {At(rw2, x) : x \in cl2} = {At(rw, x) : x \in cl2}
  OBVIOUS
<1>13. {At(rw, x) : x \in cl} = {At(rw, x) : x \in N} \cup {At(rw, x) : x \in D} \cup {At(rw, x) : x \in cl2}
  OBVIOUS
<1>14. C = f2 \cup {t2[k] : k \in DOMAIN t2} \cup {At(rw2, x) : x \in cl2}
  BY <1>1, <1>9, <1>10, <1>11, <1>12, <1>13, Zenon
<1>15. QED
  BY <1>2, <1>3, <1>4, <1>5, <1>6, <1>7, <1>8, <1>14, Zenon DEF Partition

(* Pages that join the free list join the pages in circulation.             *)
LEMMA GrowPartition ==
  ASSUME NEW C, NEW f, NEW t, NEW rw, NEW cl, Partition(C, f, t, rw, cl),
         NEW g \in SUBSET Pages, f \subseteq g, (g \ f) \cap C = {}
  PROVE  Partition(C \cup g, g, t, rw, cl)
<1>1. /\ t \in [DOMAIN t -> Pages]
      /\ \A a, b \in DOMAIN t : t[a] = t[b] => a = b
      /\ \A k \in DOMAIN t : t[k] \notin f
      /\ \A x \in cl : At(rw, x) \in Pages /\ At(rw, x) \notin f
      /\ \A x \in cl : \A k \in DOMAIN t : t[k] # At(rw, x)
      /\ \A x, y \in cl : At(rw, x) = At(rw, y) => x = y
      /\ C = f \cup {t[k] : k \in DOMAIN t} \cup {At(rw, x) : x \in cl}
  BY Zenon DEF Partition
<1> HIDE DEF At
<1>2. \A k \in DOMAIN t : t[k] \notin g
  BY <1>1
<1>3. \A x \in cl : At(rw, x) \in Pages /\ At(rw, x) \notin g
  BY <1>1
<1>4. C \cup g = g \cup {t[k] : k \in DOMAIN t} \cup {At(rw, x) : x \in cl}
  BY <1>1
<1>5. QED
  BY <1>1, <1>2, <1>3, <1>4, Zenon DEF Partition

LEMMA PagesFinite == IsFiniteSet(Pages) /\ IsFiniteSet(Reqs \X Positions)
<1>1. IsFiniteSet(Pages) /\ IsFiniteSet(Positions) /\ IsFiniteSet(Reqs)
  BY RequestAssumption, FS_Interval DEF Pages, Positions, Reqs
<1>2. QED
  BY <1>1, FS_Product

(* What is evicted makes enough room, was not locked, and leaves no prefix  *)
(* whose own prefix is gone.                                                *)
LEMMA EvictionsAre ==
  ASSUME NEW C, NEW f, NEW cl, Partition(C, f, tree, row, cl),
         NEW S \in SUBSET (Reqs \X Positions), NEW locked,
         NEW E \in Evictions(Cardinality(S) - Cardinality(f), locked)
  PROVE  /\ E \in SUBSET DOMAIN tree
         /\ \A k \in E : k \notin locked
         /\ \A j \in E : \A k \in DOMAIN tree : Extends(k, j) => k \in E
         /\ f \cup {tree[k] : k \in E} \subseteq Pages
         /\ Cardinality(S) <= Cardinality(f \cup {tree[k] : k \in E})
<1>1. /\ f \subseteq Pages /\ tree \in [DOMAIN tree -> Pages]
      /\ \A a, b \in DOMAIN tree : tree[a] = tree[b] => a = b
      /\ \A k \in DOMAIN tree : tree[k] \notin f
  BY Zenon DEF Partition
<1>2. IsFiniteSet(f) /\ IsFiniteSet(S)
  BY <1>1, PagesFinite, FS_Subset
<1>3. Cardinality(f) \in Nat /\ Cardinality(S) \in Nat
  BY <1>2, FS_CardinalityType
<1> DEFINE n == Cardinality(S) - Cardinality(f)
           taken == {tree[k] : k \in E}
<1>4. CASE n <= 0
  <2>1. E = {}
    BY <1>4 DEF Evictions
  <2>2. taken = {} /\ f \cup taken = f
    BY <2>1
  <2>3. QED
    BY <1>1, <1>3, <1>4, <2>1, <2>2
<1>5. CASE ~(n <= 0)
  <2>1. /\ E \in SUBSET (DOMAIN tree \ locked) /\ Cardinality(E) >= n
        /\ \A j \in E : \A k \in DOMAIN tree : Extends(k, j) => k \in E
    BY <1>5 DEF Evictions
  <2>2. taken \subseteq Pages /\ f \cap taken = {}
    BY <1>1, <2>1
  <2>3. IsFiniteSet(taken)
    BY <2>2, PagesFinite, FS_Subset
  <2>4. Cardinality(E) = Cardinality(taken)
    <3> DEFINE F == [k \in E |-> tree[k]]
    <3>1. F \in [E -> taken] /\ (\A a, b \in E : F[a] = F[b] => a = b)
      BY <1>1, <2>1
    <3>2. \A p \in taken : \E k \in E : F[k] = p
      OBVIOUS
    <3> HIDE DEF F, taken
    <3>3. F \in Injection(E, taken) /\ F \in Surjection(E, taken)
      BY <3>1, <3>2, Fun_IsInj, Fun_IsSurj
    <3>4. QED
      BY <2>3, <3>3, FS_Injection
  <2> HIDE DEF taken
  <2>5. Cardinality(f \cup taken) = Cardinality(f) + Cardinality(taken)
    <3>1. Cardinality(f \cup taken) = Cardinality(f) + Cardinality(taken) - Cardinality({})
      BY <1>2, <2>2, <2>3, FS_Union
    <3>2. Cardinality(taken) \in Nat
      BY <2>3, FS_CardinalityType
    <3>3. QED
      BY <1>3, <3>1, <3>2, FS_EmptySet
  <2>6. Cardinality(taken) \in Nat
    BY <2>3, FS_CardinalityType
  <2>7. QED
    BY <1>1, <1>3, <2>1, <2>2, <2>4, <2>5, <2>6 DEF taken
<1>6. QED
  BY <1>4, <1>5

-----------------------------------------------------------------------------
(* The page table under a decode step.                                      *)

(* Evicting only leaves and what extends them keeps the prefixes closed.    *)
LEMMA EvictClosed ==
  ASSUME TreeClosed, NEW E,
         \A j \in E : \A k \in DOMAIN tree : Extends(k, j) => k \in E,
         DOMAIN tree' = DOMAIN tree \ E
  PROVE  TreeClosed'
<1>1. DOMAIN tree' = DOMAIN tree \ E
  OBVIOUS
<1>2. \A k \in DOMAIN tree' : \E r \in Reqs : \E i \in 1 .. MaxDeviceLen(r) : k = Tok(r, i)
  BY <1>1 DEF TreeClosed
<1>3. ASSUME NEW r \in Reqs, NEW i \in 1 .. MaxDeviceLen(r), Tok(r, i) \in DOMAIN tree',
             NEW j \in 1 .. i
      PROVE  Tok(r, j) \in DOMAIN tree'
  <2>1. Tok(r, i) \in DOMAIN tree /\ Tok(r, i) \notin E /\ Tok(r, j) \in DOMAIN tree
    BY <1>1, <1>3 DEF TreeClosed
  <2>2. CASE j = i
    BY <1>3, <2>2
  <2>3. CASE j # i
    <3>1. MaxDeviceLen(r) \in Nat
      BY LengthsAre
    <3>2. i \in 0 .. MaxDeviceLen(r) /\ j \in 0 .. MaxDeviceLen(r) /\ j \in 0 .. i /\ j < i
      BY <2>3, <3>1
    <3>3. Len(Tok(r, i)) = i /\ Len(Tok(r, j)) = j /\ SubSeq(Tok(r, i), 1, j) = Tok(r, j)
      BY <3>2, TokIs
    <3>4. Extends(Tok(r, i), Tok(r, j))
      BY <3>2, <3>3 DEF Extends
    <3>5. QED
      BY <1>1, <2>1, <3>4
  <2>4. QED
    BY <2>2, <2>3
<1>4. QED
  BY <1>2, <1>3 DEF TreeClosed

(* The horizon is allocated in full when a batch is scheduled.              *)
LEMMA HorizonSteady ==
  ASSUME Steady, turn = "schedule"
  PROVE  HorizonNow = Horizon
BY RequestAssumption DEF Steady, HorizonNow

(* Where a decode step allocates from and to, and the lengths after it.     *)
LEMMA DecodeEnds ==
  ASSUME NEW C, TableInv(C), Steady, NEW f, NEW E, DecodeAlloc(f, E), NEW r \in Running
  PROVE  /\ FirstPage(r, cached[r]) = RowEnd(r)
         /\ LastPage(r, dev[r]) \in dev[r] .. Width
         /\ RowEnd(r)' = Max2(RowEnd(r), LastPage(r, dev[r]))
         /\ alloc'[r] <= Width
         /\ (Horizon = 0 => alloc'[r] = 0)
         /\ (Horizon > 0 => cached'[r] <= alloc'[r])
<1>1. /\ r \in Reqs /\ st[r] = "running" /\ cached[r] \in Nat /\ dev[r] = cached[r] + 1
      /\ dev[r] < MaxDeviceLen(r) /\ alloc[r] \in Nat /\ alloc[r] <= Width
      /\ (Horizon = 0 => alloc[r] = 0) /\ (Horizon > 0 => cached[r] <= alloc[r])
  BY DEF TableInv, TableTypes, Lengths, Running, Live
<1>2. MaxDeviceLen(r) <= Width /\ Width \in Nat /\ Horizon \in Nat /\ MaxDeviceLen(r) \in Nat
  BY <1>1, LengthsAre, RequestAssumption, Zenon
<1>3. HorizonNow = Horizon
  BY HorizonSteady DEF DecodeAlloc
<1>4. cached'[r] = dev[r]
  BY <1>1 DEF DecodeAlloc, CompleteOne
<1>5. alloc'[r] = IF Horizon > 0 THEN Max2(alloc[r], LastPage(r, dev[r])) ELSE alloc[r]
  BY <1>1, <1>3 DEF DecodeAlloc, AllocatePaged
<1>6. LastPage(r, dev[r]) = IF Horizon > 0 THEN Max2(dev[r], Min2(dev[r] + Horizon, Width)) ELSE dev[r]
  BY <1>3 DEF LastPage
<1>7. FirstPage(r, cached[r]) = IF Horizon > 0 THEN Max2(cached[r], alloc[r]) ELSE cached[r]
  BY <1>3 DEF FirstPage
<1>8. QED
  BY <1>1, <1>2, <1>4, <1>5, <1>6, <1>7 DEF RowEnd, Max2, Min2

(* f is the free list, with pages that were not in circulation.             *)
Joins(C, f) == free \subseteq f /\ f \in SUBSET Pages /\ (f \ free) \cap C = {}

(* What a step leaves of the page table and the prefix cache.               *)
Leaves ==
  /\ \A k \in DOMAIN tree' : k \in DOMAIN tree /\ tree'[k] = tree[k]
  /\ \A r \in Live : \A j \in 0 .. (RowEnd(r) - 1) : row'[r][j] = row[r][j]
  /\ \A r \in Live : RowEnd(r) <= RowEnd(r)' /\ RowEnd(r)' \in Nat

(* Every place of a row up to its end is a place of the table.              *)
LEMMA RowEnds ==
  ASSUME TableTypes, Lengths, NEW r \in Live
  PROVE  /\ r \in Reqs /\ RowEnd(r) \in Nat /\ RowEnd(r) <= Width
         /\ handle[r] \in Nat /\ cached[r] \in Nat /\ alloc[r] \in Nat /\ dev[r] \in Nat
         /\ handle[r] <= cached[r] /\ cached[r] <= RowEnd(r)
         /\ dev[r] = cached[r] + 1 /\ dev[r] <= MaxDeviceLen(r)
         /\ Positions = 0 .. (Width - 1) /\ Width \in Nat
<1>1. r \in Reqs /\ st[r] # "new" /\ dev[r] <= MaxDeviceLen(r)
  BY DEF Live, Lengths
<1>2. MaxDeviceLen(r) \in Nat /\ MaxDeviceLen(r) <= Width /\ Width \in Nat
  BY <1>1, LengthsAre
<1>3. QED
  BY <1>1, <1>2 DEF TableTypes, Lengths, RowEnd, Max2, Positions

LEMMA RowEndsNext ==
  ASSUME TableTypes', Lengths', NEW r \in Live'
  PROVE  /\ r \in Reqs /\ RowEnd(r)' \in Nat /\ RowEnd(r)' <= Width
         /\ handle'[r] \in Nat /\ cached'[r] \in Nat /\ alloc'[r] \in Nat /\ dev'[r] \in Nat
         /\ handle'[r] <= cached'[r] /\ cached'[r] <= RowEnd(r)'
         /\ dev'[r] = cached'[r] + 1 /\ dev'[r] <= MaxDeviceLen(r)
         /\ Positions = 0 .. (Width - 1) /\ Width \in Nat
<1>1. r \in Reqs /\ st'[r] # "new" /\ dev'[r] <= MaxDeviceLen(r)
  BY DEF Live, Lengths
<1>2. MaxDeviceLen(r) \in Nat /\ MaxDeviceLen(r) <= Width /\ Width \in Nat
  BY <1>1, LengthsAre
<1>3. QED
  BY <1>1, <1>2 DEF TableTypes, Lengths, RowEnd, Max2, Positions

(* A decode step extends each running row with pages of its own.            *)
LEMMA DecodeTable ==
  ASSUME NEW C, TableInv(C), Steady, NEW f, Joins(C, f), NEW E, DecodeAlloc(f, E)
  PROVE  /\ TableInv(C \cup f)'
         /\ Live' = Live /\ handle' = handle /\ Leaves
         /\ \A r \in Running : /\ cached'[r] = dev[r] /\ dev'[r] = dev[r] + 1
                               /\ dev[r] <= RowEnd(r)' /\ cached[r] + 1 = dev[r]
         /\ \A r \in Reqs \ Running : cached'[r] = cached[r] /\ dev'[r] = dev[r]
<1> DEFINE S == DecodeNeed
           pool == f \cup {tree[k] : k \in E}
           page == Granted(S, pool)
<1>1. /\ E \in Evictions(Cardinality(DecodeNeed) - Cardinality(f), Locked(Live, handle))
      /\ AllocatePaged(Running, cached, dev, f, row, E)
      /\ CompleteOne(Running, dev)
      /\ handle' = handle /\ ongoing' = [kind |-> "decode", reqs |-> Running] /\ last' = last
  BY DEF DecodeAlloc, Launch
<1>2. /\ free' = pool \ Range(page)
      /\ tree' = [k \in DOMAIN tree \ E |-> tree[k]]
      /\ row' = [r \in Reqs |-> [j \in Positions |->
                   IF <<r, j>> \in S THEN page[<<r, j>>] ELSE row[r][j]]]
      /\ alloc' = [r \in Reqs |->
                     IF r \in Running /\ HorizonNow > 0 THEN Max2(alloc[r], LastPage(r, dev[r]))
                     ELSE alloc[r]]
  BY <1>1 DEF AllocatePaged, DecodeNeed
<1>3. /\ cached' = [r \in Reqs |-> IF r \in Running THEN dev[r] ELSE cached[r]]
      /\ dev' = [r \in Reqs |-> IF r \in Running THEN dev[r] + 1 ELSE dev[r]]
      /\ st' = [r \in Reqs |-> IF r \notin Running THEN st[r]
                           ELSE IF dev[r] + 1 < MaxDeviceLen(r) THEN "running" ELSE "last"]
  BY <1>1 DEF CompleteOne
<1>4. TableTypes /\ Lengths /\ TreeClosed /\ Shared /\ Partition(C, free, tree, row, Claims)
  BY DEF TableInv
<1>5. Running \subseteq Live /\ Live \subseteq Reqs
  BY DEF Running, Live
<1>6. Live' = Live
  BY <1>3 DEF Live, Running
<1>7. ASSUME NEW r \in Running
      PROVE  /\ FirstPage(r, cached[r]) = RowEnd(r)
             /\ LastPage(r, dev[r]) \in dev[r] .. Width
             /\ RowEnd(r)' = Max2(RowEnd(r), LastPage(r, dev[r]))
             /\ alloc'[r] <= Width
             /\ (Horizon = 0 => alloc'[r] = 0)
             /\ (Horizon > 0 => cached'[r] <= alloc'[r])
  BY DecodeEnds
<1>8. ASSUME NEW r \in Reqs \ Running
      PROVE  /\ RowEnd(r)' = RowEnd(r) /\ alloc'[r] = alloc[r] /\ cached'[r] = cached[r]
             /\ dev'[r] = dev[r] /\ st'[r] = st[r]
  BY <1>2, <1>3 DEF RowEnd
<1>9. S = {x \in Running \X Positions : RowEnd(x[1]) <= x[2] /\ x[2] < LastPage(x[1], dev[x[1]])}
  BY <1>7 DEF DecodeNeed, Needed
<1>10. S \in SUBSET (Reqs \X Positions) /\ S \cap Claims = {} /\ Claims \in SUBSET (Reqs \X Positions)
  <2>1. ASSUME NEW x \in S
        PROVE  x \in Reqs \X Positions /\ x \notin Claims
    <3>1. x \in Running \X Positions /\ RowEnd(x[1]) <= x[2]
      BY <1>9
    <3>2. x[1] \in Live /\ x[2] \in Int
      BY <1>5, <3>1, RequestAssumption DEF Positions
    <3>3. RowEnd(x[1]) \in Nat
      BY <1>4, <3>2, RowEnds
    <3>4. QED
      BY <1>5, <3>1, <3>2, <3>3 DEF Claims
  <2>2. Claims \in SUBSET (Reqs \X Positions)
    BY DEF Claims
  <2>3. QED
    BY <2>1, <2>2
<1>11. Partition(C \cup f, f, tree, row, Claims)
  BY <1>4, GrowPartition DEF Joins
<1> DEFINE locked == Locked(Live, handle)
<1>12. /\ E \in SUBSET DOMAIN tree
       /\ \A k \in E : k \notin locked
       /\ \A j \in E : \A k \in DOMAIN tree : Extends(k, j) => k \in E
       /\ pool \subseteq Pages /\ Cardinality(S) <= Cardinality(pool)
  <2> HIDE DEF S, locked
  <2>1. E \in Evictions(Cardinality(S) - Cardinality(f), locked)
    BY <1>1 DEF S, locked
  <2>2. QED
    BY <1>10, <1>11, <2>1, EvictionsAre
<1>13. page \in [S -> pool] /\ \A x, y \in S : page[x] = page[y] => x = y
  <2> HIDE DEF S, pool
  <2>1. S \in SUBSET (Nat \X Nat) /\ pool \in SUBSET Int
    <3>1. Reqs \subseteq Nat /\ Positions \subseteq Nat /\ Pages \subseteq Int
      BY RequestAssumption DEF Reqs, Positions, Pages
    <3>2. QED
      BY <1>10, <1>12, <3>1
  <2>2. IsFiniteSet(S) /\ IsFiniteSet(pool)
    BY <1>10, <1>12, PagesFinite, FS_Subset
  <2>3. QED
    BY <1>12, <2>1, <2>2, GrantedIs
<1>14. Partition(C \cup f, free', tree', row', Claims \cup S)
  <2> HIDE DEF S, page
  <2>1. Allocates(f, tree, row, E, S, page, free', tree', row')
    BY <1>2, <1>13, Zenon DEF Allocates
  <2>2. QED
    BY <1>10, <1>11, <1>12, <2>1, AllocPartition
<1> HIDE DEF S, page, pool, locked
<1>15. ASSUME NEW r \in Live, NEW j \in 0 .. (RowEnd(r) - 1)
       PROVE  row'[r][j] = row[r][j]
  <2>1. r \in Reqs /\ j \in Positions /\ RowEnd(r) \in Nat
    BY <1>4, RowEnds
  <2>2. <<r, j>> \notin S
    BY <1>9, <2>1
  <2>3. QED
    BY <1>2, <2>1, <2>2
<1>16. ASSUME NEW r \in Live
       PROVE  RowEnd(r) <= RowEnd(r)' /\ RowEnd(r)' \in Nat
  <2>1. RowEnd(r) \in Nat /\ r \in Reqs /\ Width \in Nat /\ dev[r] \in Nat
    BY <1>4, RowEnds
  <2>2. CASE r \in Running
    BY <1>7, <2>1, <2>2 DEF Max2
  <2>3. CASE r \notin Running
    BY <1>8, <2>1, <2>3
  <2>4. QED
    BY <2>2, <2>3
<1>17. Leaves
  BY <1>2, <1>15, <1>16 DEF Leaves
<1>18. Claims' = Claims \cup S
  <2>1. ASSUME NEW x \in Reqs \X Positions
        PROVE  x \in Claims' <=> x \in Claims \/ x \in S
    <3>1. CASE x[1] \in Running
      <4>1. /\ RowEnd(x[1])' = Max2(RowEnd(x[1]), LastPage(x[1], dev[x[1]]))
            /\ LastPage(x[1], dev[x[1]]) \in dev[x[1]] .. Width
        BY <1>7, <3>1
      <4>2. /\ RowEnd(x[1]) \in Nat /\ handle[x[1]] \in Nat /\ handle[x[1]] <= cached[x[1]]
            /\ cached[x[1]] \in Nat /\ cached[x[1]] <= RowEnd(x[1]) /\ x[1] \in Live
            /\ dev[x[1]] \in Nat /\ Width \in Nat /\ Positions = 0 .. (Width - 1)
        BY <1>4, <1>5, <3>1, RowEnds
      <4>3. x \in Claims' <=> handle[x[1]] <= x[2] /\ x[2] < RowEnd(x[1])'
        BY <1>1, <1>6, <4>2 DEF Claims
      <4>4. x \in Claims <=> handle[x[1]] <= x[2] /\ x[2] < RowEnd(x[1])
        BY <4>2 DEF Claims
      <4>5. x \in S <=> RowEnd(x[1]) <= x[2] /\ x[2] < LastPage(x[1], dev[x[1]])
        BY <1>9, <3>1
      <4>6. QED
        BY <4>1, <4>2, <4>3, <4>4, <4>5 DEF Max2
    <3>2. CASE x[1] \notin Running
      BY <1>1, <1>6, <1>8, <1>9, <3>2 DEF Claims
    <3>3. QED
      BY <3>1, <3>2
  <2>2. Claims' \in SUBSET (Reqs \X Positions)
    BY DEF Claims
  <2>3. QED
    BY <1>10, <2>1, <2>2
<1>19. Partition(C \cup f, free', tree', row', Claims')
  BY <1>14, <1>18
<1>20. row' \in [Reqs -> [Positions -> Pages \cup {NoPage}]]
  <2>1. ASSUME NEW r \in Reqs, NEW j \in Positions
        PROVE  (IF <<r, j>> \in S THEN page[<<r, j>>] ELSE row[r][j]) \in Pages \cup {NoPage}
    BY <1>4, <1>12, <1>13 DEF TableTypes
  <2>2. QED
    BY <1>2, <2>1
<1>21. TableTypes'
  <2>1. /\ st \in [Reqs -> Statuses]
        /\ cached \in [Reqs -> Nat] /\ dev \in [Reqs -> Nat]
        /\ alloc \in [Reqs -> Nat] /\ handle \in [Reqs -> Nat]
        /\ last = [kind |-> last.kind, reqs |-> last.reqs]
        /\ last.reqs \subseteq Live
    BY <1>4 DEF TableTypes
  <2>2. st' \in [Reqs -> Statuses]
    BY <1>3, <2>1 DEF Statuses
  <2>3. cached' \in [Reqs -> Nat] /\ dev' \in [Reqs -> Nat]
    BY <1>3, <2>1
  <2>4. alloc' \in [Reqs -> Nat]
    <3>1. ASSUME NEW r \in Running
          PROVE  Max2(alloc[r], LastPage(r, dev[r])) \in Nat
      BY <1>5, <1>7, <2>1, LengthsAre DEF Max2
    <3>2. QED
      BY <1>2, <2>1, <3>1
  <2>5. last'.reqs \subseteq Live' /\ ongoing'.reqs \subseteq Live'
    BY <1>1, <1>5, <1>6, <2>1
  <2>6. QED
    BY <1>1, <1>20, <2>1, <2>2, <2>3, <2>4, <2>5 DEF TableTypes
<1>22. Lengths'
  <2>1. ASSUME NEW r \in Running
        PROVE  /\ handle'[r] <= cached'[r] /\ dev'[r] <= MaxDeviceLen(r) /\ alloc'[r] <= Width
               /\ st'[r] # "new" /\ dev'[r] = cached'[r] + 1
               /\ st'[r] = "running" => dev'[r] < MaxDeviceLen(r)
               /\ Horizon = 0 => alloc'[r] = 0
               /\ Horizon > 0 => cached'[r] <= alloc'[r]
    <3>1. /\ handle[r] \in Nat /\ cached[r] \in Nat /\ dev[r] = cached[r] + 1
          /\ handle[r] <= cached[r] /\ r \in Reqs
      BY <1>4, <1>5, RowEnds
    <3>2. dev[r] < MaxDeviceLen(r) /\ MaxDeviceLen(r) \in Nat
      BY <1>4, <3>1, LengthsAre DEF Lengths, Running
    <3>3. QED
      BY <1>1, <1>3, <1>7, <3>1, <3>2
  <2>2. ASSUME NEW r \in Reqs \ Running
        PROVE  /\ handle'[r] = handle[r] /\ cached'[r] = cached[r] /\ dev'[r] = dev[r]
               /\ alloc'[r] = alloc[r] /\ st'[r] = st[r]
    BY <1>1, <1>8
  <2>3. QED
    BY <1>4, <1>5, <1>6, <2>1, <2>2 DEF Lengths
<1>23. TreeClosed'
  BY <1>2, <1>4, <1>12, EvictClosed
<1>24. Shared'
  <2> SUFFICES ASSUME NEW r \in Live, NEW i \in 1 .. handle[r]
               PROVE  Tok(r, i) \in DOMAIN tree' /\ row'[r][i - 1] = tree'[Tok(r, i)]
    BY <1>1, <1>6 DEF Shared
  <2>1. Tok(r, i) \in DOMAIN tree /\ row[r][i - 1] = tree[Tok(r, i)]
    BY <1>4 DEF Shared
  <2>2. Tok(r, i) \in locked
    BY <2>1 DEF locked, Locked
  <2>3. Tok(r, i) \in DOMAIN tree' /\ tree'[Tok(r, i)] = tree[Tok(r, i)]
    BY <1>2, <1>12, <2>1, <2>2
  <2>4. i - 1 \in 0 .. (RowEnd(r) - 1)
    BY <1>4, RowEnds
  <2>5. QED
    BY <1>15, <2>1, <2>3, <2>4
<1>25. TableInv(C \cup f)'
  BY <1>19, <1>21, <1>22, <1>23, <1>24 DEF TableInv
<1>26. \A r \in Running : /\ cached'[r] = dev[r] /\ dev'[r] = dev[r] + 1
                          /\ dev[r] <= RowEnd(r)' /\ cached[r] + 1 = dev[r]
  <2>1. ASSUME NEW r \in Running
        PROVE  /\ cached'[r] = dev[r] /\ dev'[r] = dev[r] + 1
               /\ dev[r] <= RowEnd(r)' /\ cached[r] + 1 = dev[r]
    <3>1. /\ dev[r] \in Nat /\ dev[r] = cached[r] + 1 /\ RowEnd(r) \in Nat /\ r \in Reqs
          /\ Width \in Nat
      BY <1>4, <1>5, RowEnds
    <3>2. cached'[r] = dev[r] /\ dev'[r] = dev[r] + 1
      BY <1>3, <3>1
    <3>3. dev[r] <= Max2(RowEnd(r), LastPage(r, dev[r]))
      BY <1>7, <3>1 DEF Max2
    <3>4. QED
      BY <1>7, <3>1, <3>2, <3>3
  <2>2. QED
    BY <2>1
<1>27. \A r \in Reqs \ Running : cached'[r] = cached[r] /\ dev'[r] = dev[r]
  BY <1>8
<1>28. QED
  BY <1>1, <1>6, <1>17, <1>25, <1>26, <1>27

-----------------------------------------------------------------------------
(* The KV under a forward.                                                  *)

(* The forward writes no page but those at the places W of the new table.   *)
Writes(W) ==
  /\ kv' = [p \in Pages |-> kv'[p]]
  /\ W \subseteq Claims'
  /\ \A p \in Pages : (\A x \in W : At(row', x) # p) => kv'[p] = kv[p]

(* A forward writes what no cached prefix and no other place refers to.     *)
LEMMA WritesTree ==
  ASSUME NEW D, TableInv(D)', NEW W, Writes(W), TreeRight,
         \A k \in DOMAIN tree' : k \in DOMAIN tree /\ tree'[k] = tree[k]
  PROVE  TreeRight'
<1> SUFFICES ASSUME NEW k \in DOMAIN tree'
             PROVE  tree'[k] \in Pages /\ kv'[tree'[k]] = k
  BY DEF TreeRight
<1>1. tree'[k] = tree[k] /\ tree[k] \in Pages /\ kv[tree[k]] = k
  BY DEF TreeRight
<1>2. \A x \in Claims' : At(row', x) # tree'[k]
  BY DEF TableInv, Partition
<1>3. kv'[tree[k]] = kv[tree[k]]
  BY <1>1, <1>2 DEF Writes
<1>4. QED
  BY <1>1, <1>3

LEMMA WritesHolds ==
  ASSUME NEW D, TableInv(D)', NEW W, Writes(W),
         NEW r \in Live, r \in Live', NEW n \in Nat, Holds(r, n), n <= RowEnd(r)',
         \A j \in 0 .. (n - 1) : row'[r][j] = row[r][j],
         \A j \in 0 .. (n - 1) : <<r, j>> \notin W
  PROVE  Holds(r, n)'
<1> SUFFICES ASSUME NEW j \in 0 .. (n - 1)
             PROVE  row'[r][j] \in Pages /\ kv'[row'[r][j]] = Tok(r, j + 1)
  BY DEF Holds
<1>1. row'[r][j] = row[r][j] /\ row[r][j] \in Pages /\ kv[row[r][j]] = Tok(r, j + 1)
  BY DEF Holds
<1>2. /\ r \in Reqs /\ RowEnd(r)' \in Nat /\ RowEnd(r)' <= Width /\ handle'[r] \in Nat
      /\ Positions = 0 .. (Width - 1) /\ Width \in Nat
  BY RowEndsNext DEF TableInv
<1>3. ASSUME NEW x \in W
      PROVE  At(row', x) # row'[r][j]
  <2>1. x \in Claims'
    BY DEF Writes
  <2>2. CASE handle'[r] <= j
    <3>1. <<r, j>> \in Reqs \X Positions /\ <<r, j>>[1] = r /\ <<r, j>>[2] = j
      BY <1>2
    <3>2. <<r, j>> \in Claims'
      BY <1>2, <2>2, <3>1 DEF Claims
    <3>3. At(row', <<r, j>>) = row'[r][j]
      BY DEF At
    <3>4. \A y, z \in Claims' : At(row', y) = At(row', z) => y = z
      BY Zenon DEF TableInv, Partition
    <3>5. QED
      BY <2>1, <3>2, <3>3, <3>4
  <2>3. CASE ~(handle'[r] <= j)
    <3>1. j + 1 \in 1 .. handle'[r] /\ (j + 1) - 1 = j
      BY <1>2, <2>3
    <3>2. Tok(r, j + 1) \in DOMAIN tree' /\ row'[r][j] = tree'[Tok(r, j + 1)]
      BY <3>1 DEF TableInv, Shared
    <3>3. QED
      BY <2>1, <3>2 DEF TableInv, Partition
  <2>4. QED
    BY <2>2, <2>3
<1>4. kv'[row'[r][j]] = kv[row'[r][j]]
  BY <1>1, <1>3 DEF Writes
<1>5. QED
  BY <1>1, <1>4

(* What Written leaves in the positions it is given.                        *)
LEMMA WrittenIs ==
  ASSUME NEW D, TableInv(D)', NEW r \in Reqs, NEW P \in SUBSET Positions, NEW ok,
         {r} \X P \subseteq Claims', kv' = Written(r, P, ok)
  PROVE  /\ Writes({r} \X P)
         /\ \A j \in P : /\ row'[r][j] \in Pages
                         /\ kv'[row'[r][j]] = IF ok[j] THEN Tok(r, j + 1) ELSE Torn
<1>1. kv' = [p \in Pages |->
               IF \E j \in P : row'[r][j] = p
               THEN LET j == CHOOSE i \in P : row'[r][i] = p IN IF ok[j] THEN Tok(r, j + 1) ELSE Torn
               ELSE kv[p]]
  BY DEF Written
<1>2. \A j \in P : <<r, j>> \in Claims' /\ At(row', <<r, j>>) = row'[r][j]
  BY DEF At
<1>3. \A j \in P : row'[r][j] \in Pages
  BY <1>2 DEF TableInv, Partition
<1>4. ASSUME NEW i \in P, NEW j \in P, row'[r][i] = row'[r][j]
      PROVE  i = j
  <2>1. \A y, z \in Claims' : At(row', y) = At(row', z) => y = z
    BY Zenon DEF TableInv, Partition
  <2>2. <<r, i>> = <<r, j>>
    BY <1>2, <1>4, <2>1
  <2>3. QED
    BY <2>2
<1>5. ASSUME NEW j \in P
      PROVE  kv'[row'[r][j]] = IF ok[j] THEN Tok(r, j + 1) ELSE Torn
  <2>1. PICK p \in Pages : p = row'[r][j]
    BY <1>3
  <2>2. \A i \in P : row'[r][i] = p => i = j
    BY <1>4, <2>1
  <2>3. j = CHOOSE i \in P : row'[r][i] = p
    BY <2>1, <2>2
  <2>4. kv'[p] = LET i == CHOOSE e \in P : row'[r][e] = p IN IF ok[i] THEN Tok(r, i + 1) ELSE Torn
    BY <1>1, <2>1
  <2>5. QED
    BY <2>1, <2>3, <2>4
<1>6. ASSUME NEW p \in Pages, \A x \in {r} \X P : At(row', x) # p
      PROVE  kv'[p] = kv[p]
  <2>1. \A j \in P : row'[r][j] # p
    <3>1. ASSUME NEW j \in P
          PROVE  row'[r][j] # p
      <4>1. <<r, j>> \in {r} \X P
        OBVIOUS
      <4>2. QED
        BY <1>2, <1>6, <4>1
    <3>2. QED
      BY <3>1
  <2>2. QED
    BY <1>1, <2>1
<1>7. kv' = [p \in Pages |-> kv'[p]]
  BY <1>1
<1>8. QED
  BY <1>3, <1>5, <1>6, <1>7 DEF Writes

-----------------------------------------------------------------------------
(* The KV after a decode step.                                              *)

LEMMA VerifiedIs ==
  ASSUME TableTypes, Lengths, KvTypes, NEW r \in Live
  PROVE  Verified(r) \in Nat /\ cached[r] <= Verified(r) /\ cached[r] \in Nat
<1>1. cached[r] \in Nat /\ spec.left \in Nat
  BY RowEnds DEF KvTypes
<1>2. QED
  BY <1>1 DEF Verified

(* What a row held of accepted tokens it holds after a step that writes     *)
(* elsewhere.                                                               *)
LEMMA VerifiedKept ==
  ASSUME NEW C, PoolInv(C), NEW D, TableInv(D)', Leaves,
         NEW W, Writes(W), NEW q \in Live, q \in Live', NEW n \in Nat, n <= Verified(q),
         \A j \in 0 .. (n - 1) : <<q, j>> \notin W
  PROVE  Holds(q, n)' /\ n <= RowEnd(q)'
<1>1. Verified(q) \in Nat /\ RowEnd(q) \in Nat /\ Verified(q) <= RowEnd(q) /\ Holds(q, Verified(q))
  BY VerifiedIs, RowEnds DEF PoolInv, TableInv, VerifiedRight
<1>2. Holds(q, n)
  BY <1>1 DEF Holds
<1>3. RowEnd(q) <= RowEnd(q)' /\ RowEnd(q)' \in Nat
  BY DEF Leaves
<1>4. n <= RowEnd(q)'
  BY <1>1, <1>3
<1>5. \A j \in 0 .. (n - 1) : row'[q][j] = row[q][j]
  BY <1>1 DEF Leaves
<1>6. QED
  BY <1>2, <1>4, <1>5, WritesHolds

(* No forward: the next token popped was verified.                          *)
LEMMA PopKeeps ==
  ASSUME NEW C, PoolInv(C), Steady, NEW f, Joins(C, f), NEW E, DecodePop(f, E)
  PROVE  PoolInv(C \cup f)'
<1>1. PICK r \in Reqs : /\ Alone(r) /\ DecodeAlloc(f, E) /\ CanPop(r)
                        /\ spec' = [spec EXCEPT !.left = @ - 1, !.expect = @ + 1]
                        /\ kv' = kv
  BY DEF DecodePop
<1>2. Running = {r} /\ r \in Live /\ spec.uid = r /\ spec.expect = dev[r] /\ spec.left > 0
  BY <1>1 DEF Alone, CanPop, Keyed, Live, Running
<1>3. TableInv(C) /\ KvTypes /\ TreeRight /\ VerifiedRight /\ KeyBehind
  BY DEF PoolInv
<1>4. /\ TableInv(C \cup f)'
      /\ Live' = Live /\ Leaves
      /\ \A q \in Running : /\ cached'[q] = dev[q] /\ dev'[q] = dev[q] + 1
                            /\ dev[q] <= RowEnd(q)' /\ cached[q] + 1 = dev[q]
      /\ \A q \in Reqs \ Running : cached'[q] = cached[q] /\ dev'[q] = dev[q]
  BY <1>1, <1>3, DecodeTable
<1>5. cached'[r] = dev[r] /\ dev'[r] = dev[r] + 1 /\ cached[r] + 1 = dev[r]
  BY <1>2, <1>4
<1>6. /\ spec \in [uid : Reqs \cup {0}, expect : Nat, left : Nat]
      /\ kv = [p \in Pages |-> kv[p]]
  BY <1>3 DEF KvTypes
<1>7. spec'.uid = r /\ spec'.expect = dev[r] + 1 /\ spec'.left = spec.left - 1
  BY <1>1, <1>2, <1>6
<1>8. KvTypes'
  <2>1. spec.left - 1 \in Nat /\ spec.expect + 1 \in Nat
    BY <1>2, <1>6
  <2>2. spec' \in [uid : Reqs \cup {0}, expect : Nat, left : Nat]
    BY <1>1, <1>6, <2>1
  <2>3. QED
    BY <1>1, <1>6, <2>2 DEF KvTypes
<1>9. Writes({})
  BY <1>1, <1>6 DEF Writes
<1>10. TreeRight'
  BY <1>3, <1>4, <1>9, WritesTree DEF Leaves
<1>11. ASSUME NEW q \in Live
       PROVE  Verified(q)' \in Nat /\ Verified(q)' <= Verified(q)
  <2>1. Verified(q) \in Nat /\ cached[q] <= Verified(q) /\ cached[q] \in Nat /\ q \in Reqs
    BY <1>3, VerifiedIs DEF TableInv, Live
  <2>2. CASE q = r
    <3>1. Keyed(r) /\ Keyed(r)'
      BY <1>2, <1>5, <1>7 DEF Keyed
    <3>2. Verified(r) = cached[r] + spec.left /\ Verified(r)' = dev[r] + (spec.left - 1)
      BY <1>5, <1>7, <3>1 DEF Verified
    <3>3. spec.left \in Nat /\ cached[r] \in Nat
      BY <1>6, <2>1, <2>2
    <3>4. QED
      BY <1>2, <1>5, <2>2, <3>2, <3>3
  <2>3. CASE q # r
    <3>1. ~ Keyed(q)'
      BY <1>7, <2>3 DEF Keyed
    <3>2. Verified(q)' = cached[q] + 0
      BY <1>2, <1>4, <2>1, <2>3, <3>1 DEF Verified
    <3>3. QED
      BY <2>1, <3>2
  <2>4. QED
    BY <2>2, <2>3
<1>12. VerifiedRight'
  <2>1. ASSUME NEW q \in Live
        PROVE  Verified(q)' <= RowEnd(q)' /\ Holds(q, Verified(q))'
    <3>1. PICK n \in Nat : n = Verified(q)' /\ n <= Verified(q)
      BY <1>11
    <3>2. Holds(q, n)' /\ n <= RowEnd(q)'
      BY <1>4, <1>9, <3>1, VerifiedKept
    <3>3. QED
      BY <3>1, <3>2 DEF Holds
  <2>2. QED
    BY <1>4, <2>1 DEF VerifiedRight
<1>13. KeyBehind'
  <2>1. st'[r] # "new" /\ dev[r] \in Nat
    BY <1>2, <1>3, <1>4, RowEnds DEF Live, TableInv
  <2>2. QED
    BY <1>5, <1>7, <2>1 DEF KeyBehind
<1>14. QED
  BY <1>4, <1>8, <1>10, <1>12, <1>13 DEF PoolInv

(* A verify forward: the accepted drafts are in place, the others are torn  *)
(* and beyond what is verified.                                             *)
LEMMA RoundKeeps ==
  ASSUME NEW C, PoolInv(C), Steady, NEW f, Joins(C, f), NEW E, DecodeRound(f, E)
  PROVE  PoolInv(C \cup f)'
<1>1. PICK r \in Reqs, m \in 0 .. Horizon :
        /\ Alone(r) /\ DecodeAlloc(f, E) /\ CanRound(r)
        /\ m <= MaxDeviceLen(r) - dev[r] - 1
        /\ kv' = Written(r, (dev[r] - 1) .. (dev[r] + Horizon - 1),
                         [j \in Positions |-> j < dev[r] + m])
        /\ spec' = [uid |-> r, expect |-> dev[r] + 1, left |-> m]
  BY DEF DecodeRound
<1>2. Running = {r} /\ r \in Live /\ alloc'[r] >= dev[r] + Horizon /\ Horizon \in Nat
  BY <1>1, RequestAssumption DEF Alone, CanRound, Live, Running
<1>3. TableInv(C) /\ KvTypes /\ TreeRight /\ VerifiedRight /\ KeyBehind
  BY DEF PoolInv
<1>4. /\ TableInv(C \cup f)'
      /\ Live' = Live /\ Leaves /\ handle' = handle
      /\ \A q \in Running : /\ cached'[q] = dev[q] /\ dev'[q] = dev[q] + 1
                            /\ dev[q] <= RowEnd(q)' /\ cached[q] + 1 = dev[q]
      /\ \A q \in Reqs \ Running : cached'[q] = cached[q] /\ dev'[q] = dev[q]
  BY <1>1, <1>3, DecodeTable
<1>5. cached'[r] = dev[r] /\ dev'[r] = dev[r] + 1 /\ cached[r] + 1 = dev[r]
  BY <1>2, <1>4
<1>6. /\ dev[r] \in Nat /\ cached[r] \in Nat /\ handle[r] \in Nat /\ handle[r] <= cached[r]
      /\ Positions = 0 .. (Width - 1) /\ Width \in Nat
  BY <1>2, <1>3, RowEnds DEF TableInv
<1>7. RowEnd(r)' \in Nat /\ RowEnd(r)' <= Width /\ dev[r] + Horizon <= RowEnd(r)'
  <2>1. RowEnd(r)' \in Nat /\ RowEnd(r)' <= Width /\ alloc'[r] \in Nat /\ cached'[r] \in Nat
    BY <1>2, <1>4, RowEndsNext DEF TableInv
  <2>2. alloc'[r] <= RowEnd(r)'
    BY <2>1 DEF RowEnd, Max2
  <2>3. QED
    BY <1>2, <1>6, <2>1, <2>2
<1> DEFINE P == (dev[r] - 1) .. (dev[r] + Horizon - 1)
           ok == [j \in Positions |-> j < dev[r] + m]
<1>8. P \in SUBSET Positions
  <2>1. PICK v \in Nat, w \in Nat : v = dev[r] /\ w = Width
    BY <1>2, <1>5, <1>6, <1>7
  <2>2. v - 1 >= 0 /\ v + Horizon <= w /\ Positions = 0 .. (w - 1) /\ Horizon \in Nat
    <3>1. v - 1 >= 0
      BY <1>5, <1>6, <2>1
    <3>2. v + Horizon <= w
      BY <1>2, <1>6, <1>7, <2>1
    <3>3. QED
      BY <1>2, <1>6, <2>1, <3>1, <3>2
  <2>3. PICK u \in Nat : u = v + Horizon
    BY <2>2
  <2>4. P = (v - 1) .. (u - 1)
    <3>1. P = (v - 1) .. (v + Horizon - 1)
      BY <2>1
    <3>2. v + Horizon - 1 = u - 1
      BY <2>2, <2>3
    <3> HIDE DEF P
    <3>3. QED
      BY <3>1, <3>2
  <2>5. ASSUME NEW j \in (v - 1) .. (u - 1)
        PROVE  j \in Positions
    <3>1. j \in Nat /\ j <= u - 1 /\ u <= w
      BY <2>2, <2>3
    <3>2. QED
      BY <2>2, <3>1
  <2>6. QED
    BY <2>4, <2>5
<1>9. {r} \X P \subseteq Claims'
  <2>1. ASSUME NEW j \in P
        PROVE  <<r, j>> \in Claims'
    <3>1. j \in Positions /\ handle'[r] <= j /\ j < RowEnd(r)'
      <4>1. handle'[r] = handle[r] /\ j \in Int /\ dev[r] - 1 <= j /\ j <= dev[r] + Horizon - 1
        BY <1>2, <1>4, <1>6
      <4>2. j \in Positions
        BY <1>8
      <4>3. handle'[r] <= j
        BY <1>5, <1>6, <4>1
      <4>4. j < RowEnd(r)'
        BY <1>2, <1>6, <1>7, <4>1
      <4>5. QED
        BY <4>2, <4>3, <4>4
    <3>2. <<r, j>> \in Reqs \X Positions /\ <<r, j>>[1] = r /\ <<r, j>>[2] = j
      BY <3>1
    <3>3. QED
      BY <1>2, <1>4, <3>1, <3>2 DEF Claims
  <2>2. QED
    BY <2>1
<1>10. /\ Writes({r} \X P)
       /\ \A j \in P : /\ row'[r][j] \in Pages
                       /\ kv'[row'[r][j]] = IF ok[j] THEN Tok(r, j + 1) ELSE Torn
  <2>1. kv' = Written(r, P, ok)
    BY <1>1
  <2> HIDE DEF P, ok
  <2>2. QED
    BY <1>4, <1>8, <1>9, <2>1, WrittenIs
<1>11. KvTypes'
  <2>1. spec' \in [uid : Reqs \cup {0}, expect : Nat, left : Nat]
    BY <1>1, <1>2, <1>6
  <2>2. QED
    BY <1>10, <2>1 DEF KvTypes, Writes
<1>12. TreeRight'
  BY <1>3, <1>4, <1>10, WritesTree DEF Leaves
<1>13. ASSUME NEW q \in Live, q # r
       PROVE  Verified(q)' <= RowEnd(q)' /\ Holds(q, Verified(q))'
  <2>1. Verified(q) \in Nat /\ cached[q] <= Verified(q) /\ cached[q] \in Nat /\ q \in Reqs
    BY <1>3, VerifiedIs DEF TableInv, Live
  <2>2. ~ Keyed(q)'
    BY <1>1, <1>13 DEF Keyed
  <2>3. Verified(q)' = cached[q]
    BY <1>2, <1>4, <1>13, <2>1, <2>2 DEF Verified
  <2>4. PICK n \in Nat : n = cached[q]
    BY <2>1
  <2>5. \A j \in 0 .. (n - 1) : <<q, j>> \notin {r} \X P
    BY <1>13
  <2>6. Holds(q, n)' /\ n <= RowEnd(q)'
    BY <1>4, <1>10, <2>1, <2>4, <2>5, VerifiedKept
  <2>7. QED
    BY <2>3, <2>4, <2>6 DEF Holds
<1>14. Verified(r)' <= RowEnd(r)' /\ Holds(r, Verified(r))'
  <2>1. Keyed(r)' /\ spec'.left = m
    BY <1>1, <1>5 DEF Keyed
  <2>2. Verified(r)' = dev[r] + m
    BY <1>5, <2>1 DEF Verified
  <2>3. PICK n \in Nat : n = cached[r]
    BY <1>6
  <2>4. Verified(r) \in Nat /\ n <= Verified(r)
    BY <1>2, <1>3, <2>3, VerifiedIs DEF TableInv
  <2>5. \A j \in 0 .. (n - 1) : <<r, j>> \notin {r} \X P
    BY <1>5, <1>6, <2>3
  <2>6. Holds(r, n)'
    BY <1>2, <1>4, <1>10, <2>4, <2>5, VerifiedKept
  <2>7. PICK v \in Nat : v = dev[r] + m
    BY <1>2, <1>6
  <2>8. ASSUME NEW j \in 0 .. (v - 1)
        PROVE  row'[r][j] \in Pages /\ kv'[row'[r][j]] = Tok(r, j + 1)
    <3>1. CASE j < n
      BY <1>5, <1>6, <2>3, <2>6, <3>1 DEF Holds
    <3>2. CASE ~(j < n)
      <4>1. m \in Nat /\ m <= Horizon /\ dev[r] - 1 <= j /\ j \in Int
        BY <1>1, <1>2, <1>5, <1>6, <2>3, <3>2
      <4>2. j < dev[r] + m
        BY <2>7
      <4>3. j \in P /\ j \in Positions /\ j < dev[r] + m
        BY <1>2, <1>6, <1>8, <4>1, <4>2
      <4>4. ok[j]
        BY <4>3
      <4> HIDE DEF P, ok
      <4>5. QED
        BY <1>10, <4>3, <4>4
    <3>3. QED
      BY <3>1, <3>2
  <2>9. v <= RowEnd(r)'
    BY <1>2, <1>6, <1>7, <2>7
  <2>10. QED
    BY <2>2, <2>7, <2>8, <2>9 DEF Holds
<1>15. VerifiedRight'
  BY <1>4, <1>13, <1>14 DEF VerifiedRight
<1>16. KeyBehind'
  <2>1. st'[r] # "new"
    BY <1>2, <1>4 DEF Live
  <2>2. QED
    BY <1>1, <1>5, <1>6, <2>1 DEF KeyBehind
<1>17. QED
  BY <1>4, <1>11, <1>12, <1>15, <1>16 DEF PoolInv

(* The normal forward writes the newest token of every running request.     *)
LEMMA PlainKeeps ==
  ASSUME NEW C, PoolInv(C), Steady, NEW f, Joins(C, f), NEW E, DecodePlain(f, E)
  PROVE  PoolInv(C \cup f)'
<1>1. /\ DecodeAlloc(f, E)
      /\ kv' = [p \in Pages |->
                  IF \E r \in Running : row'[r][dev[r] - 1] = p
                  THEN LET r == CHOOSE q \in Running : row'[q][dev[q] - 1] = p
                       IN Tok(r, dev[r])
                  ELSE kv[p]]
      /\ spec' = IF \E r \in Reqs : Alone(r)
                 THEN LET r == CHOOSE q \in Reqs : Alone(q)
                      IN [uid |-> r, expect |-> dev[r] + 1, left |-> 0]
                 ELSE spec
  BY DEF DecodePlain
<1>2. Running \subseteq Live /\ Live \subseteq Reqs
  BY DEF Running, Live
<1>3. TableInv(C) /\ KvTypes /\ TreeRight /\ VerifiedRight /\ KeyBehind
  BY DEF PoolInv
<1>4. /\ TableInv(C \cup f)'
      /\ Live' = Live /\ Leaves /\ handle' = handle
      /\ \A q \in Running : /\ cached'[q] = dev[q] /\ dev'[q] = dev[q] + 1
                            /\ dev[q] <= RowEnd(q)' /\ cached[q] + 1 = dev[q]
      /\ \A q \in Reqs \ Running : cached'[q] = cached[q] /\ dev'[q] = dev[q]
  BY <1>1, <1>3, DecodeTable
<1>5. ASSUME NEW q \in Live
      PROVE  /\ q \in Reqs /\ dev[q] \in Nat /\ cached[q] \in Nat /\ handle[q] \in Nat
             /\ handle[q] <= cached[q] /\ dev[q] = cached[q] + 1
             /\ Positions = 0 .. (Width - 1) /\ Width \in Nat
             /\ RowEnd(q)' \in Nat /\ RowEnd(q)' <= Width
             /\ Verified(q) \in Nat /\ cached[q] <= Verified(q)
  BY <1>3, <1>4, RowEnds, RowEndsNext, VerifiedIs DEF TableInv
<1> DEFINE W == {<<q, dev[q] - 1>> : q \in Running}
<1>6. ASSUME NEW q \in Running
      PROVE  <<q, dev[q] - 1>> \in Claims' /\ At(row', <<q, dev[q] - 1>>) = row'[q][dev[q] - 1]
  <2>1. /\ q \in Reqs /\ dev[q] - 1 \in Positions /\ handle'[q] <= dev[q] - 1
        /\ dev[q] - 1 < RowEnd(q)' /\ q \in Live
    BY <1>2, <1>4, <1>5
  <2>2. /\ <<q, dev[q] - 1>> \in Reqs \X Positions
        /\ <<q, dev[q] - 1>>[1] = q /\ <<q, dev[q] - 1>>[2] = dev[q] - 1
    BY <2>1
  <2>3. QED
    BY <1>4, <2>1, <2>2 DEF Claims, At
<1>7. ASSUME NEW q \in Running
      PROVE  row'[q][dev[q] - 1] \in Pages /\ kv'[row'[q][dev[q] - 1]] = Tok(q, dev[q])
  <2>1. PICK p : p = row'[q][dev[q] - 1]
    OBVIOUS
  <2>2. p \in Pages
    BY <1>4, <1>6, <2>1 DEF TableInv, Partition
  <2>3. ASSUME NEW r \in Running, row'[r][dev[r] - 1] = p
        PROVE  r = q
    <3>1. \A y, z \in Claims' : At(row', y) = At(row', z) => y = z
      BY <1>4, Zenon DEF TableInv, Partition
    <3>2. <<r, dev[r] - 1>> = <<q, dev[q] - 1>>
      BY <1>6, <2>1, <2>3, <3>1
    <3>3. QED
      BY <3>2
  <2>4. q = CHOOSE r \in Running : row'[r][dev[r] - 1] = p
    BY <2>1, <2>3
  <2>5. kv'[p] = LET r == CHOOSE e \in Running : row'[e][dev[e] - 1] = p IN Tok(r, dev[r])
    BY <1>1, <2>1, <2>2
  <2>6. QED
    BY <2>1, <2>2, <2>4, <2>5
<1>8. Writes(W)
  <2>1. kv' = [p \in Pages |-> kv'[p]]
    BY <1>1
  <2>2. W \subseteq Claims'
    BY <1>6
  <2>3. ASSUME NEW p \in Pages, \A x \in W : At(row', x) # p
        PROVE  kv'[p] = kv[p]
    <3>1. \A r \in Running : row'[r][dev[r] - 1] # p
      BY <1>6, <2>3
    <3>2. QED
      BY <1>1, <3>1
  <2>4. QED
    BY <2>1, <2>2, <2>3 DEF Writes
<1>9. \/ spec' = spec
      \/ \E r \in Reqs : Alone(r) /\ spec' = [uid |-> r, expect |-> dev[r] + 1, left |-> 0]
  BY <1>1
<1>10. KvTypes'
  <2>1. ASSUME NEW r \in Reqs, Alone(r), spec' = [uid |-> r, expect |-> dev[r] + 1, left |-> 0]
        PROVE  spec' \in [uid : Reqs \cup {0}, expect : Nat, left : Nat]
    <3>1. dev[r] \in Nat
      BY <1>2, <1>5, <2>1 DEF Alone
    <3>2. QED
      BY <2>1, <3>1
  <2>2. QED
    BY <1>3, <1>8, <1>9, <2>1 DEF KvTypes, Writes
<1>11. TreeRight'
  <2> HIDE DEF W
  <2>1. QED
    BY <1>3, <1>4, <1>8, WritesTree DEF Leaves
<1>12. ASSUME NEW q \in Live \ Running
       PROVE  Verified(q)' <= RowEnd(q)' /\ Holds(q, Verified(q))'
  <2>1. cached'[q] = cached[q] /\ dev'[q] = dev[q]
    BY <1>2, <1>4
  <2>2. PICK n \in Nat : n = Verified(q)' /\ n <= Verified(q)
    <3>1. CASE spec' = spec
      <4>1. Verified(q)' = Verified(q)
        BY <2>1, <3>1 DEF Verified, Keyed
      <4>2. QED
        BY <1>5, <4>1
    <3>2. ASSUME NEW r \in Reqs, Alone(r), spec' = [uid |-> r, expect |-> dev[r] + 1, left |-> 0]
          PROVE  \E n \in Nat : n = Verified(q)' /\ n <= Verified(q)
      <4>1. ~ Keyed(q)'
        BY <3>2 DEF Keyed, Alone
      <4>2. Verified(q)' = cached[q]
        BY <1>5, <2>1, <4>1 DEF Verified
      <4>3. QED
        BY <1>5, <4>2
    <3>3. QED
      BY <1>9, <3>1, <3>2
  <2>3. \A j \in 0 .. (n - 1) : <<q, j>> \notin W
    OBVIOUS
  <2> HIDE DEF W
  <2>4. Holds(q, n)' /\ n <= RowEnd(q)'
    BY <1>4, <1>8, <2>2, <2>3, VerifiedKept
  <2>5. QED
    BY <2>2, <2>4 DEF Holds
<1>13. ASSUME NEW q \in Running
       PROVE  Verified(q)' <= RowEnd(q)' /\ Holds(q, Verified(q))'
  <2>1. /\ cached'[q] = dev[q] /\ dev'[q] = dev[q] + 1 /\ dev[q] = cached[q] + 1 /\ q \in Live
        /\ dev[q] \in Nat /\ cached[q] \in Nat /\ dev[q] <= RowEnd(q)'
    BY <1>2, <1>4, <1>5
  <2>2. Verified(q)' = dev[q]
    <3>1. CASE spec' = spec
      <4>1. q # 0
        BY <1>2 DEF Reqs, Running
      <4>2. spec.uid = q => spec.expect <= dev[q]
        BY <1>3, <4>1 DEF KeyBehind
      <4>3. spec.expect \in Nat
        BY <1>3 DEF KvTypes
      <4>4. ~ Keyed(q)'
        BY <2>1, <3>1, <4>2, <4>3 DEF Keyed
      <4>5. QED
        BY <2>1, <4>4 DEF Verified
    <3>2. ASSUME NEW r \in Reqs, Alone(r), spec' = [uid |-> r, expect |-> dev[r] + 1, left |-> 0]
          PROVE  Verified(q)' = dev[q]
      BY <2>1, <3>2 DEF Verified
    <3>3. QED
      BY <1>9, <3>1, <3>2
  <2>3. PICK n \in Nat : n = cached[q]
    BY <2>1
  <2>4. \A j \in 0 .. (n - 1) : <<q, j>> \notin W
    BY <2>1, <2>3
  <2>5. Holds(q, n)'
    <3> HIDE DEF W
    <3>1. n <= Verified(q)
      BY <1>5, <2>1, <2>3
    <3>2. QED
      BY <1>4, <1>8, <2>1, <2>4, <3>1, VerifiedKept
  <2>6. ASSUME NEW j \in 0 .. (dev[q] - 1)
        PROVE  row'[q][j] \in Pages /\ kv'[row'[q][j]] = Tok(q, j + 1)
    <3>1. CASE j < n
      BY <2>1, <2>3, <2>5, <3>1 DEF Holds
    <3>2. CASE ~(j < n)
      <4>1. j = dev[q] - 1 /\ j + 1 = dev[q]
        BY <2>1, <2>3, <3>2
      <4>2. QED
        BY <1>7, <4>1
    <3>3. QED
      BY <3>1, <3>2
  <2>7. QED
    BY <2>1, <2>2, <2>6 DEF Holds
<1>14. VerifiedRight'
  BY <1>4, <1>12, <1>13 DEF VerifiedRight
<1>15. KeyBehind'
  <2>1. ASSUME NEW q \in Reqs, st[q] # "new"
        PROVE  st'[q] # "new" /\ dev[q] <= dev'[q] /\ dev[q] \in Nat /\ dev'[q] \in Nat
    <3>1. st'[q] # "new" /\ dev[q] \in Nat /\ dev'[q] \in Nat
      BY <1>1, <1>3, <1>4, <2>1 DEF DecodeAlloc, CompleteOne, TableInv, TableTypes
    <3>2. QED
      BY <1>4, <3>1
  <2>2. CASE spec' = spec
    <3>1. spec.uid \in Reqs \cup {0} /\ spec.expect \in Nat
      BY <1>3 DEF KvTypes
    <3>2. QED
      BY <1>3, <2>1, <2>2, <3>1 DEF KeyBehind
  <2>3. ASSUME NEW r \in Reqs, Alone(r), spec' = [uid |-> r, expect |-> dev[r] + 1, left |-> 0]
        PROVE  KeyBehind'
    <3>1. r \in Running /\ st[r] # "new"
      BY <2>3 DEF Alone, Running
    <3>2. dev'[r] = dev[r] + 1 /\ st'[r] # "new" /\ dev[r] \in Nat
      BY <1>4, <2>1, <3>1
    <3>3. QED
      BY <2>3, <3>2 DEF KeyBehind
  <2>4. QED
    BY <1>9, <2>2, <2>3
<1>16. QED
  BY <1>4, <1>10, <1>11, <1>14, <1>15 DEF PoolInv

-----------------------------------------------------------------------------
(* The page table under a prefill.                                          *)

(* The partition only sees the rows at the places it counts.                *)
LEMMA SamePartition ==
  ASSUME NEW C, NEW f, NEW t, NEW rw, NEW cl, Partition(C, f, t, rw, cl),
         NEW rw2, \A x \in cl : At(rw2, x) = At(rw, x)
  PROVE  Partition(C, f, t, rw2, cl)
<1>1. {At(rw2, x) : x \in cl} = {At(rw, x) : x \in cl}
  OBVIOUS
<1>2. QED
  BY <1>1 DEF Partition

(* What a prefill matches and where it allocates.                           *)
LEMMA PrefillEnds ==
  ASSUME NEW C, TableInv(C), Steady, NEW r \in Reqs, st[r] = "new", turn = "schedule"
  PROVE  /\ MatchLen(r, InLen[r] - 1) \in 0 .. (InLen[r] - 1)
         /\ \A i \in 1 .. MatchLen(r, InLen[r] - 1) : Tok(r, i) \in DOMAIN tree
         /\ PrefillHandle(r)[r] = MatchLen(r, InLen[r] - 1)
         /\ FirstPage(r, PrefillHandle(r)[r]) = PrefillHandle(r)[r]
         /\ LastPage(r, InLen[r]) \in InLen[r] .. Width
         /\ (Horizon = 0 => LastPage(r, InLen[r]) = InLen[r])
<1>1. Horizon \in Nat
  BY RequestAssumption, Zenon
<1>2. InLen[r] - 1 \in Nat
  BY LengthsAre
<1>3. /\ InLen[r] \in Nat \ {0} /\ OutLen[r] \in Nat \ {0} /\ MaxDeviceLen(r) = InLen[r] + OutLen[r]
      /\ MaxDeviceLen(r) <= Width /\ Width \in Nat
  BY LengthsAre
<1>4. alloc[r] = 0 /\ handle \in [Reqs -> Nat]
  BY DEF TableInv, TableTypes, Lengths
<1>5. HorizonNow = Horizon
  BY HorizonSteady
<1>6. PICK n \in Nat : n = InLen[r] - 1
  BY <1>2
<1>7. /\ MatchLen(r, n) \in 0 .. n
      /\ \A i \in 1 .. MatchLen(r, n) : Tok(r, i) \in DOMAIN tree
  BY MatchLenIs
<1>8. PrefillHandle(r)[r] = MatchLen(r, n)
  BY <1>4, <1>6 DEF PrefillHandle
<1>9. FirstPage(r, MatchLen(r, n)) = MatchLen(r, n)
  BY <1>4, <1>7 DEF FirstPage, Max2
<1>10. LastPage(r, InLen[r]) \in InLen[r] .. Width /\ (Horizon = 0 => LastPage(r, InLen[r]) = InLen[r])
  BY <1>1, <1>3, <1>5 DEF LastPage, Max2, Min2
<1>11. QED
  BY <1>6, <1>7, <1>8, <1>9, <1>10

(* A prefill gives the new row the pages of its match and pages of its own. *)
LEMMA PrefillTable ==
  ASSUME NEW C, TableInv(C), Steady, NEW f, Joins(C, f), NEW E, NEW growable,
         NEW r \in Reqs, Prefill(r, f, growable, E)
  PROVE  /\ TableInv(C \cup f)'
         /\ r \notin Live /\ Live' = Live \cup {r} /\ Leaves
         /\ handle'[r] \in 0 .. (InLen[r] - 1) /\ InLen[r] <= RowEnd(r)'
         /\ cached'[r] = InLen[r] /\ st'[r] # "new"
         /\ \A q \in Reqs \ {r} : cached'[q] = cached[q] /\ dev'[q] = dev[q] /\ st'[q] = st[q]
<1> DEFINE c == PrefillHandle(r)
           d == [dev EXCEPT ![r] = InLen[r]]
           rows == MatchedRow(r)
           M == MatchLen(r, InLen[r] - 1)
           end == LastPage(r, InLen[r])
           S == PrefillNeed(r)
           pool == f \cup {tree[k] : k \in E}
           page == Granted(S, pool)
           locked == Locked(Live \cup {r}, c)
<1>1. /\ turn = "schedule" /\ st[r] = "new"
      /\ E \in Evictions(Cardinality(PrefillNeed(r)) - Cardinality(f), Locked(Live \cup {r}, c))
      /\ AllocatePaged({r}, c, d, f, MatchedRow(r), E)
      /\ handle' = c
      /\ CompleteOne({r}, d)
      /\ ongoing' = [kind |-> "prefill", reqs |-> {r}] /\ last' = last
  BY DEF Prefill, Launch
<1>2. TableTypes /\ Lengths /\ TreeClosed /\ Shared /\ Partition(C, free, tree, row, Claims)
  BY DEF TableInv
<1>3. /\ InLen[r] \in Nat \ {0} /\ OutLen[r] \in Nat \ {0} /\ MaxDeviceLen(r) = InLen[r] + OutLen[r]
      /\ MaxDeviceLen(r) <= Width /\ Width \in Nat
  BY LengthsAre
<1>4. /\ M \in 0 .. (InLen[r] - 1)
      /\ \A i \in 1 .. M : Tok(r, i) \in DOMAIN tree
      /\ c[r] = M
      /\ FirstPage(r, c[r]) = c[r]
      /\ end \in InLen[r] .. Width
      /\ (Horizon = 0 => end = InLen[r])
  BY <1>1, PrefillEnds
<1>5. HorizonNow = Horizon /\ Horizon \in Nat
  BY <1>1, HorizonSteady, RequestAssumption
<1>6. /\ handle \in [Reqs -> Nat] /\ dev \in [Reqs -> Nat] /\ cached \in [Reqs -> Nat]
      /\ alloc \in [Reqs -> Nat] /\ st \in [Reqs -> Statuses] /\ alloc[r] = 0
  BY <1>1, <1>2 DEF TableTypes, Lengths
<1>7. c = [handle EXCEPT ![r] = M] /\ d \in [Reqs -> Nat] /\ d[r] = InLen[r]
  BY <1>3, <1>6 DEF PrefillHandle
<1>8. /\ free' = pool \ Range(page)
      /\ tree' = [k \in DOMAIN tree \ E |-> tree[k]]
      /\ row' = [q \in Reqs |-> [j \in Positions |->
                   IF <<q, j>> \in S THEN page[<<q, j>>] ELSE rows[q][j]]]
      /\ alloc' = [q \in Reqs |->
                     IF q \in {r} /\ HorizonNow > 0 THEN Max2(alloc[q], LastPage(q, d[q]))
                     ELSE alloc[q]]
  BY <1>1 DEF AllocatePaged, PrefillNeed
<1>9. /\ cached' = [q \in Reqs |-> IF q \in {r} THEN d[q] ELSE cached[q]]
      /\ dev' = [q \in Reqs |-> IF q \in {r} THEN d[q] + 1 ELSE dev[q]]
      /\ st' = [q \in Reqs |-> IF q \notin {r} THEN st[q]
                           ELSE IF d[q] + 1 < MaxDeviceLen(q) THEN "running" ELSE "last"]
  BY <1>1 DEF CompleteOne
<1>10. S = {x \in {r} \X Positions : M <= x[2] /\ x[2] < end}
  <2>1. S = {x \in {r} \X Positions : FirstPage(x[1], c[x[1]]) <= x[2] /\ x[2] < LastPage(x[1], d[x[1]])}
    BY DEF PrefillNeed, Needed
  <2>2. \A x \in {r} \X Positions : FirstPage(x[1], c[x[1]]) = M /\ LastPage(x[1], d[x[1]]) = end
    BY <1>4, <1>7
  <2> HIDE DEF S, c, d, end, M
  <2>3. QED
    BY <2>1, <2>2
<1> HIDE DEF S, page, c, d, M, end, rows, locked
<1>11. /\ cached'[r] = InLen[r] /\ dev'[r] = InLen[r] + 1 /\ handle'[r] = M
       /\ st'[r] \in {"running", "last"} /\ (st'[r] = "running" => InLen[r] + 1 < MaxDeviceLen(r))
       /\ alloc'[r] = IF Horizon > 0 THEN end ELSE 0
  <2>1. alloc'[r] = IF Horizon > 0 THEN Max2(0, end) ELSE 0
    BY <1>5, <1>6, <1>7, <1>8 DEF end
  <2>2. Max2(0, end) = end
    BY <1>3, <1>4 DEF Max2
  <2>3. QED
    BY <1>1, <1>6, <1>7, <1>9, <2>1, <2>2
<1>12. RowEnd(r)' = end
  BY <1>3, <1>4, <1>5, <1>11 DEF RowEnd, Max2
<1>13. ASSUME NEW q \in Reqs \ {r}
       PROVE  /\ cached'[q] = cached[q] /\ dev'[q] = dev[q] /\ st'[q] = st[q]
              /\ alloc'[q] = alloc[q] /\ handle'[q] = handle[q] /\ RowEnd(q)' = RowEnd(q)
              /\ \A j \in Positions : row'[q][j] = row[q][j]
  <2>1. cached'[q] = cached[q] /\ dev'[q] = dev[q] /\ st'[q] = st[q]
    BY <1>9
  <2>2. alloc'[q] = alloc[q]
    BY <1>8
  <2>3. handle'[q] = handle[q]
    BY <1>1, <1>6, <1>7
  <2>4. ASSUME NEW j \in Positions
        PROVE  row'[q][j] = row[q][j]
    <3>1. <<q, j>> \notin S
      BY <1>10
    <3>2. rows[q] = row[q]
      BY <1>2 DEF rows, MatchedRow, TableTypes
    <3>3. QED
      BY <1>8, <3>1, <3>2
  <2>5. QED
    BY <2>1, <2>2, <2>3, <2>4 DEF RowEnd
<1>14. r \notin Live /\ Live \subseteq Reqs
  BY <1>1 DEF Live
<1>15. Live' = Live \cup {r}
  BY <1>11, <1>13, <1>14 DEF Live
<1>16. S \in SUBSET (Reqs \X Positions) /\ S \cap Claims = {} /\ Claims \in SUBSET (Reqs \X Positions)
  BY <1>10, <1>14 DEF Claims
<1>17. Partition(C \cup f, f, tree, row, Claims)
  BY <1>2, GrowPartition DEF Joins
<1>18. Partition(C \cup f, f, tree, rows, Claims)
  <2>1. ASSUME NEW x \in Claims
        PROVE  At(rows, x) = At(row, x)
    <3>1. x[1] \in Reqs /\ x[1] # r
      BY <1>14 DEF Claims
    <3>2. rows[x[1]] = row[x[1]]
      BY <1>2, <3>1 DEF rows, MatchedRow, TableTypes
    <3>3. QED
      BY <3>2 DEF At
  <2>2. QED
    BY <1>17, <2>1, SamePartition
<1>19. /\ E \in SUBSET DOMAIN tree
       /\ \A k \in E : k \notin locked
       /\ \A j \in E : \A k \in DOMAIN tree : Extends(k, j) => k \in E
       /\ pool \subseteq Pages /\ Cardinality(S) <= Cardinality(pool)
  <2>1. E \in Evictions(Cardinality(S) - Cardinality(f), locked)
    BY <1>1 DEF S, locked
  <2>2. QED
    BY <1>16, <1>17, <2>1, EvictionsAre
<1>20. page \in [S -> pool] /\ \A x, y \in S : page[x] = page[y] => x = y
  <2> HIDE DEF pool
  <2>1. S \in SUBSET (Nat \X Nat) /\ pool \in SUBSET Int
    <3>1. Reqs \subseteq Nat /\ Positions \subseteq Nat /\ Pages \subseteq Int
      BY RequestAssumption DEF Reqs, Positions, Pages
    <3>2. QED
      BY <1>16, <1>19, <3>1
  <2>2. IsFiniteSet(S) /\ IsFiniteSet(pool)
    BY <1>16, <1>19, PagesFinite, FS_Subset
  <2>3. QED
    BY <1>19, <2>1, <2>2, GrantedIs DEF page
<1>21. Partition(C \cup f, free', tree', row', Claims \cup S)
  <2>1. Allocates(f, tree, rows, E, S, page, free', tree', row')
    BY <1>8, <1>20, Zenon DEF Allocates
  <2>2. QED
    BY <1>16, <1>18, <1>19, <2>1, AllocPartition
<1> HIDE DEF pool
<1>22. Leaves
  <2>1. ASSUME NEW q \in Live
        PROVE  /\ q \in Reqs \ {r} /\ RowEnd(q) \in Nat
               /\ \A j \in 0 .. (RowEnd(q) - 1) : j \in Positions
    BY <1>2, <1>14, RowEnds
  <2>2. QED
    BY <1>8, <1>13, <2>1 DEF Leaves
<1>23. Claims' = Claims \cup S
  <2>1. ASSUME NEW x \in Reqs \X Positions
        PROVE  x \in Claims' <=> x \in Claims \/ x \in S
    <3>1. CASE x[1] = r
      <4>1. x \in Claims' <=> M <= x[2] /\ x[2] < end
        BY <1>11, <1>12, <1>15, <3>1 DEF Claims
      <4>2. x \in S <=> M <= x[2] /\ x[2] < end
        BY <1>10, <3>1
      <4>3. x \notin Claims
        BY <1>14, <3>1 DEF Claims
      <4>4. QED
        BY <4>1, <4>2, <4>3
    <3>2. CASE x[1] # r
      BY <1>10, <1>13, <1>15, <3>2 DEF Claims
    <3>3. QED
      BY <3>1, <3>2
  <2>2. Claims' \in SUBSET (Reqs \X Positions)
    BY DEF Claims
  <2>3. QED
    BY <1>16, <2>1, <2>2
<1>24. Partition(C \cup f, free', tree', row', Claims')
  BY <1>21, <1>23
<1>25. ASSUME NEW q \in Reqs, NEW j \in Positions
       PROVE  /\ row'[q][j] \in Pages \cup {NoPage}
              /\ (q = r /\ j < M => row'[q][j] = tree[Tok(r, j + 1)])
  <2>1. rows = [row EXCEPT ![r] = [i \in Positions |->
                  IF i < M THEN tree[Tok(r, i + 1)] ELSE row[r][i]]]
    BY DEF rows, MatchedRow, M
  <2>2. row \in [Reqs -> [Positions -> Pages \cup {NoPage}]]
    BY <1>2 DEF TableTypes
  <2>3. q = r /\ j < M => rows[q][j] = tree[Tok(r, j + 1)]
    BY <2>1, <2>2
  <2>4. rows[q][j] \in Pages \cup {NoPage}
    <3>1. CASE q = r /\ j < M
      <4>1. j + 1 \in 1 .. M
        BY <1>3, <1>4, <3>1 DEF Positions
      <4>2. QED
        BY <1>2, <1>4, <2>3, <3>1, <4>1 DEF Partition
    <3>2. CASE ~(q = r /\ j < M)
      BY <2>1, <2>2, <3>2
    <3>3. QED
      BY <3>1, <3>2
  <2>5. q = r /\ j < M => <<q, j>> \notin S
    BY <1>3, <1>4, <1>10 DEF Positions
  <2>6. <<q, j>> \in S => page[<<q, j>>] \in Pages
    BY <1>19, <1>20
  <2>7. row'[q][j] = IF <<q, j>> \in S THEN page[<<q, j>>] ELSE rows[q][j]
    BY <1>8
  <2>8. QED
    BY <2>3, <2>4, <2>5, <2>6, <2>7
<1>26. TableTypes'
  <2>1. /\ row' \in [Reqs -> [Positions -> Pages \cup {NoPage}]]
    BY <1>8, <1>25
  <2>2. st' \in [Reqs -> Statuses]
    BY <1>6, <1>9 DEF Statuses
  <2>3. cached' \in [Reqs -> Nat] /\ dev' \in [Reqs -> Nat]
    BY <1>6, <1>7, <1>9
  <2>4. alloc' \in [Reqs -> Nat]
    <3>1. \A q \in Reqs : alloc'[q] \in Nat
      BY <1>3, <1>4, <1>6, <1>11, <1>13
    <3>2. QED
      BY <1>8, <3>1
  <2>5. handle' \in [Reqs -> Nat]
    BY <1>1, <1>3, <1>4, <1>6, <1>7
  <2>6. /\ last = [kind |-> last.kind, reqs |-> last.reqs]
        /\ last.reqs \subseteq Live
    BY <1>2 DEF TableTypes
  <2>7. last'.reqs \subseteq Live' /\ ongoing'.reqs \subseteq Live'
    BY <1>1, <1>15, <2>6
  <2>8. QED
    BY <1>1, <2>1, <2>2, <2>3, <2>4, <2>5, <2>6, <2>7 DEF TableTypes
<1>27. Lengths'
  <2>1. /\ handle'[r] <= cached'[r] /\ dev'[r] <= MaxDeviceLen(r) /\ alloc'[r] <= Width
        /\ st'[r] # "new" /\ dev'[r] = cached'[r] + 1
        /\ st'[r] = "running" => dev'[r] < MaxDeviceLen(r)
        /\ Horizon = 0 => alloc'[r] = 0
        /\ Horizon > 0 => cached'[r] <= alloc'[r]
    BY <1>3, <1>4, <1>5, <1>11
  <2>2. QED
    BY <1>2, <1>13, <1>15, <2>1 DEF Lengths
<1>28. TreeClosed'
  BY <1>2, <1>8, <1>19, EvictClosed
<1>29. ASSUME NEW q \in Live \cup {r}, NEW i \in 1 .. handle'[q], Tok(q, i) \in DOMAIN tree
       PROVE  Tok(q, i) \in DOMAIN tree' /\ tree'[Tok(q, i)] = tree[Tok(q, i)]
  <2>1. i \in 1 .. c[q]
    BY <1>1
  <2>2. Tok(q, i) \in locked
    BY <1>29, <2>1 DEF locked, Locked
  <2>3. QED
    BY <1>8, <1>19, <1>29, <2>2
<1>30. Shared'
  <2>1. ASSUME NEW i \in 1 .. M
        PROVE  Tok(r, i) \in DOMAIN tree' /\ row'[r][i - 1] = tree'[Tok(r, i)]
    <3>1. PICK j \in Nat : j = i - 1 /\ j + 1 = i
      BY <1>3, <1>4
    <3>2. j \in Positions /\ j < M
      BY <1>3, <1>4, <3>1 DEF Positions
    <3>3. row'[r][j] = tree[Tok(r, j + 1)]
      BY <1>25, <3>2
    <3>4. QED
      BY <1>4, <1>11, <1>29, <3>1, <3>3
  <2>2. ASSUME NEW q \in Live, NEW i \in 1 .. handle[q]
        PROVE  Tok(q, i) \in DOMAIN tree' /\ row'[q][i - 1] = tree'[Tok(q, i)]
    <3>1. Tok(q, i) \in DOMAIN tree /\ row[q][i - 1] = tree[Tok(q, i)]
      BY <1>2 DEF Shared
    <3>2. i - 1 \in Positions
      BY <1>2, RowEnds
    <3>3. q \in Reqs \ {r}
      BY <1>14
    <3>4. QED
      BY <1>13, <1>29, <3>1, <3>2, <3>3
  <2>3. ASSUME NEW q \in Live
        PROVE  handle'[q] = handle[q]
    BY <1>13, <1>14
  <2>4. QED
    BY <1>11, <1>15, <2>1, <2>2, <2>3 DEF Shared
<1>31. TableInv(C \cup f)'
  BY <1>24, <1>26, <1>27, <1>28, <1>30 DEF TableInv
<1>32. InLen[r] <= RowEnd(r)'
  BY <1>3, <1>4, <1>12
<1>33. QED
  BY <1>4, <1>11, <1>13, <1>14, <1>15, <1>22, <1>31, <1>32

(* A prefill writes its own prompt: what it matched is there already.       *)
LEMMA PrefillKeeps ==
  ASSUME NEW C, PoolInv(C), Steady, NEW f, Joins(C, f), NEW E, NEW growable,
         NEW r \in Reqs, Prefill(r, f, growable, E)
  PROVE  PoolInv(C \cup f)'
<1>1. TableInv(C) /\ KvTypes /\ TreeRight /\ VerifiedRight /\ KeyBehind
  BY DEF PoolInv
<1>2. /\ TableInv(C \cup f)'
      /\ r \notin Live /\ Live' = Live \cup {r} /\ Leaves
      /\ handle'[r] \in 0 .. (InLen[r] - 1) /\ InLen[r] <= RowEnd(r)'
      /\ cached'[r] = InLen[r] /\ st'[r] # "new"
      /\ \A q \in Reqs \ {r} : cached'[q] = cached[q] /\ dev'[q] = dev[q] /\ st'[q] = st[q]
  BY <1>1, PrefillTable
<1>3. /\ st[r] = "new" /\ spec' = spec
      /\ handle' = PrefillHandle(r)
      /\ kv' = Written(r, PrefillHandle(r)[r] .. (InLen[r] - 1), [j \in Positions |-> TRUE])
  BY DEF Prefill
<1>4. PICK n \in Nat : n = InLen[r]
  BY LengthsAre
<1>5. /\ RowEnd(r)' \in Nat /\ RowEnd(r)' <= Width /\ Positions = 0 .. (Width - 1) /\ Width \in Nat
  BY <1>2, RowEndsNext DEF TableInv
<1> DEFINE P == handle'[r] .. (n - 1)
           ok == [j \in Positions |-> TRUE]
<1>6. P \in SUBSET Positions
  BY <1>2, <1>4, <1>5
<1>7. {r} \X P \subseteq Claims'
  <2>1. ASSUME NEW j \in P
        PROVE  <<r, j>> \in Claims'
    <3>1. j \in Positions /\ handle'[r] <= j /\ j < RowEnd(r)'
      BY <1>2, <1>4, <1>5, <1>6
    <3>2. <<r, j>> \in Reqs \X Positions /\ <<r, j>>[1] = r /\ <<r, j>>[2] = j
      BY <3>1
    <3>3. QED
      BY <1>2, <3>1, <3>2 DEF Claims
  <2>2. QED
    BY <2>1
<1>8. /\ Writes({r} \X P)
      /\ \A j \in P : /\ row'[r][j] \in Pages
                      /\ kv'[row'[r][j]] = IF ok[j] THEN Tok(r, j + 1) ELSE Torn
  <2>1. kv' = Written(r, P, ok)
    BY <1>3, <1>4
  <2> HIDE DEF P, ok
  <2>2. QED
    BY <1>2, <1>6, <1>7, <2>1, WrittenIs
<1>9. KvTypes'
  BY <1>1, <1>3, <1>8 DEF KvTypes, Writes
<1>10. TreeRight'
  BY <1>1, <1>2, <1>8, WritesTree DEF Leaves
<1>11. spec.uid # r
  <2>1. r # 0
    BY DEF Reqs
  <2>2. QED
    BY <1>1, <1>3, <2>1 DEF KeyBehind
<1>12. ASSUME NEW q \in Live
       PROVE  Verified(q)' <= RowEnd(q)' /\ Holds(q, Verified(q))'
  <2>1. Verified(q) \in Nat
    BY <1>1, VerifiedIs DEF TableInv
  <2>2. q \in Reqs \ {r}
    BY <1>2 DEF Live
  <2>3. Verified(q)' = Verified(q)
    BY <1>2, <1>3, <2>2 DEF Verified, Keyed
  <2>4. PICK m \in Nat : m = Verified(q)
    BY <2>1
  <2>5. \A j \in 0 .. (m - 1) : <<q, j>> \notin {r} \X P
    BY <2>2
  <2> HIDE DEF P
  <2>6. Holds(q, m)' /\ m <= RowEnd(q)'
    BY <1>2, <1>8, <2>4, <2>5, VerifiedKept
  <2>7. QED
    BY <2>3, <2>4, <2>6 DEF Holds
<1>13. Verified(r)' <= RowEnd(r)' /\ Holds(r, Verified(r))'
  <2>1. ~ Keyed(r)'
    BY <1>3, <1>11 DEF Keyed
  <2>2. Verified(r)' = n
    BY <1>2, <1>4, <2>1 DEF Verified
  <2>3. ASSUME NEW j \in 0 .. (n - 1)
        PROVE  row'[r][j] \in Pages /\ kv'[row'[r][j]] = Tok(r, j + 1)
    <3>1. CASE j < handle'[r]
      <4>1. j + 1 \in 1 .. handle'[r] /\ (j + 1) - 1 = j
        BY <1>2, <1>4, <3>1
      <4>2. Tok(r, j + 1) \in DOMAIN tree' /\ row'[r][(j + 1) - 1] = tree'[Tok(r, j + 1)]
        BY <1>2, <4>1 DEF TableInv, Shared
      <4>3. QED
        BY <1>10, <4>1, <4>2 DEF TreeRight
    <3>2. CASE ~(j < handle'[r])
      <4>1. j \in P /\ j \in Positions
        BY <1>2, <1>4, <1>6, <3>2
      <4>2. ok[j]
        BY <4>1
      <4> HIDE DEF P, ok
      <4>3. QED
        BY <1>8, <4>1, <4>2
    <3>3. QED
      BY <3>1, <3>2
  <2>4. QED
    BY <1>2, <1>4, <2>2, <2>3 DEF Holds
<1>14. VerifiedRight'
  BY <1>2, <1>12, <1>13 DEF VerifiedRight
<1>15. KeyBehind'
  <2>1. spec.uid \in Reqs \cup {0}
    BY <1>1 DEF KvTypes
  <2>2. QED
    BY <1>1, <1>2, <1>3, <1>11, <2>1 DEF KeyBehind
<1>16. QED
  BY <1>2, <1>9, <1>10, <1>14, <1>15 DEF PoolInv

-----------------------------------------------------------------------------
(* The page table under a commit.                                           *)

(* What a request inserts: the prefixes beyond its match, with their pages. *)
LEMMA InsertedIs ==
  ASSUME NEW C, TableInv(C), NEW r \in Live, NEW n, n = MatchLen(r, cached[r])
  PROVE  /\ n \in handle[r] .. cached[r] /\ n \in Nat
         /\ \A i \in 1 .. n : Tok(r, i) \in DOMAIN tree
         /\ \A i \in (n + 1) .. cached[r] : /\ Len(Tok(r, i)) = i
                                            /\ Tok(r, i) \notin DOMAIN tree
                                            /\ Inserted(r)[Tok(r, i)] = row[r][i - 1]
         /\ \A k \in DOMAIN tree : Inserted(r)[k] = tree[k]
         /\ Inserted(r) = [k \in DOMAIN tree \cup {Tok(r, i) : i \in (n + 1) .. cached[r]}
                             |-> Inserted(r)[k]]
<1>1. /\ r \in Reqs /\ handle[r] \in Nat /\ cached[r] \in Nat /\ handle[r] <= cached[r]
      /\ cached[r] + 1 <= MaxDeviceLen(r) /\ MaxDeviceLen(r) \in Nat
  BY RowEnds, LengthsAre DEF TableInv
<1>2. /\ n \in 0 .. cached[r] /\ \A i \in 1 .. n : Tok(r, i) \in DOMAIN tree
      /\ n < cached[r] => Tok(r, n + 1) \notin DOMAIN tree
  BY <1>1, MatchLenIs
<1>3. handle[r] <= n
  <2> SUFFICES ASSUME n < handle[r]
               PROVE  FALSE
    BY <1>1, <1>2
  <2>1. n + 1 \in 1 .. handle[r] /\ n < cached[r]
    BY <1>1, <1>2
  <2>2. Tok(r, n + 1) \in DOMAIN tree
    BY <2>1 DEF TableInv, Shared
  <2>3. QED
    BY <1>2, <2>1, <2>2
<1> DEFINE new == {Tok(r, i) : i \in (n + 1) .. cached[r]}
<1>4. Inserted(r) = [k \in DOMAIN tree \cup new |->
                       IF k \in DOMAIN tree THEN tree[k] ELSE row[r][Len(k) - 1]]
  BY DEF Inserted
<1>5. ASSUME NEW i \in (n + 1) .. cached[r]
      PROVE  Tok(r, i) \notin DOMAIN tree
  <2>1. n + 1 \in 1 .. i /\ i \in 1 .. MaxDeviceLen(r) /\ n < cached[r]
    BY <1>1, <1>2
  <2>2. Tok(r, i) \in DOMAIN tree => Tok(r, n + 1) \in DOMAIN tree
    BY <1>1, <2>1 DEF TableInv, TreeClosed
  <2>3. QED
    BY <1>2, <2>1, <2>2
<1>6. ASSUME NEW i \in (n + 1) .. cached[r]
      PROVE  Len(Tok(r, i)) = i
  <2>1. i \in 0 .. MaxDeviceLen(r)
    BY <1>1, <1>2
  <2>2. QED
    BY <1>1, <2>1, TokIs
<1> HIDE DEF Tok
<1>7. \A i \in (n + 1) .. cached[r] : Tok(r, i) \in new
  OBVIOUS
<1> HIDE DEF new
<1>8. \A i \in (n + 1) .. cached[r] : Inserted(r)[Tok(r, i)] = row[r][i - 1]
  BY <1>4, <1>5, <1>6, <1>7
<1>9. /\ \A k \in DOMAIN tree : Inserted(r)[k] = tree[k]
      /\ Inserted(r) = [k \in DOMAIN tree \cup new |-> Inserted(r)[k]]
  BY <1>4
<1>10. Inserted(r) = [k \in DOMAIN tree \cup {Tok(r, i) : i \in (n + 1) .. cached[r]}
                        |-> Inserted(r)[k]]
  BY <1>9, Zenon DEF new
<1>11. n \in handle[r] .. cached[r] /\ n \in Nat
  BY <1>1, <1>2, <1>3
<1>12. QED
  BY <1>2, <1>5, <1>6, <1>8, <1>9, <1>10, <1>11, Zenon

(* The places whose pages the prefix cache takes over.                      *)
NewPlaces(r) == {x \in Claims : x[1] = r /\ MatchLen(r, cached[r]) <= x[2] /\ x[2] < cached[r]}

(* The request r commits, and gives back the pages of the places D.         *)
Gives(r, D) ==
  /\ tree' = Inserted(r)
  /\ D \subseteq Claims /\ NewPlaces(r) \cap D = {}
  /\ free' = free \cup {At(row, x) : x \in D}
  /\ Claims' = Claims \ (NewPlaces(r) \cup D)
  /\ \A x \in Claims' : At(row', x) = At(row, x)

LEMMA CommitTree ==
  ASSUME NEW C, PoolInv(C), NEW r \in Live, NEW D, Gives(r, D), kv' = kv
  PROVE  /\ Partition(C, free', tree', row', Claims')
         /\ TreeClosed' /\ TreeRight'
         /\ \A k \in DOMAIN tree : k \in DOMAIN tree' /\ tree'[k] = tree[k]
         /\ \A i \in 1 .. cached[r] : Tok(r, i) \in DOMAIN tree'
<1>1. TableInv(C) /\ KvTypes /\ TreeRight /\ VerifiedRight
  BY DEF PoolInv
<1>2. PICK n : n = MatchLen(r, cached[r])
  OBVIOUS
<1>3. /\ n \in handle[r] .. cached[r] /\ n \in Nat
      /\ \A i \in 1 .. n : Tok(r, i) \in DOMAIN tree
      /\ \A i \in (n + 1) .. cached[r] : /\ Len(Tok(r, i)) = i
                                         /\ Tok(r, i) \notin DOMAIN tree
                                         /\ Inserted(r)[Tok(r, i)] = row[r][i - 1]
      /\ \A k \in DOMAIN tree : Inserted(r)[k] = tree[k]
      /\ Inserted(r) = [k \in DOMAIN tree \cup {Tok(r, i) : i \in (n + 1) .. cached[r]}
                          |-> Inserted(r)[k]]
  BY <1>1, <1>2, InsertedIs
<1>4. /\ r \in Reqs /\ handle[r] \in Nat /\ cached[r] \in Nat /\ handle[r] <= cached[r]
      /\ cached[r] + 1 <= MaxDeviceLen(r) /\ MaxDeviceLen(r) \in Nat
      /\ RowEnd(r) \in Nat /\ RowEnd(r) <= Width /\ cached[r] <= RowEnd(r)
      /\ Positions = 0 .. (Width - 1) /\ Width \in Nat
  BY <1>1, RowEnds, LengthsAre DEF TableInv
<1> DEFINE N == NewPlaces(r)
           New == {Tok(r, i) : i \in (n + 1) .. cached[r]}
           place == [k \in New |-> <<r, Len(k) - 1>>]
<1>5. ASSUME NEW x \in N
      PROVE  x \in Claims /\ x = <<r, x[2]>> /\ x[2] \in n .. (cached[r] - 1)
  <2>1. x \in Claims /\ x[1] = r /\ n <= x[2] /\ x[2] < cached[r] /\ x \in Reqs \X Positions
    BY <1>2 DEF NewPlaces, Claims
  <2>2. QED
    BY <1>3, <1>4, <2>1
<1>6. ASSUME NEW i \in (n + 1) .. cached[r]
      PROVE  <<r, i - 1>> \in N /\ At(row, <<r, i - 1>>) = row[r][i - 1]
  <2>0. PICK h \in Nat, e \in Nat, t \in Nat : h = handle[r] /\ e = cached[r] /\ t = RowEnd(r)
    BY <1>4
  <2>1. i - 1 \in Positions /\ handle[r] <= i - 1 /\ i - 1 < RowEnd(r) /\ n <= i - 1 /\ i - 1 < cached[r]
    <3>1. i \in (n + 1) .. e /\ n \in h .. e /\ e <= t /\ t <= Width
      BY <1>3, <1>4, <1>6, <2>0
    <3>2. i \in Nat /\ n <= i - 1 /\ h <= i - 1 /\ i - 1 < e
      BY <1>3, <3>1
    <3>3. i - 1 < t /\ i - 1 < Width
      BY <1>4, <3>1, <3>2
    <3>4. i - 1 \in Positions
      BY <1>3, <1>4, <3>2, <3>3
    <3>5. QED
      BY <2>0, <3>2, <3>3, <3>4
  <2>2. <<r, i - 1>> \in Reqs \X Positions /\ <<r, i - 1>>[1] = r /\ <<r, i - 1>>[2] = i - 1
    BY <1>4, <2>1
  <2>3. <<r, i - 1>> \in Claims
    BY <2>1, <2>2 DEF Claims
  <2>4. QED
    BY <1>2, <2>1, <2>2, <2>3 DEF NewPlaces, At
<1>7. /\ tree' = Inserted(r)
      /\ D \subseteq Claims /\ N \cap D = {}
      /\ free' = free \cup {At(row, x) : x \in D}
      /\ Claims' = Claims \ (N \cup D)
      /\ \A x \in Claims' : At(row', x) = At(row, x)
  BY Zenon DEF Gives
<1>8. /\ free \subseteq Pages /\ tree \in [DOMAIN tree -> Pages]
      /\ \A x \in Claims : At(row, x) \in Pages
  BY <1>1, Zenon DEF TableInv, Partition
<1> HIDE DEF Tok, At, N
<1>9. /\ DOMAIN tree' = DOMAIN tree \cup New
      /\ \A k \in DOMAIN tree : tree'[k] = tree[k]
  BY <1>3, <1>7
<1>10. ASSUME NEW k \in New
       PROVE  \E i \in (n + 1) .. cached[r] : /\ k = Tok(r, i) /\ place[k] = <<r, i - 1>>
                                              /\ k \notin DOMAIN tree
                                              /\ tree'[k] = row[r][i - 1]
                                              /\ place[k] \in N /\ tree'[k] = At(row, place[k])
  <2>1. PICK i \in (n + 1) .. cached[r] : k = Tok(r, i)
    OBVIOUS
  <2>2. place[k] = <<r, i - 1>>
    BY <1>3, <2>1
  <2> HIDE DEF place
  <2>3. tree'[k] = row[r][i - 1] /\ k \notin DOMAIN tree
    BY <1>3, <1>7, <2>1
  <2>4. QED
    BY <1>6, <2>1, <2>2, <2>3
<1>11. place \in [New -> N] /\ \A k \in New : tree'[k] = At(row, place[k])
  BY <1>10
<1>12. \A a, b \in New : place[a] = place[b] => a = b
  <2>1. ASSUME NEW a \in New, NEW b \in New, place[a] = place[b]
        PROVE  a = b
    <3>1. PICK i \in (n + 1) .. cached[r] : a = Tok(r, i) /\ place[a] = <<r, i - 1>>
      BY <1>10
    <3>2. PICK j \in (n + 1) .. cached[r] : b = Tok(r, j) /\ place[b] = <<r, j - 1>>
      BY <1>10
    <3>3. i - 1 = j - 1
      BY <2>1, <3>1, <3>2
    <3>4. i = j
      BY <1>3, <1>4, <3>3
    <3>5. QED
      BY <3>1, <3>2, <3>4
  <2>2. QED
    BY <2>1
<1>13. \A x \in N : \E k \in New : place[k] = x
  <2>1. ASSUME NEW x \in N
        PROVE  \E k \in New : place[k] = x
    <3>0. PICK j \in Nat, e \in Nat : j = x[2] /\ e = cached[r] /\ j \in n .. (e - 1)
      <4>1. x[2] \in n .. (cached[r] - 1) /\ cached[r] \in Nat /\ n \in Nat
        BY <1>3, <1>4, <1>5
      <4>2. QED
        BY <4>1
    <3>1. PICK i \in Nat : i = x[2] + 1 /\ i \in (n + 1) .. cached[r] /\ i - 1 = x[2]
      <4>1. j + 1 \in Nat /\ j + 1 \in (n + 1) .. e /\ (j + 1) - 1 = j
        BY <1>3, <3>0
      <4>2. QED
        BY <3>0, <4>1
    <3>2. Tok(r, i) \in New /\ Len(Tok(r, i)) = i
      BY <1>3, <3>1
    <3>3. place[Tok(r, i)] = <<r, i - 1>>
      BY <3>2
    <3>4. QED
      BY <1>5, <3>1, <3>2, <3>3
  <2>2. QED
    BY <2>1
<1> HIDE DEF New, place
<1>14. tree' \in [DOMAIN tree \cup New -> Pages] /\ New \cap DOMAIN tree = {}
  <2>1. \A k \in New : tree'[k] \in Pages /\ k \notin DOMAIN tree
    BY <1>5, <1>8, <1>10
  <2>2. \A k \in DOMAIN tree : tree'[k] \in Pages
    BY <1>8, <1>9
  <2>3. tree' = [k \in DOMAIN tree \cup New |-> tree'[k]]
    BY <1>3, <1>7 DEF New
  <2>4. QED
    BY <2>1, <2>2, <2>3
<1>15. Claims = N \cup D \cup Claims' /\ N \cap Claims' = {} /\ D \cap Claims' = {}
  BY <1>5, <1>7
<1>16. Commits(free, tree, row, Claims, N, D, Claims', free', New, tree', place, row')
  BY <1>7, <1>9, <1>11, <1>12, <1>13, <1>14, <1>15, Zenon DEF Commits
<1>17. Partition(C, free', tree', row', Claims')
  BY <1>1, <1>16, CommitPartition DEF TableInv
<1>18. TreeRight'
  <2>1. ASSUME NEW k \in DOMAIN tree
        PROVE  tree'[k] \in Pages /\ kv'[tree'[k]] = k
    BY <1>1, <1>9 DEF TreeRight
  <2>2. ASSUME NEW k \in New
        PROVE  tree'[k] \in Pages /\ kv'[tree'[k]] = k
    <3>1. PICK i \in (n + 1) .. cached[r] : k = Tok(r, i) /\ tree'[k] = row[r][i - 1]
      BY <1>10
    <3>2. Verified(r) \in Nat /\ cached[r] <= Verified(r) /\ Holds(r, Verified(r))
      BY <1>1, VerifiedIs DEF VerifiedRight, TableInv
    <3>3. PICK j \in Nat : j = i - 1 /\ j + 1 = i /\ j \in 0 .. (Verified(r) - 1)
      BY <1>3, <1>4, <3>2
    <3>4. row[r][j] \in Pages /\ kv[row[r][j]] = Tok(r, j + 1)
      BY <3>2, <3>3 DEF Holds
    <3>5. QED
      BY <3>1, <3>3, <3>4
  <2>3. QED
    BY <1>9, <2>1, <2>2 DEF TreeRight
<1>19. ASSUME NEW i \in 1 .. cached[r]
       PROVE  Tok(r, i) \in DOMAIN tree'
  <2>1. CASE i <= n
    <3>1. i \in 1 .. n
      BY <1>3, <2>1
    <3>2. QED
      BY <1>3, <1>9, <3>1
  <2>2. CASE ~(i <= n)
    <3>1. i \in (n + 1) .. cached[r]
      BY <1>3, <1>4, <2>2
    <3>2. QED
      BY <1>9, <3>1 DEF New
  <2>3. QED
    BY <2>1, <2>2
<1>20. TreeClosed'
  <2>1. \A k \in DOMAIN tree' : \E q \in Reqs : \E i \in 1 .. MaxDeviceLen(q) : k = Tok(q, i)
    <3>1. ASSUME NEW k \in New
          PROVE  \E q \in Reqs : \E i \in 1 .. MaxDeviceLen(q) : k = Tok(q, i)
      <4>1. PICK i \in (n + 1) .. cached[r] : k = Tok(r, i)
        BY <1>10
      <4>2. i \in 1 .. MaxDeviceLen(r)
        BY <1>3, <1>4
      <4>3. QED
        BY <1>4, <4>1, <4>2
    <3>2. QED
      BY <1>1, <1>9, <3>1 DEF TableInv, TreeClosed
  <2>2. ASSUME NEW q \in Reqs, NEW i \in 1 .. MaxDeviceLen(q), Tok(q, i) \in DOMAIN tree',
               NEW j \in 1 .. i
        PROVE  Tok(q, j) \in DOMAIN tree'
    <3>1. CASE Tok(q, i) \in DOMAIN tree
      BY <1>1, <1>9, <3>1 DEF TableInv, TreeClosed
    <3>2. CASE ~(Tok(q, i) \in DOMAIN tree)
      <4>1. PICK m \in (n + 1) .. cached[r] : Tok(q, i) = Tok(r, m)
        BY <1>9, <1>10, <2>2, <3>2
      <4>2. MaxDeviceLen(q) \in Nat
        BY LengthsAre
      <4>3. i \in 0 .. MaxDeviceLen(q) /\ j \in 0 .. i
        BY <4>2
      <4>4. m \in 0 .. MaxDeviceLen(r)
        BY <1>3, <1>4
      <4>5. Len(Tok(q, i)) = i /\ SubSeq(Tok(q, i), 1, j) = Tok(q, j)
        BY <4>3, TokIs
      <4>6. Len(Tok(r, m)) = m
        BY <1>3
      <4>7. i = m /\ j \in 0 .. m
        BY <4>1, <4>3, <4>5, <4>6
      <4>8. SubSeq(Tok(r, m), 1, j) = Tok(r, j)
        BY <1>4, <4>4, <4>7, TokIs
      <4>9. Tok(q, j) = Tok(r, j)
        BY <4>1, <4>5, <4>8
      <4>10. j \in 1 .. cached[r]
        BY <1>3, <1>4, <4>7
      <4>11. QED
        BY <1>19, <4>9, <4>10
    <3>3. QED
      BY <3>1, <3>2
  <2>3. QED
    BY <2>1, <2>2 DEF TreeClosed
<1>21. QED
  BY <1>9, <1>17, <1>18, <1>19, <1>20

(* The prefill of a request that goes on keeps its row, with the cached     *)
(* pages in place of the duplicates.                                        *)
LEMMA UnfinishedKeeps ==
  ASSUME NEW C, PoolInv(C), NEW r \in Reqs, Process(r), CommitUnfinished(r)
  PROVE  PoolInv(C)'
<1>1. TableInv(C) /\ KvTypes /\ TreeRight /\ VerifiedRight /\ KeyBehind
  BY DEF PoolInv
<1>2. TableTypes /\ Lengths /\ TreeClosed /\ Shared /\ Partition(C, free, tree, row, Claims)
  BY <1>1 DEF TableInv
<1>3. /\ r \in last.reqs /\ last' = [last EXCEPT !.reqs = @ \ {r}]
      /\ kv' = kv /\ alloc' = alloc /\ cached' = cached /\ dev' = dev /\ spec' = spec
      /\ ongoing' = ongoing /\ turn' = turn
      /\ tree' = Inserted(r) /\ free' = free \cup Duplicates(r) /\ st' = st
      /\ row' = [row EXCEPT ![r] = [j \in Positions |->
                   IF j < MatchLen(r, cached[r]) THEN tree[Tok(r, j + 1)] ELSE row[r][j]]]
      /\ handle' = [handle EXCEPT ![r] = cached[r]]
  BY DEF Process, ToCommit, CommitUnfinished
<1>4. r \in Live
  BY <1>2, <1>3 DEF TableTypes
<1>5. PICK n : n = MatchLen(r, cached[r])
  OBVIOUS
<1>6. /\ n \in handle[r] .. cached[r] /\ n \in Nat
      /\ \A i \in 1 .. n : Tok(r, i) \in DOMAIN tree
      /\ \A i \in (n + 1) .. cached[r] : Inserted(r)[Tok(r, i)] = row[r][i - 1]
  BY <1>1, <1>4, <1>5, InsertedIs
<1>7. /\ handle[r] \in Nat /\ cached[r] \in Nat /\ handle[r] <= cached[r]
      /\ RowEnd(r) \in Nat /\ RowEnd(r) <= Width /\ cached[r] <= RowEnd(r)
      /\ Positions = 0 .. (Width - 1) /\ Width \in Nat
  BY <1>2, <1>4, RowEnds
<1>8. /\ Live' = Live /\ \A q \in Reqs : RowEnd(q)' = RowEnd(q)
      /\ handle'[r] = cached[r] /\ \A q \in Reqs \ {r} : handle'[q] = handle[q]
      /\ \A q \in Reqs \ {r} : row'[q] = row[q]
      /\ \A j \in Positions : row'[r][j] = IF j < n THEN tree[Tok(r, j + 1)] ELSE row[r][j]
  BY <1>2, <1>3, <1>5 DEF TableTypes, Live, RowEnd
<1> DEFINE D == {x \in Claims : x[1] = r /\ x[2] < n}
<1>9. Claims \in SUBSET (Reqs \X Positions)
  BY DEF Claims
<1>10. Duplicates(r) = {At(row, x) : x \in D}
  <2>1. Duplicates(r) = {row[r][j] : j \in handle[r] .. (n - 1)}
    BY <1>5 DEF Duplicates, RowPages
  <2>2. ASSUME NEW j \in handle[r] .. (n - 1)
        PROVE  <<r, j>> \in D /\ At(row, <<r, j>>) = row[r][j]
    <3>1. j \in Positions /\ handle[r] <= j /\ j < RowEnd(r) /\ j < n
      BY <1>6, <1>7
    <3>2. <<r, j>> \in Reqs \X Positions /\ <<r, j>>[1] = r /\ <<r, j>>[2] = j
      BY <3>1
    <3>3. QED
      BY <1>4, <3>1, <3>2 DEF Claims, At
  <2>3. ASSUME NEW x \in D
        PROVE  x[2] \in handle[r] .. (n - 1) /\ At(row, x) = row[r][x[2]]
    BY <1>6, <1>7, <1>9 DEF Claims, At
  <2> HIDE DEF D, At
  <2>4. Duplicates(r) \subseteq {At(row, x) : x \in D}
    BY <2>1, <2>2
  <2>5. {At(row, x) : x \in D} \subseteq Duplicates(r)
    BY <2>1, <2>3
  <2>6. QED
    BY <2>4, <2>5
<1>11. Claims' = {x \in Claims : ~(x[1] = r /\ x[2] < cached[r])}
  <2>1. ASSUME NEW x \in Reqs \X Positions
        PROVE  x \in Claims' <=> x \in Claims /\ ~(x[1] = r /\ x[2] < cached[r])
    BY <1>7, <1>8 DEF Claims
  <2>2. Claims' \in SUBSET (Reqs \X Positions)
    BY DEF Claims
  <2>3. QED
    BY <1>9, <2>1, <2>2
<1>12. Gives(r, D)
  <2>1. NewPlaces(r) = {x \in Claims : x[1] = r /\ n <= x[2] /\ x[2] < cached[r]}
    BY <1>5 DEF NewPlaces
  <2>2. D \subseteq Claims /\ NewPlaces(r) \cap D = {}
    BY <1>6, <1>7, <1>9, <2>1
  <2>3. Claims' = Claims \ (NewPlaces(r) \cup D)
    <3>1. ASSUME NEW x \in Claims
          PROVE  x[1] = r /\ x[2] < cached[r] <=> x \in NewPlaces(r) \/ x \in D
      BY <1>6, <1>7, <1>9, <2>1
    <3>2. QED
      BY <1>11, <2>2, <3>1
  <2>4. ASSUME NEW x \in Claims'
        PROVE  At(row', x) = At(row, x)
    <3>1. x[1] \in Reqs /\ x[2] \in Positions /\ ~(x[1] = r /\ x[2] < n)
      BY <1>6, <1>7, <1>9, <1>11
    <3>2. QED
      BY <1>8, <3>1 DEF At
  <2> HIDE DEF D
  <2>5. QED
    BY <1>3, <1>10, <2>2, <2>3, <2>4 DEF Gives
<1> HIDE DEF D
<1>13. /\ Partition(C, free', tree', row', Claims')
       /\ TreeClosed' /\ TreeRight'
       /\ \A k \in DOMAIN tree : k \in DOMAIN tree' /\ tree'[k] = tree[k]
       /\ \A i \in 1 .. cached[r] : Tok(r, i) \in DOMAIN tree'
  BY <1>3, <1>4, <1>12, CommitTree
<1>14. \A k \in DOMAIN tree : tree[k] \in Pages /\ kv[tree[k]] = k
  BY <1>1 DEF TreeRight
<1>15. ASSUME NEW j \in Positions
       PROVE  /\ row'[r][j] \in Pages \cup {NoPage}
              /\ (j < n => row'[r][j] \in Pages /\ kv[row'[r][j]] = Tok(r, j + 1))
  <2>1. row[r][j] \in Pages \cup {NoPage}
    BY <1>2 DEF TableTypes
  <2>2. CASE j < n
    <3>1. j + 1 \in 1 .. n
      BY <1>6, <1>7, <2>2
    <3>2. QED
      BY <1>6, <1>8, <1>14, <2>2, <3>1
  <2>3. CASE ~(j < n)
    BY <1>8, <2>1, <2>3
  <2>4. QED
    BY <2>2, <2>3
<1>16. TableTypes'
  <2>1. row' \in [Reqs -> [Positions -> Pages \cup {NoPage}]]
    <3>1. /\ row \in [Reqs -> [Positions -> Pages \cup {NoPage}]]
          /\ row'[r] = [j \in Positions |-> row'[r][j]]
          /\ row' = [row EXCEPT ![r] = row'[r]]
      BY <1>2, <1>3 DEF TableTypes
    <3>2. QED
      BY <1>15, <3>1
  <2>2. handle' \in [Reqs -> Nat]
    BY <1>2, <1>3, <1>7 DEF TableTypes
  <2>3. last' = [kind |-> last.kind, reqs |-> last.reqs \ {r}]
    BY <1>2, <1>3 DEF TableTypes
  <2>4. last'.kind = last.kind /\ last'.reqs = last.reqs \ {r} /\ last.reqs \subseteq Live
    BY <1>2, <2>3 DEF TableTypes
  <2>5. /\ last' = [kind |-> last'.kind, reqs |-> last'.reqs]
        /\ last'.reqs \subseteq Live'
    BY <1>8, <2>3, <2>4
  <2>6. /\ st' \in [Reqs -> Statuses] /\ cached' \in [Reqs -> Nat]
        /\ dev' \in [Reqs -> Nat] /\ alloc' \in [Reqs -> Nat]
        /\ ongoing' = [kind |-> ongoing'.kind, reqs |-> ongoing'.reqs]
        /\ ongoing'.reqs \subseteq Live'
    BY <1>2, <1>3, <1>8 DEF TableTypes
  <2>7. QED
    BY <2>1, <2>2, <2>5, <2>6 DEF TableTypes
<1>17. Lengths'
  BY <1>2, <1>3, <1>7, <1>8 DEF Lengths, Live
<1>18. Shared'
  <2>1. ASSUME NEW i \in 1 .. cached[r]
        PROVE  Tok(r, i) \in DOMAIN tree' /\ row'[r][i - 1] = tree'[Tok(r, i)]
    <3>1. PICK j \in Nat : j = i - 1 /\ j + 1 = i /\ j \in Positions
      BY <1>7
    <3>2. CASE i <= n
      <4>1. i \in 1 .. n /\ j < n
        BY <1>6, <3>1, <3>2
      <4>2. QED
        BY <1>6, <1>8, <1>13, <3>1, <4>1
    <3>3. CASE ~(i <= n)
      <4>1. i \in (n + 1) .. cached[r] /\ ~(j < n)
        BY <1>6, <1>7, <3>1, <3>3
      <4>2. QED
        BY <1>3, <1>6, <1>8, <1>13, <3>1, <4>1
    <3>4. QED
      BY <3>2, <3>3
  <2>2. ASSUME NEW q \in Live \ {r}, NEW i \in 1 .. handle[q]
        PROVE  Tok(q, i) \in DOMAIN tree' /\ row'[q][i - 1] = tree'[Tok(q, i)]
    <3>1. q \in Reqs
      BY DEF Live
    <3>2. QED
      BY <1>2, <1>8, <1>13, <3>1 DEF Shared
  <2>3. \A q \in Live \ {r} : handle'[q] = handle[q]
    BY <1>8 DEF Live
  <2>4. QED
    BY <1>8, <2>1, <2>2, <2>3 DEF Shared
<1>19. TableInv(C)'
  BY <1>13, <1>16, <1>17, <1>18 DEF TableInv
<1>20. VerifiedRight'
  <2>1. ASSUME NEW q \in Live
        PROVE  Verified(q)' <= RowEnd(q)' /\ Holds(q, Verified(q))'
    <3>1. Verified(q)' = Verified(q) /\ RowEnd(q)' = RowEnd(q) /\ q \in Reqs
      BY <1>3, <1>8 DEF Verified, Keyed, Live
    <3>2. Verified(q) \in Nat /\ Verified(q) <= RowEnd(q) /\ Holds(q, Verified(q))
      BY <1>1, <1>2, VerifiedIs DEF VerifiedRight
    <3>3. PICK m \in Nat : m = Verified(q)
      BY <3>2
    <3>4. RowEnd(q) \in Nat /\ RowEnd(q) <= Width
      BY <1>2, RowEnds
    <3>5. ASSUME NEW j \in 0 .. (m - 1)
          PROVE  row'[q][j] \in Pages /\ kv'[row'[q][j]] = Tok(q, j + 1)
      <4>1. row[q][j] \in Pages /\ kv[row[q][j]] = Tok(q, j + 1)
        BY <3>2, <3>3 DEF Holds
      <4>2. j \in Positions
        BY <1>7, <3>2, <3>3, <3>4
      <4>3. CASE q = r /\ j < n
        BY <1>3, <1>15, <4>2, <4>3
      <4>4. CASE ~(q = r /\ j < n)
        BY <1>3, <1>8, <3>1, <4>1, <4>2, <4>4
      <4>5. QED
        BY <4>3, <4>4
    <3>6. QED
      BY <3>1, <3>2, <3>3, <3>5 DEF Holds
  <2>2. QED
    BY <1>8, <2>1 DEF VerifiedRight
<1>21. KvTypes' /\ KeyBehind'
  BY <1>1, <1>3 DEF KvTypes, KeyBehind
<1>22. QED
  BY <1>13, <1>19, <1>20, <1>21 DEF PoolInv

(* A request that ends gives its row up: what it computed to the prefix     *)
(* cache, the duplicates and the horizon beyond it to the free list.        *)
LEMMA FinishedKeeps ==
  ASSUME NEW C, PoolInv(C), NEW r \in Reqs, Process(r), CommitFinished(r)
  PROVE  PoolInv(C)'
<1>1. TableInv(C) /\ KvTypes /\ TreeRight /\ VerifiedRight /\ KeyBehind
  BY DEF PoolInv
<1>2. TableTypes /\ Lengths /\ TreeClosed /\ Shared /\ Partition(C, free, tree, row, Claims)
  BY <1>1 DEF TableInv
<1>3. /\ r \in last.reqs /\ last' = [last EXCEPT !.reqs = @ \ {r}]
      /\ kv' = kv /\ alloc' = alloc /\ cached' = cached /\ dev' = dev /\ spec' = spec
      /\ ongoing' = ongoing /\ turn' = turn /\ row' = row
      /\ tree' = Inserted(r) /\ free' = free \cup Duplicates(r) \cup PaddedTail(r)
      /\ st' = [st EXCEPT ![r] = "done"] /\ handle' = [handle EXCEPT ![r] = 0]
      /\ r \notin ongoing.reqs
  BY DEF Process, ToCommit, CommitFinished, Finished
<1>4. r \in Live
  BY <1>2, <1>3 DEF TableTypes
<1>5. PICK n : n = MatchLen(r, cached[r])
  OBVIOUS
<1>6. n \in handle[r] .. cached[r] /\ n \in Nat
  BY <1>1, <1>4, <1>5, InsertedIs
<1>7. /\ handle[r] \in Nat /\ cached[r] \in Nat /\ handle[r] <= cached[r]
      /\ RowEnd(r) \in Nat /\ RowEnd(r) <= Width /\ cached[r] <= RowEnd(r)
      /\ Positions = 0 .. (Width - 1) /\ Width \in Nat
  BY <1>2, <1>4, RowEnds
<1>8. /\ Live' = Live \ {r} /\ \A q \in Reqs : RowEnd(q)' = RowEnd(q)
      /\ \A q \in Reqs \ {r} : handle'[q] = handle[q] /\ st'[q] = st[q]
      /\ handle'[r] = 0 /\ st'[r] = "done"
  BY <1>2, <1>3 DEF TableTypes, Live, RowEnd
<1> DEFINE D == {x \in Claims : x[1] = r /\ (x[2] < n \/ cached[r] <= x[2])}
<1>9. Claims \in SUBSET (Reqs \X Positions)
  BY DEF Claims
<1>10. free' = free \cup {At(row, x) : x \in D}
  <2>1. /\ Duplicates(r) = {row[r][j] : j \in handle[r] .. (n - 1)}
        /\ PaddedTail(r) = {row[r][j] : j \in cached[r] .. (RowEnd(r) - 1)}
    BY <1>5 DEF Duplicates, PaddedTail, RowPages, RowEnd
  <2>2. ASSUME NEW j \in (handle[r] .. (n - 1)) \cup (cached[r] .. (RowEnd(r) - 1))
        PROVE  <<r, j>> \in D /\ At(row, <<r, j>>) = row[r][j]
    <3>1. j \in Positions /\ handle[r] <= j /\ j < RowEnd(r) /\ (j < n \/ cached[r] <= j)
      BY <1>6, <1>7
    <3>2. <<r, j>> \in Reqs \X Positions /\ <<r, j>>[1] = r /\ <<r, j>>[2] = j
      BY <3>1
    <3>3. QED
      BY <1>4, <3>1, <3>2 DEF Claims, At
  <2>3. ASSUME NEW x \in D
        PROVE  /\ x[2] \in (handle[r] .. (n - 1)) \cup (cached[r] .. (RowEnd(r) - 1))
               /\ At(row, x) = row[r][x[2]]
    BY <1>6, <1>7, <1>9 DEF Claims, At
  <2> HIDE DEF D
  <2>4. Duplicates(r) \cup PaddedTail(r)
          = {row[r][j] : j \in (handle[r] .. (n - 1)) \cup (cached[r] .. (RowEnd(r) - 1))}
    BY <2>1
  <2> HIDE DEF At
  <2>5. Duplicates(r) \cup PaddedTail(r) \subseteq {At(row, x) : x \in D}
    BY <2>2, <2>4
  <2>6. {At(row, x) : x \in D} \subseteq Duplicates(r) \cup PaddedTail(r)
    BY <2>3, <2>4
  <2>7. QED
    BY <1>3, <2>5, <2>6
<1>11. Claims' = {x \in Claims : x[1] # r}
  <2>1. ASSUME NEW x \in Reqs \X Positions
        PROVE  x \in Claims' <=> x \in Claims /\ x[1] # r
    BY <1>7, <1>8 DEF Claims
  <2>2. Claims' \in SUBSET (Reqs \X Positions)
    BY DEF Claims
  <2>3. QED
    BY <1>9, <2>1, <2>2
<1>12. Gives(r, D)
  <2>1. NewPlaces(r) = {x \in Claims : x[1] = r /\ n <= x[2] /\ x[2] < cached[r]}
    BY <1>5 DEF NewPlaces
  <2>2. D \subseteq Claims /\ NewPlaces(r) \cap D = {}
    BY <1>6, <1>7, <1>9, <2>1
  <2>3. Claims' = Claims \ (NewPlaces(r) \cup D)
    <3>1. ASSUME NEW x \in Claims
          PROVE  x[1] = r <=> x \in NewPlaces(r) \/ x \in D
      BY <1>6, <1>7, <1>9, <2>1
    <3>2. QED
      BY <1>11, <2>2, <3>1
  <2>4. \A x \in Claims' : At(row', x) = At(row, x)
    BY <1>3 DEF At
  <2> HIDE DEF D
  <2>5. QED
    BY <1>3, <1>10, <2>2, <2>3, <2>4 DEF Gives
<1> HIDE DEF D
<1>13. /\ Partition(C, free', tree', row', Claims')
       /\ TreeClosed' /\ TreeRight'
       /\ \A k \in DOMAIN tree : k \in DOMAIN tree' /\ tree'[k] = tree[k]
  BY <1>3, <1>4, <1>12, CommitTree
<1>14. TableTypes'
  <2>1. handle' \in [Reqs -> Nat] /\ st' \in [Reqs -> Statuses]
    BY <1>2, <1>3 DEF TableTypes, Statuses
  <2>2. last' = [kind |-> last.kind, reqs |-> last.reqs \ {r}]
    BY <1>2, <1>3 DEF TableTypes
  <2>3. last'.kind = last.kind /\ last'.reqs = last.reqs \ {r} /\ last.reqs \subseteq Live
    BY <1>2, <2>2 DEF TableTypes
  <2>4. /\ last' = [kind |-> last'.kind, reqs |-> last'.reqs]
        /\ last'.reqs \subseteq Live'
    BY <1>8, <2>2, <2>3
  <2>5. /\ row' \in [Reqs -> [Positions -> Pages \cup {NoPage}]]
        /\ cached' \in [Reqs -> Nat] /\ dev' \in [Reqs -> Nat] /\ alloc' \in [Reqs -> Nat]
        /\ ongoing' = [kind |-> ongoing'.kind, reqs |-> ongoing'.reqs]
    BY <1>2, <1>3 DEF TableTypes
  <2>6. ongoing'.reqs \subseteq Live'
    BY <1>2, <1>3, <1>8 DEF TableTypes
  <2>7. QED
    BY <2>1, <2>4, <2>5, <2>6 DEF TableTypes
<1>15. Lengths'
  <2>1. /\ handle'[r] <= cached'[r] /\ dev'[r] <= MaxDeviceLen(r) /\ alloc'[r] <= Width
        /\ dev'[r] = cached'[r] + 1 /\ (Horizon = 0 => alloc'[r] = 0)
    BY <1>2, <1>3, <1>4, <1>7, <1>8, RowEnds DEF Lengths
  <2>2. QED
    BY <1>2, <1>3, <1>8, <2>1 DEF Lengths
<1>16. Shared'
  <2>1. \A q \in Live \ {r} : handle'[q] = handle[q]
    BY <1>8 DEF Live
  <2>2. QED
    BY <1>2, <1>3, <1>8, <1>13, <2>1 DEF Shared
<1>17. TableInv(C)'
  BY <1>13, <1>14, <1>15, <1>16 DEF TableInv
<1>18. VerifiedRight'
  <2>1. ASSUME NEW q \in Live
        PROVE  Verified(q)' <= RowEnd(q)' /\ Holds(q, Verified(q))'
    <3>1. Verified(q)' = Verified(q) /\ RowEnd(q)' = RowEnd(q)
      BY <1>3, <1>8 DEF Verified, Keyed, Live
    <3>2. Verified(q) <= RowEnd(q) /\ Holds(q, Verified(q))
      BY <1>1 DEF VerifiedRight
    <3>3. QED
      BY <1>3, <3>1, <3>2 DEF Holds
  <2>2. QED
    BY <1>8, <2>1 DEF VerifiedRight
<1>19. KvTypes' /\ KeyBehind'
  <2>1. spec.uid \in Reqs \cup {0}
    BY <1>1 DEF KvTypes
  <2>2. QED
    BY <1>1, <1>3, <1>8, <2>1 DEF KvTypes, KeyBehind
<1>20. QED
  BY <1>13, <1>17, <1>18, <1>19 DEF PoolInv

-----------------------------------------------------------------------------
(* Every step of the scheduler.                                             *)

(* A step that leaves the table and the KV as they are.                     *)
LEMMA StutterKeeps ==
  ASSUME NEW C, PoolInv(C), UNCHANGED <<poolVars, reqVars, spec>>,
         last' = [kind |-> last'.kind, reqs |-> last'.reqs],
         ongoing' = [kind |-> ongoing'.kind, reqs |-> ongoing'.reqs],
         last'.reqs \subseteq Live, ongoing'.reqs \subseteq Live
  PROVE  PoolInv(C)'
<1>1. TableInv(C) /\ KvTypes /\ TreeRight /\ VerifiedRight /\ KeyBehind
  BY DEF PoolInv
<1>2. /\ free' = free /\ tree' = tree /\ row' = row /\ kv' = kv /\ alloc' = alloc
      /\ st' = st /\ cached' = cached /\ dev' = dev /\ handle' = handle /\ spec' = spec
  BY DEF poolVars, reqVars
<1>3. Live' = Live
  BY <1>2 DEF Live
<1>4. Claims' = Claims
  BY <1>2, <1>3 DEF Claims, RowEnd
<1>5. TableTypes'
  BY <1>1, <1>2, <1>3 DEF TableInv, TableTypes
<1>6. Lengths'
  BY <1>1, <1>2, <1>3 DEF TableInv, Lengths
<1>7. TreeClosed' /\ Shared'
  BY <1>1, <1>2, <1>3 DEF TableInv, TreeClosed, Shared
<1>8. Partition(C, free, tree, row, Claims)'
  BY <1>1, <1>2, <1>4 DEF TableInv, Partition, At
<1>9. KvTypes' /\ TreeRight' /\ KeyBehind'
  BY <1>1, <1>2 DEF KvTypes, TreeRight, KeyBehind
<1>10. VerifiedRight'
  BY <1>1, <1>2, <1>3 DEF VerifiedRight, Verified, Keyed, Holds, RowEnd
<1>11. QED
  BY <1>5, <1>6, <1>7, <1>8, <1>9, <1>10 DEF PoolInv, TableInv

LEMMA ProcessKeeps ==
  ASSUME NEW C, PoolInv(C), ProcessStep
  PROVE  PoolInv(C)'
<1>1. ASSUME NEW r \in Reqs, Process(r)
      PROVE  PoolInv(C)'
  <2>1. CASE CommitUnfinished(r)
    BY <1>1, <2>1, UnfinishedKeeps
  <2>2. CASE CommitFinished(r)
    BY <1>1, <2>2, FinishedKeeps
  <2>3. QED
    BY <1>1, <2>1, <2>2 DEF Process
<1>2. CASE EndTurn
  <2>1. /\ last' = ongoing /\ ongoing' = [kind |-> "none", reqs |-> {}]
        /\ UNCHANGED <<poolVars, reqVars, spec>>
    BY <1>2 DEF EndTurn, NoBatch
  <2>2. /\ ongoing = [kind |-> ongoing.kind, reqs |-> ongoing.reqs]
        /\ ongoing.reqs \subseteq Live
    BY DEF PoolInv, TableInv, TableTypes
  <2>3. QED
    BY <2>1, <2>2, StutterKeeps
<1>3. QED
  BY <1>1, <1>2 DEF ProcessStep

LEMMA NoneKeeps ==
  ASSUME NEW C, PoolInv(C), ScheduleNone
  PROVE  PoolInv(C)'
<1>1. /\ last' = last /\ ongoing' = [kind |-> "none", reqs |-> {}]
      /\ UNCHANGED <<poolVars, reqVars, spec>>
  BY DEF ScheduleNone, Launch
<1>2. last = [kind |-> last.kind, reqs |-> last.reqs] /\ last.reqs \subseteq Live
  BY DEF PoolInv, TableInv, TableTypes
<1>3. QED
  BY <1>1, <1>2, StutterKeeps

LEMMA DecodeKeeps ==
  ASSUME NEW C, PoolInv(C), Steady, NEW f, Joins(C, f), NEW E,
         DecodePop(f, E) \/ DecodeRound(f, E) \/ DecodePlain(f, E)
  PROVE  PoolInv(C \cup f)'
BY PopKeeps, RoundKeeps, PlainKeeps

(* At startup the pages in circulation are free.                            *)
LEMMA InitPool ==
  ASSUME Init
  PROVE  PoolInv(InitialFree)
<1>1. /\ free = InitialFree /\ tree = [k \in {} |-> NoPage]
      /\ row = [r \in Reqs |-> [j \in Positions |-> NoPage]]
      /\ kv = [p \in Pages |-> Torn] /\ st = [r \in Reqs |-> "new"]
      /\ cached = [r \in Reqs |-> 0] /\ dev = [r \in Reqs |-> 0]
      /\ alloc = [r \in Reqs |-> 0] /\ handle = [r \in Reqs |-> 0]
      /\ spec = [uid |-> 0, expect |-> 0, left |-> 0]
      /\ ongoing = [kind |-> "none", reqs |-> {}] /\ last = [kind |-> "none", reqs |-> {}]
  BY DEF Init, NoSpec, NoBatch
<1>2. Live = {} /\ Claims = {}
  BY <1>1 DEF Live, Claims
<1>3. DOMAIN tree = {}
  BY <1>1
<1>4. TableTypes
  BY <1>1, <1>2 DEF TableTypes, Statuses
<1>5. Lengths
  <2>1. ASSUME NEW r \in Reqs
        PROVE  dev[r] <= MaxDeviceLen(r) /\ alloc[r] <= Width
    BY <1>1, LengthsAre
  <2>2. QED
    BY <1>1, <1>2, <2>1 DEF Lengths
<1>6. TreeClosed /\ Shared /\ TreeRight /\ VerifiedRight
  BY <1>2, <1>3 DEF TreeClosed, Shared, TreeRight, VerifiedRight
<1>7. Partition(InitialFree, free, tree, row, Claims)
  <2>1. InitialFree \subseteq Pages
    BY RequestAssumption, Zenon
  <2>2. QED
    BY <1>1, <1>2, <1>3, <2>1 DEF Partition
<1>8. KvTypes /\ KeyBehind
  BY <1>1 DEF KvTypes, KeyBehind
<1>9. QED
  BY <1>4, <1>5, <1>6, <1>7, <1>8 DEF PoolInv, TableInv

LEMMA NextPool ==
  ASSUME PoolInv(InitialFree), Steady, [Next]_vars
  PROVE  PoolInv(InitialFree)'
<1>1. free \subseteq InitialFree /\ free \in SUBSET Pages
  BY Zenon DEF PoolInv, TableInv, Partition
<1>2. PICK f : f = free
  OBVIOUS
<1>3. Joins(InitialFree, f) /\ InitialFree \cup f = InitialFree
  BY <1>1, <1>2 DEF Joins
<1>4. ASSUME NEW r \in Reqs, NEW E, Prefill(r, free, 0, E)
      PROVE  PoolInv(InitialFree)'
  <2>1. Prefill(r, f, 0, E)
    BY <1>2, <1>4
  <2>2. PoolInv(InitialFree \cup f)'
    BY <1>3, <2>1, PrefillKeeps
  <2>3. QED
    BY <1>3, <2>2
<1>5. ASSUME NEW E, DecodePop(free, E) \/ DecodeRound(free, E) \/ DecodePlain(free, E)
      PROVE  PoolInv(InitialFree)'
  <2>1. DecodePop(f, E) \/ DecodeRound(f, E) \/ DecodePlain(f, E)
    BY <1>2, <1>5
  <2>2. PoolInv(InitialFree \cup f)'
    BY <1>3, <2>1, DecodeKeeps
  <2>3. QED
    BY <1>3, <2>2
<1>6. CASE ScheduleNone
  BY <1>6, NoneKeeps
<1>7. CASE ProcessStep
  BY <1>7, ProcessKeeps
<1>8. CASE UNCHANGED vars
  <2>1. UNCHANGED <<poolVars, reqVars, spec>> /\ last' = last /\ ongoing' = ongoing
    BY <1>8 DEF vars, loopVars
  <2>2. /\ last = [kind |-> last.kind, reqs |-> last.reqs]
        /\ ongoing = [kind |-> ongoing.kind, reqs |-> ongoing.reqs]
        /\ last.reqs \subseteq Live /\ ongoing.reqs \subseteq Live
    BY DEF PoolInv, TableInv, TableTypes
  <2>3. QED
    BY <2>1, <2>2, StutterKeeps
<1>9. QED
  BY <1>4, <1>5, <1>6, <1>7, <1>8 DEF Next, Schedule

-----------------------------------------------------------------------------
(* What the invariant says.                                                 *)

LEMMA PoolTypes ==
  ASSUME NEW C, PoolInv(C)
  PROVE  PaTypeOK
<1>1. TableTypes /\ Lengths /\ Partition(C, free, tree, row, Claims)
  BY DEF PoolInv, TableInv
<1>2. free \subseteq Pages /\ \A k \in DOMAIN tree : tree[k] \in Pages
  BY <1>1, Zenon DEF Partition
<1>3. ASSUME NEW r \in Reqs
      PROVE  cached[r] <= dev[r]
  BY <1>1, <1>3 DEF TableTypes, Lengths
<1>4. QED
  BY <1>1, <1>2, <1>3 DEF PaTypeOK, TableTypes, Lengths

LEMMA PoolRows ==
  ASSUME NEW C, PoolInv(C)
  PROVE  RowsRight
<1> SUFFICES ASSUME NEW r \in Live, NEW j \in 0 .. (cached[r] - 1)
             PROVE  row[r][j] \in Pages /\ kv[row[r][j]] = Tok(r, j + 1)
  BY DEF RowsRight
<1>1. /\ Verified(r) \in Nat /\ cached[r] <= Verified(r) /\ cached[r] \in Nat
      /\ Holds(r, Verified(r))
  BY VerifiedIs DEF PoolInv, TableInv, VerifiedRight
<1>2. j \in 0 .. (Verified(r) - 1)
  BY <1>1
<1>3. QED
  BY <1>1, <1>2 DEF Holds

(* The pages a live request owns, one at each of its places.                *)
LEMMA OwnedIs ==
  ASSUME NEW C, PoolInv(C), NEW r \in Live
  PROVE  /\ \A j \in handle[r] .. (RowEnd(r) - 1) :
              <<r, j>> \in Claims /\ At(row, <<r, j>>) = row[r][j]
         /\ Owned(r) = {At(row, x) : x \in {y \in Claims : y[1] = r}}
         /\ Cardinality(Owned(r)) = RowEnd(r) - handle[r]
<1>1. TableTypes /\ Lengths /\ Partition(C, free, tree, row, Claims)
  BY DEF PoolInv, TableInv
<1>2. PICK a \in Nat, b \in Nat : a = handle[r] /\ b = RowEnd(r)
  BY <1>1, RowEnds
<1>3. /\ r \in Reqs /\ b <= Width /\ a <= b
      /\ Positions = 0 .. (Width - 1) /\ Width \in Nat
  BY <1>1, <1>2, RowEnds
<1>4. ASSUME NEW j \in a .. (b - 1)
      PROVE  /\ <<r, j>> \in Claims /\ At(row, <<r, j>>) = row[r][j]
  <2>1. j \in Positions /\ a <= j /\ j < b
    BY <1>3
  <2>2. <<r, j>> \in Reqs \X Positions /\ <<r, j>>[1] = r /\ <<r, j>>[2] = j
    BY <1>3, <2>1
  <2>3. QED
    BY <1>2, <2>1, <2>2 DEF Claims, At
<1>5. Owned(r) = {row[r][j] : j \in a .. (b - 1)}
  BY <1>2 DEF Owned, RowPages, RowEnd
<1>6. Owned(r) = {At(row, x) : x \in {y \in Claims : y[1] = r}}
  <2>1. ASSUME NEW x \in Claims, x[1] = r
        PROVE  x[2] \in a .. (b - 1) /\ At(row, x) = row[r][x[2]]
    BY <1>2, <1>3, <2>1 DEF Claims, At
  <2>2. \A j \in a .. (b - 1) : <<r, j>>[1] = r
    OBVIOUS
  <2> HIDE DEF At
  <2>3. Owned(r) \subseteq {At(row, x) : x \in {y \in Claims : y[1] = r}}
    BY <1>4, <1>5, <2>2
  <2>4. {At(row, x) : x \in {y \in Claims : y[1] = r}} \subseteq Owned(r)
    BY <1>5, <2>1
  <2>5. QED
    BY <2>3, <2>4
<1>7. Cardinality(Owned(r)) = b - a
  <2> DEFINE J == a .. (b - 1)
             F == [j \in J |-> row[r][j]]
  <2>1. IsFiniteSet(J) /\ Cardinality(J) = b - a
    <3>1. /\ IsFiniteSet(a .. (b - 1))
          /\ Cardinality(a .. (b - 1)) = IF a > b - 1 THEN 0 ELSE (b - 1) - a + 1
      BY FS_Interval
    <3>2. QED
      BY <1>3, <3>1
  <2>2. \A i, j \in J : F[i] = F[j] => i = j
    <3>1. ASSUME NEW i \in J, NEW j \in J, F[i] = F[j]
          PROVE  i = j
      <4>1. At(row, <<r, i>>) = At(row, <<r, j>>) /\ <<r, i>> \in Claims /\ <<r, j>> \in Claims
        BY <1>4, <3>1
      <4>2. \A x, y \in Claims : At(row, x) = At(row, y) => x = y
        BY <1>1, Zenon DEF Partition
      <4>3. <<r, i>> = <<r, j>>
        BY <4>1, <4>2, Zenon
      <4>4. QED
        BY <4>3
    <3>2. QED
      BY <3>1
  <2>3. F \in [J -> Owned(r)] /\ \A p \in Owned(r) : \E j \in J : F[j] = p
    BY <1>5
  <2> HIDE DEF F, J
  <2>4. F \in Injection(J, Owned(r)) /\ F \in Surjection(J, Owned(r))
    BY <2>2, <2>3, Fun_IsInj, Fun_IsSurj
  <2>5. IsFiniteSet(Owned(r)) /\ Cardinality(Owned(r)) = Cardinality(J)
    BY <2>1, <2>4, FS_Injection, FS_Surjection
  <2>6. QED
    BY <2>1, <2>5
<1>8. QED
  BY <1>2, <1>4, <1>6, <1>7

LEMMA PoolAccounts ==
  ASSUME NEW C, PoolInv(C)
  PROVE  PagesAccounted(C)
<1>1. /\ \A a, b \in DOMAIN tree : tree[a] = tree[b] => a = b
      /\ \A k \in DOMAIN tree : tree[k] \notin free
      /\ \A x \in Claims : At(row, x) \in Pages /\ At(row, x) \notin free
      /\ \A x \in Claims : \A k \in DOMAIN tree : tree[k] # At(row, x)
      /\ \A x, y \in Claims : At(row, x) = At(row, y) => x = y
      /\ C = free \cup {tree[k] : k \in DOMAIN tree} \cup {At(row, x) : x \in Claims}
  BY Zenon DEF PoolInv, TableInv, Partition
<1> HIDE DEF At
<1>2. Range(tree) = {tree[k] : k \in DOMAIN tree}
  BY DEF Range
<1>3. \A r \in Live : /\ Owned(r) = {At(row, x) : x \in {y \in Claims : y[1] = r}}
                      /\ Cardinality(Owned(r)) = RowEnd(r) - handle[r]
  BY OwnedIs
<1>4. UNION {Owned(r) : r \in Live} = {At(row, x) : x \in Claims}
  <2>1. \A x \in Claims : x[1] \in Live
    BY DEF Claims
  <2>2. QED
    BY <1>3, <2>1
<1>5. free \cup Range(tree) \cup UNION {Owned(r) : r \in Live} = C
  BY <1>1, <1>2, <1>4, Zenon
<1>6. free \cap Range(tree) = {} /\ IsInjective(tree)
  BY <1>1, <1>2 DEF IsInjective
<1>7. ASSUME NEW r \in Live
      PROVE  Owned(r) \cap (free \cup Range(tree)) = {}
  BY <1>1, <1>2, <1>3
<1>8. ASSUME NEW r \in Live, NEW q \in Live \ {r}
      PROVE  Owned(r) \cap Owned(q) = {}
  <2>1. ASSUME NEW p \in Owned(r), p \in Owned(q)
        PROVE  FALSE
    <3>1. PICK x \in Claims : x[1] = r /\ p = At(row, x)
      BY <1>3
    <3>2. PICK y \in Claims : y[1] = q /\ p = At(row, y)
      BY <1>3, <2>1
    <3>3. x = y
      BY <1>1, <3>1, <3>2
    <3>4. QED
      BY <3>1, <3>2, <3>3
  <2>2. QED
    BY <2>1
<1>9. \A r \in Live : Cardinality(Owned(r)) = Max2(cached[r], alloc[r]) - handle[r]
  BY <1>3 DEF RowEnd
<1>10. QED
  BY <1>5, <1>6, <1>7, <1>8, <1>9 DEF PagesAccounted

-----------------------------------------------------------------------------
(* The theorems.  The horizon is allocated by HorizonNow, which looks at    *)
(* the free list: what follows is for a pool that stays comfortable when    *)
(* a batch is scheduled, or has no horizon.                                 *)

(* The pages stay partitioned, the prefix cache closed, and the KV of every *)
(* verified position in place (Init, and every step by NextPool).           *)
THEOREM PoolInvariant == Spec /\ []Steady => []PoolInv(InitialFree)
<1>1. Init => PoolInv(InitialFree)
  BY InitPool
<1>2. PoolInv(InitialFree) /\ Steady /\ [Next]_vars => PoolInv(InitialFree)'
  BY NextPool
<1>3. QED
  BY <1>1, <1>2, PTL DEF Spec

(* The lengths of a request stay ordered and within the page table.         *)
THEOREM PoolTypesKept == Spec /\ []Steady => []PaTypeOK
<1>1. PoolInv(InitialFree) => PaTypeOK
  BY PoolTypes
<1>2. QED
  BY <1>1, PoolInvariant, PTL

(* A request attends its own KV: through shared prefixes, eviction,         *)
(* reclaimed duplicates and tokens popped without a forward, the page of    *)
(* every computed position holds exactly that position of its tokens.       *)
THEOREM OwnKv == Spec /\ []Steady => []RowsRight
<1>1. PoolInv(InitialFree) => RowsRight
  BY PoolRows
<1>2. QED
  BY <1>1, PoolInvariant, PTL

(* What the prefix cache offers to the next request is the KV it was        *)
(* inserted for: no page of it is ever written again.                       *)
THEOREM CachedKv == Spec /\ []Steady => []TreeRight
<1>1. PoolInv(InitialFree) => TreeRight
  BY DEF PoolInv
<1>2. QED
  BY <1>1, PoolInvariant, PTL

(* Every page is free, cached or owned by one request, and only one of      *)
(* these: a commit gives back exactly the duplicates and the tail.          *)
THEOREM NothingLeaks == Spec /\ []Steady => []PoolAccounted
<1>1. PoolInv(InitialFree) => PoolAccounted
  BY PoolAccounts DEF PoolAccounted
<1>2. QED
  BY <1>1, PoolInvariant, PTL

(* Without speculative decoding nothing is asked of the free list.          *)
THEOREM PlainPoolRight ==
  ASSUME Horizon = 0
  PROVE  Spec => [](PaTypeOK /\ RowsRight /\ TreeRight /\ PoolAccounted)
<1>1. Steady
  BY DEF Steady
<1>2. QED
  BY <1>1, PoolTypesKept, OwnKv, CachedKv, NothingLeaks, PTL

-----------------------------------------------------------------------------
(* Counting.                                                                *)

(* A set that something maps S onto has no more members than S.             *)
LEMMA ImageCount ==
  ASSUME NEW S, IsFiniteSet(S), NEW F, F = [x \in S |-> F[x]],
         NEW T, \A p \in T : \E x \in S : F[x] = p
  PROVE  IsFiniteSet(T) /\ Cardinality(T) <= Cardinality(S)
<1>1. PICK V : V = {F[x] : x \in S}
  OBVIOUS
<1>2. F \in [S -> V] /\ \A p \in V : \E x \in S : F[x] = p
  BY <1>1
<1>3. F \in Surjection(S, V)
  BY <1>2, Fun_IsSurj
<1>4. IsFiniteSet(V) /\ Cardinality(V) <= Cardinality(S)
  BY <1>3, FS_Surjection
<1>5. T \subseteq V
  BY <1>1
<1>6. IsFiniteSet(T) /\ Cardinality(T) <= Cardinality(V)
  BY <1>4, <1>5, FS_Subset
<1>7. Cardinality(T) \in Nat /\ Cardinality(V) \in Nat /\ Cardinality(S) \in Nat
  BY <1>4, <1>6, FS_CardinalityType
<1>8. QED
  BY <1>4, <1>6, <1>7

(* A function that is one to one has as many values as arguments.           *)
LEMMA ValuesCount ==
  ASSUME NEW S, IsFiniteSet(S), NEW F, F = [x \in S |-> F[x]],
         \A x, y \in S : F[x] = F[y] => x = y
  PROVE  /\ IsFiniteSet({F[x] : x \in S})
         /\ Cardinality({F[x] : x \in S}) = Cardinality(S)
<1>1. PICK V : V = {F[x] : x \in S}
  OBVIOUS
<1>2. F \in [S -> V] /\ \A p \in V : \E x \in S : F[x] = p
  BY <1>1
<1>3. F \in Injection(S, V) /\ F \in Surjection(S, V)
  BY <1>2, Fun_IsInj, Fun_IsSurj
<1>4. IsFiniteSet(V) /\ Cardinality(V) = Cardinality(S)
  BY <1>3, FS_Injection, FS_Surjection
<1>5. QED
  BY <1>1, <1>4

(* Two parts.                                                               *)
LEMMA PartsCount ==
  ASSUME NEW A, NEW B, IsFiniteSet(A), IsFiniteSet(B), A \cap B = {}, NEW S, S = A \cup B
  PROVE  /\ Cardinality(S) = Cardinality(A) + Cardinality(B)
         /\ Cardinality(A) \in Nat /\ Cardinality(B) \in Nat /\ Cardinality(S) \in Nat
<1>1. /\ IsFiniteSet(A \cup B)
      /\ Cardinality(A \cup B) = Cardinality(A) + Cardinality(B) - Cardinality(A \cap B)
  BY FS_Union
<1>2. Cardinality(A \cap B) = 0
  BY FS_EmptySet
<1>3. Cardinality(A) \in Nat /\ Cardinality(B) \in Nat /\ Cardinality(A \cup B) \in Nat
  BY <1>1, FS_CardinalityType
<1>4. QED
  BY <1>1, <1>2, <1>3

-----------------------------------------------------------------------------
(* What admission promises: the pages it counts on are there when a batch   *)
(* comes to take them.                                                      *)

(* What the running requests may still take.                                *)
Owed == {x \in Running \X (1 .. Width) : x[2] <= MaxDeviceLen(x[1]) - dev[x[1]]}

(* Of T pages, what is owed, what the rows own and what they lock in the    *)
(* prefix cache.                                                            *)
Promised(T) == Cardinality(Owed) + Cardinality(Claims) + Cardinality(Locked(Live, handle)) <= T

(* At most so many are added, or so many are gone.                          *)
LEMMA AtMost ==
  ASSUME NEW B, NEW N, IsFiniteSet(B), IsFiniteSet(N), NEW A \in SUBSET (B \cup N)
  PROVE  /\ IsFiniteSet(A) /\ Cardinality(A) \in Nat
         /\ Cardinality(A) <= Cardinality(B) + Cardinality(N)
<1>1. /\ IsFiniteSet(B \cup N)
      /\ Cardinality(B \cup N) = Cardinality(B) + Cardinality(N) - Cardinality(B \cap N)
  BY FS_Union
<1>2. Cardinality(B \cap N) \in Nat
  BY FS_Subset, FS_CardinalityType
<1>3. IsFiniteSet(A) /\ Cardinality(A) <= Cardinality(B \cup N)
  BY <1>1, FS_Subset
<1>4. /\ Cardinality(A) \in Nat /\ Cardinality(B) \in Nat /\ Cardinality(N) \in Nat
      /\ Cardinality(B \cup N) \in Nat
  BY <1>1, <1>3, FS_CardinalityType
<1>5. QED
  BY <1>1, <1>2, <1>3, <1>4

LEMMA Without ==
  ASSUME NEW B, IsFiniteSet(B), NEW P \in SUBSET B, NEW A \in SUBSET (B \ P)
  PROVE  /\ IsFiniteSet(A) /\ Cardinality(A) \in Nat
         /\ Cardinality(A) + Cardinality(P) <= Cardinality(B)
<1>1. IsFiniteSet(A) /\ IsFiniteSet(P)
  BY FS_Subset
<1>2. A \cap P = {} /\ A \cup P \subseteq B
  OBVIOUS
<1>3. PICK S : S = A \cup P
  OBVIOUS
<1>4. Cardinality(S) = Cardinality(A) + Cardinality(P) /\ Cardinality(A) \in Nat
  BY <1>1, <1>2, <1>3, PartsCount
<1>5. Cardinality(S) <= Cardinality(B)
  BY <1>2, <1>3, FS_Subset
<1>6. QED
  BY <1>1, <1>4, <1>5

(* The places a .. b - 1 of a row.                                          *)
LEMMA SomePlaces ==
  ASSUME NEW r, NEW a \in Nat, NEW b \in Nat, a <= b
  PROVE  /\ IsFiniteSet({r} \X (a .. (b - 1)))
         /\ Cardinality({r} \X (a .. (b - 1))) <= b - a
         /\ Cardinality({r} \X (a .. (b - 1))) \in Nat
<1>1. PICK I, T : I = a .. (b - 1) /\ T = {r} \X I
  OBVIOUS
<1>2. IsFiniteSet(I) /\ Cardinality(I) = b - a
  <2>1. b - 1 \in Int /\ a \in Int
    OBVIOUS
  <2>2. IsFiniteSet(I) /\ Cardinality(I) = IF a > b - 1 THEN 0 ELSE (b - 1) - a + 1
    BY <1>1, <2>1, FS_Interval
  <2>3. QED
    BY <2>2
<1>3. PICK F : F = [i \in I |-> <<r, i>>]
  OBVIOUS
<1>4. F = [i \in I |-> F[i]] /\ \A p \in T : \E i \in I : F[i] = p
  BY <1>1, <1>3
<1>5. IsFiniteSet(T) /\ Cardinality(T) <= Cardinality(I)
  BY <1>2, <1>4, ImageCount
<1>6. QED
  BY <1>1, <1>2, <1>5, FS_CardinalityType

(* There are finitely many of each.                                         *)
LEMMA PromisedFinite ==
  ASSUME NEW C, PoolInv(C)
  PROVE  /\ IsFiniteSet(Owed) /\ IsFiniteSet(Claims) /\ IsFiniteSet(DOMAIN tree)
         /\ IsFiniteSet(free) /\ IsFiniteSet(Running) /\ IsFiniteSet(Locked(Live, handle))
<1>1. /\ free \subseteq Pages /\ \A k \in DOMAIN tree : tree[k] \in Pages
      /\ \A a, b \in DOMAIN tree : tree[a] = tree[b] => a = b
  BY Zenon DEF PoolInv, TableInv, Partition
<1>2. IsFiniteSet(free) /\ IsFiniteSet(Claims)
  <2>1. Claims \subseteq Reqs \X Positions
    BY DEF Claims
  <2>2. QED
    BY <1>1, <2>1, PagesFinite, FS_Subset
<1>3. IsFiniteSet(DOMAIN tree)
  <2>1. PICK V : V = {tree[k] : k \in DOMAIN tree}
    OBVIOUS
  <2>2. IsFiniteSet(V)
    BY <1>1, <2>1, PagesFinite, FS_Subset
  <2>3. PICK F : F = [p \in V |-> CHOOSE k \in DOMAIN tree : tree[k] = p]
    OBVIOUS
  <2>4. \A k \in DOMAIN tree : F[tree[k]] = k /\ tree[k] \in V
    BY <1>1, <2>1, <2>3
  <2>5. PICK D : D = DOMAIN tree
    OBVIOUS
  <2>6. F = [p \in V |-> F[p]]
    BY <2>3
  <2>7. \A k \in D : \E p \in V : F[p] = k
    BY <2>4, <2>5
  <2>8. QED
    BY <2>2, <2>5, <2>6, <2>7, ImageCount
<1>4. IsFiniteSet(Reqs)
  <2>1. NumReqs \in Int /\ 1 \in Int
    BY RequestAssumption
  <2>2. QED
    BY <2>1, FS_Interval DEF Reqs
<1>5. IsFiniteSet(Running)
  BY <1>4, FS_Subset DEF Running
<1>6. IsFiniteSet(Owed)
  <2>1. PICK R, W : R = Running /\ W = 1 .. Width
    OBVIOUS
  <2>2. IsFiniteSet(W)
    <3>1. Width \in Int /\ 1 \in Int
      BY RequestAssumption
    <3>2. QED
      BY <2>1, <3>1, FS_Interval
  <2>3. IsFiniteSet(R \X W)
    BY <1>5, <2>1, <2>2, FS_Product
  <2>4. Owed \subseteq R \X W
    BY <2>1 DEF Owed
  <2>5. QED
    BY <2>3, <2>4, FS_Subset
<1>7. IsFiniteSet(Locked(Live, handle))
  <2>1. Locked(Live, handle) \subseteq DOMAIN tree
    BY DEF Locked
  <2>2. QED
    BY <1>3, <2>1, FS_Subset
<1>8. QED
  BY <1>2, <1>3, <1>5, <1>6, <1>7

(* A page in circulation is free, holds a cached prefix, locked or not, or  *)
(* is at a place of a row.                                                  *)
LEMMA PagesShared ==
  ASSUME NEW C, PoolInv(C), NEW L \in SUBSET DOMAIN tree
  PROVE  /\ Cardinality(free) + Cardinality(DOMAIN tree \ L) + Cardinality(L) + Cardinality(Claims)
              = Cardinality(C)
         /\ Cardinality(free) \in Nat /\ Cardinality(DOMAIN tree \ L) \in Nat
         /\ Cardinality(L) \in Nat /\ Cardinality(Claims) \in Nat
<1>1. PICK D, V, W, U : /\ D = DOMAIN tree /\ V = {tree[k] : k \in DOMAIN tree}
                        /\ W = {At(row, x) : x \in Claims} /\ U = D \ L
  OBVIOUS
<1>2. /\ IsFiniteSet(Claims) /\ IsFiniteSet(D) /\ IsFiniteSet(free)
  BY <1>1, PromisedFinite
<1>3. /\ C = (free \cup V) \cup W /\ free \cap V = {} /\ (free \cup V) \cap W = {}
      /\ \A a, b \in D : tree[a] = tree[b] => a = b
      /\ \A x, y \in Claims : At(row, x) = At(row, y) => x = y
  <2>1. Partition(C, free, tree, row, Claims)
    BY Zenon DEF PoolInv, TableInv
  <2>2. /\ \A a, b \in DOMAIN tree : tree[a] = tree[b] => a = b
        /\ \A k \in DOMAIN tree : tree[k] \notin free
        /\ \A x \in Claims : At(row, x) \notin free
        /\ \A x \in Claims : \A k \in DOMAIN tree : tree[k] # At(row, x)
        /\ \A x, y \in Claims : At(row, x) = At(row, y) => x = y
        /\ C = free \cup {tree[k] : k \in DOMAIN tree} \cup {At(row, x) : x \in Claims}
    BY <2>1, Zenon DEF Partition
  <2> HIDE DEF At
  <2>3. C = (free \cup V) \cup W
    BY <1>1, <2>2
  <2>4. free \cap V = {}
    BY <1>1, <2>2
  <2>5. (free \cup V) \cap W = {}
    BY <1>1, <2>2
  <2>6. QED
    BY <1>1, <2>2, <2>3, <2>4, <2>5
<1>4. IsFiniteSet(V) /\ Cardinality(V) = Cardinality(D)
  <2>1. PICK F : F = [k \in D |-> tree[k]]
    OBVIOUS
  <2>2. /\ F = [k \in D |-> F[k]] /\ V = {F[k] : k \in D}
        /\ \A x, y \in D : F[x] = F[y] => x = y
    BY <1>1, <1>3, <2>1
  <2>3. QED
    BY <1>2, <2>2, ValuesCount
<1>5. IsFiniteSet(W) /\ Cardinality(W) = Cardinality(Claims)
  <2>1. PICK K : K = Claims
    OBVIOUS
  <2>2. PICK F : F = [x \in K |-> At(row, x)]
    OBVIOUS
  <2> HIDE DEF At
  <2>3. /\ F = [x \in K |-> F[x]] /\ W = {F[x] : x \in K}
        /\ \A x, y \in K : F[x] = F[y] => x = y
    BY <1>1, <1>3, <2>1, <2>2
  <2>4. QED
    BY <1>2, <2>1, <2>3, ValuesCount
<1>6. PICK G : G = free \cup V
  OBVIOUS
<1>7. /\ Cardinality(G) = Cardinality(free) + Cardinality(V) /\ IsFiniteSet(G)
      /\ Cardinality(free) \in Nat
  BY <1>2, <1>3, <1>4, <1>6, PartsCount, FS_Union
<1>8. Cardinality(C) = Cardinality(G) + Cardinality(W) /\ Cardinality(W) \in Nat
  BY <1>3, <1>5, <1>6, <1>7, PartsCount
<1>9. /\ Cardinality(D) = Cardinality(U) + Cardinality(L)
      /\ Cardinality(U) \in Nat /\ Cardinality(L) \in Nat
  <2>1. IsFiniteSet(U) /\ IsFiniteSet(L) /\ U \cap L = {} /\ D = U \cup L
    BY <1>1, <1>2, FS_Subset
  <2>2. QED
    BY <2>1, PartsCount
<1>10. QED
  BY <1>1, <1>4, <1>5, <1>7, <1>8, <1>9

(* With MTP off a row ends where its computed tokens end.                   *)
LEMMA PlainEnds ==
  ASSUME NEW C, TableInv(C), Horizon = 0, NEW r \in Live
  PROVE  /\ alloc[r] = 0 /\ RowEnd(r) = cached[r]
         /\ r \in Reqs /\ handle[r] \in Nat /\ cached[r] \in Nat /\ handle[r] <= cached[r]
         /\ dev[r] = cached[r] + 1 /\ cached[r] < Width /\ Width \in Nat
<1>1. /\ r \in Reqs /\ handle[r] \in Nat /\ cached[r] \in Nat /\ handle[r] <= cached[r]
      /\ dev[r] = cached[r] + 1 /\ dev[r] <= MaxDeviceLen(r)
  BY RowEnds DEF TableInv
<1>2. alloc[r] = 0
  BY <1>1 DEF TableInv, Lengths
<1>3. MaxDeviceLen(r) \in Nat /\ MaxDeviceLen(r) <= Width /\ Width \in Nat
  BY <1>1, LengthsAre
<1>4. QED
  BY <1>1, <1>2, <1>3 DEF RowEnd, Max2

LEMMA PlainEndsNext ==
  ASSUME NEW C, TableInv(C)', Horizon = 0, NEW r \in Live'
  PROVE  RowEnd(r)' = cached'[r] /\ cached'[r] \in Nat /\ handle'[r] \in Nat /\ r \in Reqs
<1>1. r \in Reqs /\ handle'[r] \in Nat /\ cached'[r] \in Nat
  BY RowEndsNext DEF TableInv
<1>2. alloc'[r] = 0
  BY <1>1 DEF TableInv, Lengths
<1>3. QED
  BY <1>1, <1>2 DEF RowEnd, Max2

(* Nothing is added.                                                        *)
LEMMA PromisedSame ==
  ASSUME NEW C, PoolInv(C), NEW T \in Nat, Promised(T),
         Owed' \subseteq Owed, Claims' \subseteq Claims,
         Locked(Live, handle)' \subseteq Locked(Live, handle)
  PROVE  Promised(T)'
<1>1. PICK A, B, L, A2, B2, L2 :
        /\ A = Owed /\ B = Claims /\ L = Locked(Live, handle)
        /\ A2 = Owed' /\ B2 = Claims' /\ L2 = Locked(Live, handle)'
  OBVIOUS
<1>2. IsFiniteSet(A) /\ IsFiniteSet(B) /\ IsFiniteSet(L)
  BY <1>1, PromisedFinite
<1>3. A2 \subseteq A /\ B2 \subseteq B /\ L2 \subseteq L
  BY <1>1
<1>4. /\ IsFiniteSet(A2) /\ Cardinality(A2) <= Cardinality(A)
      /\ IsFiniteSet(B2) /\ Cardinality(B2) <= Cardinality(B)
      /\ IsFiniteSet(L2) /\ Cardinality(L2) <= Cardinality(L)
  BY <1>2, <1>3, FS_Subset
<1>5. /\ Cardinality(A) \in Nat /\ Cardinality(B) \in Nat /\ Cardinality(L) \in Nat
      /\ Cardinality(A2) \in Nat /\ Cardinality(B2) \in Nat /\ Cardinality(L2) \in Nat
  BY <1>2, <1>4, FS_CardinalityType
<1>6. Cardinality(A) + Cardinality(B) + Cardinality(L) <= T
  BY <1>1, Zenon DEF Promised
<1>7. Cardinality(A2) + Cardinality(B2) + Cardinality(L2) <= T
  BY <1>4, <1>5, <1>6
<1>8. QED
  BY <1>1, <1>7, Zenon DEF Promised

(* A decode step takes one page for each running request, which owed it.    *)
LEMMA PromisedDecode ==
  ASSUME NEW C, PoolInv(C), NEW D, PoolInv(D)', Horizon = 0, NEW T \in Nat, Promised(T),
         NEW f, NEW E, DecodeAlloc(f, E)
  PROVE  Promised(T)'
<1>1. /\ handle' = handle /\ DOMAIN tree' = DOMAIN tree \ E
      /\ cached' = [r \in Reqs |-> IF r \in Running THEN dev[r] ELSE cached[r]]
      /\ dev' = [r \in Reqs |-> IF r \in Running THEN dev[r] + 1 ELSE dev[r]]
      /\ st' = [r \in Reqs |-> IF r \notin Running THEN st[r]
                               ELSE IF dev[r] + 1 < MaxDeviceLen(r) THEN "running" ELSE "last"]
  BY DEF DecodeAlloc, AllocatePaged, CompleteOne
<1>2. TableInv(C) /\ TableInv(D)'
  BY DEF PoolInv
<1>3. Live' = Live /\ Running' \subseteq Running /\ Running \subseteq Live
  BY <1>1 DEF Live, Running
<1>4. PICK R, A, A2, B, B2, L, L2 :
        /\ R = Running /\ A = Owed /\ A2 = Owed' /\ B = Claims /\ B2 = Claims'
        /\ L = Locked(Live, handle) /\ L2 = Locked(Live, handle)'
  OBVIOUS
<1>5. IsFiniteSet(A) /\ IsFiniteSet(B) /\ IsFiniteSet(L) /\ IsFiniteSet(R)
  BY <1>4, PromisedFinite
<1>6. ASSUME NEW r \in R
      PROVE  /\ r \in Reqs /\ r \in Live /\ dev[r] \in Nat /\ MaxDeviceLen(r) \in Nat
             /\ MaxDeviceLen(r) - dev[r] \in 1 .. Width /\ Width \in Nat
             /\ dev[r] = cached[r] + 1 /\ cached[r] \in Nat
  <2>1. r \in Reqs /\ r \in Live /\ st[r] = "running"
    BY <1>4 DEF Running, Live
  <2>2. dev[r] = cached[r] + 1 /\ cached[r] \in Nat
    BY <1>2, <2>1, RowEnds DEF TableInv
  <2>3. dev[r] < MaxDeviceLen(r)
    BY <1>2, <2>1 DEF TableInv, Lengths
  <2>4. MaxDeviceLen(r) \in Nat /\ MaxDeviceLen(r) <= Width /\ Width \in Nat
    BY <2>1, LengthsAre
  <2>5. QED
    BY <2>1, <2>2, <2>3, <2>4
<1>7. PICK F, G : /\ F = [r \in R |-> <<r, MaxDeviceLen(r) - dev[r]>>]
                  /\ G = [r \in R |-> <<r, cached[r]>>]
  OBVIOUS
<1>8. PICK P, N : P = {F[r] : r \in R} /\ N = {G[r] : r \in R}
  OBVIOUS
<1>9. IsFiniteSet(P) /\ Cardinality(P) = Cardinality(R)
  <2>1. F = [r \in R |-> F[r]] /\ \A x, y \in R : F[x] = F[y] => x = y
    BY <1>7
  <2>2. QED
    BY <1>5, <1>8, <2>1, ValuesCount
<1>10. IsFiniteSet(N) /\ Cardinality(N) = Cardinality(R)
  <2>1. G = [r \in R |-> G[r]] /\ \A x, y \in R : G[x] = G[y] => x = y
    BY <1>7
  <2>2. QED
    BY <1>5, <1>8, <2>1, ValuesCount
<1>11. P \subseteq A
  <2>1. ASSUME NEW r \in R
        PROVE  F[r] \in Owed
    <3>1. F[r] = <<r, MaxDeviceLen(r) - dev[r]>>
      BY <1>7
    <3>2. PICK n \in 1 .. Width : n = MaxDeviceLen(r) - dev[r]
      BY <1>6
    <3>3. <<r, n>> \in Running \X (1 .. Width) /\ n <= MaxDeviceLen(r) - dev[r]
      BY <1>4, <3>2
    <3>4. QED
      BY <3>1, <3>2, <3>3 DEF Owed
  <2>2. QED
    BY <1>4, <1>8, <2>1
<1>12. A2 \subseteq A \ P
  <2>1. ASSUME NEW x \in Owed'
        PROVE  x \in Owed /\ x \notin P
    <3>1. /\ x \in Running' \X (1 .. Width) /\ x[2] <= MaxDeviceLen(x[1]) - dev'[x[1]]
      BY DEF Owed, MaxDeviceLen
    <3>2. PICK r \in Running', n \in 1 .. Width : x = <<r, n>>
      BY <3>1
    <3>3. r \in R /\ dev'[r] = dev[r] + 1 /\ n <= MaxDeviceLen(r) - dev'[r]
      BY <1>1, <1>3, <1>4, <1>6, <3>1, <3>2
    <3>4. n < MaxDeviceLen(r) - dev[r]
      BY <1>6, <3>3
    <3>5. x \in Owed
      BY <1>4, <1>6, <3>2, <3>3, <3>4 DEF Owed
    <3>6. ASSUME NEW q \in R, F[q] = x
          PROVE  FALSE
      <4>1. q = r /\ MaxDeviceLen(q) - dev[q] = n
        BY <1>7, <3>2, <3>6
      <4>2. QED
        BY <1>6, <3>3, <3>4, <4>1
    <3>7. QED
      BY <1>8, <3>5, <3>6
  <2>2. QED
    BY <1>4, <2>1
<1>13. B2 \subseteq B \cup N
  <2>1. ASSUME NEW x \in Claims'
        PROVE  x \in Claims \/ x \in N
    <3>1. PICK r \in Live, j \in Positions : x = <<r, j>> /\ handle[r] <= j /\ j < cached'[r]
      <4>1. /\ x \in Reqs \X Positions /\ x[1] \in Live'
            /\ handle'[x[1]] <= x[2] /\ x[2] < RowEnd(x[1])'
        BY DEF Claims
      <4>2. PICK r \in Reqs, j \in Positions : x = <<r, j>>
        BY <4>1
      <4>3. r \in Live' /\ handle'[r] <= j /\ j < RowEnd(r)'
        BY <4>1, <4>2
      <4>4. RowEnd(r)' = cached'[r]
        BY <1>2, <4>3, PlainEndsNext
      <4>5. QED
        BY <1>1, <1>3, <4>2, <4>3, <4>4
    <3>2. RowEnd(r) = cached[r] /\ r \in Reqs /\ cached[r] \in Nat
      BY <1>2, PlainEnds
    <3>3. CASE j < cached[r]
      BY <3>1, <3>2, <3>3 DEF Claims
    <3>4. CASE ~(j < cached[r])
      <4>1. j \in Nat
        BY <3>1, RequestAssumption DEF Positions
      <4>2. r \in Running
        BY <1>1, <3>1, <3>2, <3>4
      <4>3. cached'[r] = cached[r] + 1
        BY <1>1, <1>4, <1>6, <4>2
      <4>4. j = cached[r]
        BY <3>1, <3>2, <3>4, <4>1, <4>3
      <4>5. G[r] = x
        BY <1>4, <1>7, <3>1, <4>2, <4>4
      <4>6. QED
        BY <1>4, <1>8, <4>2, <4>5
    <3>5. QED
      BY <3>3, <3>4
  <2>2. QED
    BY <1>4, <2>1
<1>14. L2 \subseteq L
  BY <1>1, <1>3, <1>4 DEF Locked
<1>15. Cardinality(A2) \in Nat /\ Cardinality(A2) + Cardinality(P) <= Cardinality(A)
  BY <1>5, <1>11, <1>12, Without
<1>16. Cardinality(B2) \in Nat /\ Cardinality(B2) <= Cardinality(B) + Cardinality(N)
  BY <1>5, <1>10, <1>13, AtMost
<1>17. /\ Cardinality(L2) \in Nat /\ Cardinality(L2) <= Cardinality(L)
  BY <1>5, <1>14, FS_Subset, FS_CardinalityType
<1>18. /\ Cardinality(A) \in Nat /\ Cardinality(B) \in Nat /\ Cardinality(L) \in Nat
       /\ Cardinality(R) \in Nat
  BY <1>5, FS_CardinalityType
<1>19. Cardinality(A) + Cardinality(B) + Cardinality(L) <= T
  BY <1>4, Zenon DEF Promised
<1>20. Cardinality(A2) + Cardinality(B2) + Cardinality(L2) <= T
  BY <1>9, <1>10, <1>15, <1>16, <1>17, <1>18, <1>19
<1>21. QED
  BY <1>4, <1>20, Zenon DEF Promised

(* What admission compares is in the tokens of a request and what it        *)
(* matches.                                                                 *)
LEMMA AdmitsIs ==
  ASSUME NEW C, PoolInv(C), NEW r \in Reqs, NEW growable, Admits(r, growable),
         NEW L, L = Locked(Live \cup {r}, PrefillHandle(r)),
         NEW m, m = MatchLen(r, InLen[r] - 1)
  PROVE  (InLen[r] - m) + OutLen[r] + Cardinality(Owed)
           <= Cardinality(free) + Cardinality(DOMAIN tree \ L) + growable
<1>1. Reserved = Cardinality(Owed)
  BY DEF Reserved, Owed
<1>2. Estimate(r) = (InLen[r] - m) + OutLen[r]
  BY DEF Estimate
<1>3. Available(growable, L) = Cardinality(free) + Cardinality(DOMAIN tree \ L) + growable
  BY DEF Available
<1>4. Estimate(r) + Reserved <= Available(growable, L)
  BY Zenon DEF Admits
<1>5. QED
  BY <1>1, <1>2, <1>3, <1>4

(* A prefill takes the pages of its prompt that are not cached, locks the   *)
(* others, and owes its output: all of it was available.                    *)
LEMMA PromisedPrefill ==
  ASSUME NEW C, PoolInv(C), NEW D, PoolInv(D)', Horizon = 0, NEW T \in Nat, Promised(T),
         NEW r \in Reqs, NEW f, NEW growable \in Nat, NEW E, Prefill(r, f, growable, E),
         Cardinality(C) + growable <= T
  PROVE  Promised(T)'
<1>1. PICK m : m = MatchLen(r, InLen[r] - 1)
  OBVIOUS
<1>2. /\ turn = "schedule" /\ st[r] = "new" /\ Admits(r, growable)
      /\ handle' = PrefillHandle(r) /\ DOMAIN tree' = DOMAIN tree \ E
      /\ CompleteOne({r}, [dev EXCEPT ![r] = InLen[r]])
  BY DEF Prefill, AllocatePaged
<1>3. TableInv(C) /\ TableInv(D)'
  BY DEF PoolInv
<1>4. /\ InLen[r] \in Nat \ {0} /\ OutLen[r] \in Nat \ {0} /\ MaxDeviceLen(r) = InLen[r] + OutLen[r]
      /\ MaxDeviceLen(r) <= Width /\ Width \in Nat
  BY LengthsAre
<1>5. /\ dev \in [Reqs -> Nat] /\ cached \in [Reqs -> Nat] /\ handle \in [Reqs -> Nat]
      /\ st \in [Reqs -> Statuses]
  BY <1>3 DEF TableInv, TableTypes
<1>6. /\ cached' = [q \in Reqs |-> IF q = r THEN InLen[r] ELSE cached[q]]
      /\ dev' = [q \in Reqs |-> IF q = r THEN InLen[r] + 1 ELSE dev[q]]
      /\ \A q \in Reqs : q # r => st'[q] = st[q]
      /\ st'[r] \in {"running", "last"}
  BY <1>2, <1>5 DEF CompleteOne
<1>7. m \in 0 .. (InLen[r] - 1) /\ handle' = [handle EXCEPT ![r] = m]
  <2>1. InLen[r] - 1 \in Nat
    BY <1>4
  <2>2. QED
    BY <1>1, <1>2, <2>1, MatchLenIs DEF PrefillHandle
<1>8. r \notin Live /\ Live' = Live \cup {r} /\ Running' \subseteq Running \cup {r}
  BY <1>2, <1>6 DEF Live, Running
<1>9. PICK A, A2, B, B2, L, L2 :
        /\ A = Owed /\ A2 = Owed' /\ B = Claims /\ B2 = Claims'
        /\ L = Locked(Live \cup {r}, PrefillHandle(r)) /\ L2 = Locked(Live, handle)'
  OBVIOUS
<1>10. IsFiniteSet(A) /\ IsFiniteSet(B) /\ IsFiniteSet(DOMAIN tree)
  BY <1>9, PromisedFinite
<1>11. PICK a \in Nat, b \in Nat : a = InLen[r] /\ b = OutLen[r]
  BY <1>4
<1>12. PICK P, N : P = {r} \X (1 .. (b - 1)) /\ N = {r} \X (m .. (a - 1))
  OBVIOUS
<1>13. IsFiniteSet(P) /\ Cardinality(P) \in Nat /\ Cardinality(P) <= b - 1
  <2>1. 1 \in Nat /\ 1 <= b
    BY <1>4, <1>11
  <2>2. QED
    BY <1>12, <2>1, SomePlaces
<1>14. IsFiniteSet(N) /\ Cardinality(N) \in Nat /\ Cardinality(N) <= a - m /\ m \in Nat /\ m < a
  <2>1. m \in Nat /\ m < a
    BY <1>4, <1>7, <1>11
  <2>2. PICK k \in Nat : k = m /\ k <= a
    BY <2>1
  <2>3. /\ IsFiniteSet({r} \X (k .. (a - 1)))
        /\ Cardinality({r} \X (k .. (a - 1))) <= a - k
        /\ Cardinality({r} \X (k .. (a - 1))) \in Nat
    BY <2>2, SomePlaces
  <2>4. N = {r} \X (k .. (a - 1))
    BY <1>12, <2>2, Zenon
  <2>5. IsFiniteSet(N) /\ Cardinality(N) <= a - k /\ Cardinality(N) \in Nat
    BY <2>3, <2>4, Zenon
  <2>6. QED
    BY <2>1, <2>2, <2>5
<1>15. A2 \subseteq A \cup P
  <2>1. ASSUME NEW x \in Owed'
        PROVE  x \in Owed \/ x \in P
    <3>1. /\ x \in Running' \X (1 .. Width) /\ x[2] <= MaxDeviceLen(x[1]) - dev'[x[1]]
      BY DEF Owed, MaxDeviceLen
    <3>2. PICK q \in Running', n \in 1 .. Width : x = <<q, n>>
      BY <3>1
    <3>3. q \in Reqs /\ n <= MaxDeviceLen(q) - dev'[q]
      BY <3>1, <3>2 DEF Running
    <3>4. CASE q = r
      <4>1. dev'[q] = a + 1 /\ MaxDeviceLen(q) = a + b
        BY <1>4, <1>6, <1>11, <3>4
      <4>2. n \in 1 .. (b - 1)
        BY <3>2, <3>3, <4>1
      <4>3. QED
        BY <1>12, <3>2, <3>4, <4>2
    <3>5. CASE q # r
      <4>1. q \in Running /\ dev'[q] = dev[q]
        BY <1>6, <1>8, <3>2, <3>3, <3>5
      <4>2. QED
        BY <3>2, <3>3, <4>1 DEF Owed
    <3>6. QED
      BY <3>4, <3>5
  <2>2. QED
    BY <1>9, <2>1
<1>16. B2 \subseteq B \cup N
  <2>1. ASSUME NEW x \in Claims'
        PROVE  x \in Claims \/ x \in N
    <3>1. /\ x \in Reqs \X Positions /\ x[1] \in Live'
          /\ handle'[x[1]] <= x[2] /\ x[2] < RowEnd(x[1])'
      BY DEF Claims
    <3>2. PICK q \in Reqs, j \in Positions : x = <<q, j>>
      BY <3>1
    <3>3. q \in Live' /\ handle'[q] <= j /\ j < RowEnd(q)'
      BY <3>1, <3>2
    <3>4. RowEnd(q)' = cached'[q]
      BY <1>3, <3>3, PlainEndsNext
    <3>5. j \in Int
      BY <3>2, RequestAssumption DEF Positions
    <3>6. CASE q = r
      <4>1. handle'[q] = m /\ cached'[q] = a
        BY <1>5, <1>6, <1>7, <1>11, <3>6
      <4>2. j \in m .. (a - 1)
        BY <1>14, <3>3, <3>4, <3>5, <4>1
      <4>3. QED
        BY <1>12, <3>2, <3>6, <4>2
    <3>7. CASE q # r
      <4>1. q \in Live /\ handle'[q] = handle[q] /\ cached'[q] = cached[q]
        BY <1>5, <1>6, <1>7, <1>8, <3>2, <3>3, <3>7
      <4>2. RowEnd(q) = cached[q]
        BY <1>3, <4>1, PlainEnds
      <4>3. QED
        BY <3>2, <3>3, <3>4, <4>1, <4>2 DEF Claims
    <3>8. QED
      BY <3>6, <3>7
  <2>2. QED
    BY <1>9, <2>1
<1>17. L2 \subseteq L /\ L \in SUBSET DOMAIN tree
  BY <1>2, <1>8, <1>9 DEF Locked
<1>18. Cardinality(A2) \in Nat /\ Cardinality(A2) <= Cardinality(A) + Cardinality(P)
  BY <1>10, <1>13, <1>15, AtMost
<1>19. Cardinality(B2) \in Nat /\ Cardinality(B2) <= Cardinality(B) + Cardinality(N)
  BY <1>10, <1>14, <1>16, AtMost
<1>20. Cardinality(L2) \in Nat /\ Cardinality(L2) <= Cardinality(L)
  <2>1. IsFiniteSet(L)
    BY <1>10, <1>17, FS_Subset
  <2>2. QED
    BY <1>17, <2>1, FS_Subset, FS_CardinalityType
<1>21. PICK e, x : e = Cardinality(DOMAIN tree \ L) /\ x = Cardinality(free)
  OBVIOUS
<1>22. /\ x + e + Cardinality(L) + Cardinality(B) = Cardinality(C)
       /\ x \in Nat /\ e \in Nat /\ Cardinality(L) \in Nat /\ Cardinality(B) \in Nat
  BY <1>9, <1>17, <1>21, PagesShared
<1>23. (a - m) + b + Cardinality(A) <= x + e + growable
  BY <1>1, <1>2, <1>9, <1>11, <1>21, AdmitsIs
<1>24. Cardinality(A) \in Nat
  BY <1>10, FS_CardinalityType
<1>25. Cardinality(A2) + Cardinality(B2) + Cardinality(L2) <= T
  <2>1. Cardinality(C) \in Int
    BY <1>22
  <2>2. QED
    BY <1>13, <1>14, <1>18, <1>19, <1>20, <1>22, <1>23, <1>24, <2>1
<1>26. QED
  BY <1>9, <1>25, Zenon DEF Promised

(* The results of a batch: what a row owned the prefix cache locks for it,  *)
(* or nobody.                                                               *)
LEMMA PromisedUnfinished ==
  ASSUME NEW C, PoolInv(C), NEW D, PoolInv(D)', Horizon = 0, NEW T \in Nat, Promised(T),
         NEW r \in Reqs, Process(r), CommitUnfinished(r)
  PROVE  Promised(T)'
<1>1. /\ r \in last.reqs /\ handle' = [handle EXCEPT ![r] = cached[r]]
      /\ st' = st /\ dev' = dev /\ cached' = cached /\ alloc' = alloc
  BY DEF Process, ToCommit, CommitUnfinished
<1>2. TableInv(C) /\ TableInv(D)'
  BY DEF PoolInv
<1>3. r \in Live /\ handle \in [Reqs -> Nat] /\ Live' = Live /\ Running' = Running
  BY <1>1, <1>2 DEF TableInv, TableTypes, Live, Running
<1>4. PICK h \in Nat, c \in Nat : h = handle[r] /\ c = cached[r] /\ h <= c /\ c < Width
  BY <1>2, <1>3, PlainEnds
<1>5. PICK A, A2, B, B2, L, L2 :
        /\ A = Owed /\ A2 = Owed' /\ B = Claims /\ B2 = Claims'
        /\ L = Locked(Live, handle) /\ L2 = Locked(Live, handle)'
  OBVIOUS
<1>6. IsFiniteSet(A) /\ IsFiniteSet(B) /\ IsFiniteSet(L)
  BY <1>5, PromisedFinite
<1>7. A2 = A
  BY <1>1, <1>3, <1>5 DEF Owed, MaxDeviceLen
<1>8. PICK K, F : K = {r} \X (h .. (c - 1)) /\ F = [x \in K |-> Tok(r, x[2] + 1)]
  OBVIOUS
<1>9. PICK M : M = {Tok(r, i) : i \in (h + 1) .. c}
  OBVIOUS
<1>10. K \subseteq B
  <2>1. RowEnd(r) = c
    BY <1>2, <1>3, <1>4, PlainEnds
  <2>2. ASSUME NEW j \in h .. (c - 1)
        PROVE  <<r, j>> \in Claims
    <3>1. j \in Positions /\ h <= j /\ j < c
      BY <1>4, RequestAssumption DEF Positions
    <3>2. QED
      BY <1>3, <1>4, <2>1, <3>1 DEF Claims
  <2>3. QED
    BY <1>5, <1>8, <2>2
<1>11. IsFiniteSet(K)
  BY <1>6, <1>10, FS_Subset
<1>12. IsFiniteSet(M) /\ Cardinality(M) <= Cardinality(K)
  <2>1. ASSUME NEW p \in M
        PROVE  \E x \in K : F[x] = p
    <3>1. PICK i \in (h + 1) .. c : p = Tok(r, i)
      BY <1>9
    <3>2. PICK j \in h .. (c - 1) : j + 1 = i
      <4>1. i - 1 \in h .. (c - 1) /\ (i - 1) + 1 = i
        BY <3>1
      <4>2. QED
        BY <4>1
    <3>3. <<r, j>> \in K /\ <<r, j>>[2] = j
      BY <1>8, <3>2
    <3> HIDE DEF Tok
    <3>4. F[<<r, j>>] = Tok(r, j + 1)
      BY <1>8, <3>3
    <3>5. QED
      BY <3>1, <3>2, <3>3, <3>4
  <2>2. F = [x \in K |-> F[x]]
    BY <1>8
  <2>3. QED
    BY <1>11, <2>1, <2>2, ImageCount
<1>13. B2 \subseteq B \ K
  <2>1. ASSUME NEW x \in Claims'
        PROVE  x \in Claims /\ x \notin K
    <3>1. /\ x \in Reqs \X Positions /\ x[1] \in Live'
          /\ handle'[x[1]] <= x[2] /\ x[2] < RowEnd(x[1])'
      BY DEF Claims
    <3>2. PICK q \in Reqs, j \in Positions : x = <<q, j>>
      BY <3>1
    <3>3. q \in Live /\ handle'[q] <= j /\ j < RowEnd(q)'
      BY <1>3, <3>1, <3>2
    <3>4. RowEnd(q)' = cached[q] /\ RowEnd(q) = cached[q] /\ cached[q] \in Nat
      BY <1>1, <1>2, <1>3, <3>3, PlainEnds, PlainEndsNext
    <3>5. j \in Int
      BY <3>2, RequestAssumption DEF Positions
    <3>6. q # r
      <4>1. SUFFICES ASSUME q = r
                     PROVE  FALSE
        OBVIOUS
      <4>2. handle'[q] = cached[q]
        BY <1>1, <1>3, <4>1
      <4>3. QED
        BY <3>3, <3>4, <3>5, <4>2
    <3>7. handle'[q] = handle[q]
      BY <1>1, <1>3, <3>6
    <3>8. x \in Claims
      BY <3>2, <3>3, <3>4, <3>7 DEF Claims
    <3>9. x \notin K
      BY <1>8, <3>2, <3>6
    <3>10. QED
      BY <3>8, <3>9
  <2>2. QED
    BY <1>5, <2>1
<1>14. L2 \subseteq L \cup M
  <2>1. ASSUME NEW k \in L2
        PROVE  k \in L \/ k \in M
    <3>1. PICK q \in Live : \E i \in 1 .. handle'[q] : k = Tok(q, i)
      BY <1>3, <1>5 DEF Locked, Tok
    <3>2. PICK i \in 1 .. handle'[q] : k = Tok(q, i)
      BY <3>1
    <3>3. handle[q] \in Nat /\ q \in Reqs
      BY <1>2, <3>1, PlainEnds
    <3>4. CASE q = r
      <4>1. handle'[q] = c
        BY <1>1, <1>3, <1>4, <3>4
      <4>2. CASE i <= h
        <5>1. i \in 1 .. handle[q]
          BY <1>4, <3>2, <3>4, <4>1, <4>2
        <5>2. k \in DOMAIN tree
          BY <1>2, <3>1, <3>2, <5>1 DEF TableInv, Shared
        <5>3. QED
          BY <1>5, <3>1, <3>2, <5>1, <5>2 DEF Locked
      <4>3. CASE ~(i <= h)
        <5>1. i \in (h + 1) .. c
          BY <1>4, <3>2, <4>1, <4>3
        <5>2. QED
          BY <1>9, <3>2, <3>4, <5>1
      <4>4. QED
        BY <4>2, <4>3
    <3>5. CASE q # r
      <4>1. i \in 1 .. handle[q]
        BY <1>1, <1>3, <3>2, <3>3, <3>5
      <4>2. k \in DOMAIN tree
        BY <1>2, <3>1, <3>2, <4>1 DEF TableInv, Shared
      <4>3. QED
        BY <1>5, <3>1, <3>2, <4>1, <4>2 DEF Locked
    <3>6. QED
      BY <3>4, <3>5
  <2>2. QED
    BY <2>1
<1>15. Cardinality(B2) \in Nat /\ Cardinality(B2) + Cardinality(K) <= Cardinality(B)
  BY <1>6, <1>10, <1>13, Without
<1>16. Cardinality(L2) \in Nat /\ Cardinality(L2) <= Cardinality(L) + Cardinality(M)
  BY <1>6, <1>12, <1>14, AtMost
<1>17. /\ Cardinality(A) \in Nat /\ Cardinality(B) \in Nat /\ Cardinality(L) \in Nat
       /\ Cardinality(K) \in Nat /\ Cardinality(M) \in Nat
  BY <1>6, <1>11, <1>12, FS_CardinalityType
<1>18. Cardinality(A) + Cardinality(B) + Cardinality(L) <= T
  BY <1>5, Zenon DEF Promised
<1>19. Cardinality(A2) + Cardinality(B2) + Cardinality(L2) <= T
  BY <1>7, <1>12, <1>15, <1>16, <1>17, <1>18
<1>20. QED
  BY <1>5, <1>19, Zenon DEF Promised

(* The last results of a request: it owes nothing, and owns and locks       *)
(* nothing any more.                                                        *)
LEMMA PromisedFinished ==
  ASSUME NEW C, PoolInv(C), NEW D, PoolInv(D)', Horizon = 0, NEW T \in Nat, Promised(T),
         NEW r \in Reqs, Process(r), CommitFinished(r)
  PROVE  Promised(T)'
<1>1. /\ handle' = [handle EXCEPT ![r] = 0] /\ st' = [st EXCEPT ![r] = "done"]
      /\ st[r] = "last" /\ dev' = dev /\ cached' = cached /\ alloc' = alloc
  BY DEF Process, CommitFinished, Finished
<1>2. TableInv(C) /\ st \in [Reqs -> Statuses] /\ handle \in [Reqs -> Nat]
  BY DEF PoolInv, TableInv, TableTypes
<1>3. Live' = Live \ {r} /\ Running' = Running
  BY <1>1, <1>2 DEF Live, Running
<1>4. \A q \in Live' : q \in Live /\ handle'[q] = handle[q] /\ RowEnd(q)' = RowEnd(q)
  BY <1>1, <1>2, <1>3 DEF Live, RowEnd
<1>5. Owed' \subseteq Owed
  BY <1>1, <1>3 DEF Owed, MaxDeviceLen
<1>6. Claims' \subseteq Claims
  BY <1>4 DEF Claims
<1>7. Locked(Live, handle)' \subseteq Locked(Live, handle)
  <2>1. ASSUME NEW k \in Locked(Live, handle)'
        PROVE  k \in Locked(Live, handle)
    <3>1. PICK q \in Live' : \E i \in 1 .. handle'[q] : k = Tok(q, i)
      BY <2>1 DEF Locked, Tok
    <3>2. PICK i \in 1 .. handle[q] : k = Tok(q, i)
      BY <1>4, <3>1
    <3>3. q \in Live /\ k \in DOMAIN tree
      BY <1>2, <1>4, <3>2 DEF TableInv, Shared
    <3>4. QED
      BY <3>2, <3>3 DEF Locked
  <2>2. QED
    BY <2>1
<1>8. QED
  BY <1>5, <1>6, <1>7, PromisedSame

(* A step that leaves the pages and the requests as they are.               *)
LEMMA PromisedStays ==
  ASSUME NEW T, Promised(T), UNCHANGED <<poolVars, reqVars>>
  PROVE  Promised(T)'
<1>1. /\ tree' = tree /\ alloc' = alloc /\ st' = st /\ cached' = cached /\ dev' = dev
      /\ handle' = handle
  BY DEF poolVars, reqVars
<1>2. Live' = Live /\ Running' = Running
  BY <1>1 DEF Live, Running
<1>3. Owed' = Owed /\ Claims' = Claims
  BY <1>1, <1>2 DEF Owed, Claims, MaxDeviceLen, RowEnd
<1>4. Locked(Live, handle)' = Locked(Live, handle)
  BY <1>1, <1>2 DEF Locked, Tok
<1>5. QED
  BY <1>3, <1>4 DEF Promised

LEMMA PromisedProcess ==
  ASSUME NEW C, PoolInv(C), NEW D, PoolInv(D)', Horizon = 0, NEW T \in Nat, Promised(T),
         ProcessStep
  PROVE  Promised(T)'
<1>1. ASSUME NEW r \in Reqs, Process(r)
      PROVE  Promised(T)'
  <2>1. CASE CommitUnfinished(r)
    BY <1>1, <2>1, PromisedUnfinished
  <2>2. CASE CommitFinished(r)
    BY <1>1, <2>2, PromisedFinished
  <2>3. QED
    BY <1>1, <2>1, <2>2 DEF Process
<1>2. CASE EndTurn
  <2>1. UNCHANGED <<poolVars, reqVars>>
    BY <1>2 DEF EndTurn
  <2>2. QED
    BY <2>1, PromisedStays
<1>3. QED
  BY <1>1, <1>2 DEF ProcessStep

(* At startup nothing is owed, owned or locked.                             *)
LEMMA PromisedInit ==
  ASSUME Init, NEW T \in Nat
  PROVE  Promised(T)
<1>1. st = [r \in Reqs |-> "new"]
  BY DEF Init
<1>2. Live = {} /\ Running = {}
  BY <1>1 DEF Live, Running
<1>3. Owed = {} /\ Claims = {} /\ Locked(Live, handle) = {}
  BY <1>2 DEF Owed, Claims, Locked
<1>4. QED
  BY <1>3, FS_EmptySet DEF Promised

(* The handles hd of the requests R lie within their lengths.               *)
Within(R, hd) == \A r \in R : hd[r] \in Nat /\ hd[r] <= MaxDeviceLen(r)

LEMMA HandlesWithin ==
  ASSUME NEW C, PoolInv(C)
  PROVE  TreeClosed /\ Live \in SUBSET Reqs /\ Within(Live, handle)
<1>1. ASSUME NEW r \in Live
      PROVE  handle[r] \in Nat /\ handle[r] <= MaxDeviceLen(r)
  <2>1. /\ r \in Reqs /\ handle[r] \in Nat /\ cached[r] \in Nat /\ handle[r] <= cached[r]
        /\ dev[r] = cached[r] + 1 /\ dev[r] <= MaxDeviceLen(r) /\ MaxDeviceLen(r) \in Nat
    BY RowEnds, LengthsAre DEF PoolInv, TableInv
  <2>2. QED
    BY <2>1
<1>2. QED
  BY <1>1 DEF PoolInv, TableInv, Live, Within

(* What the prefix cache may evict is closed: a locked prefix has all its   *)
(* prefixes locked.                                                         *)
LEMMA LockedClosed ==
  ASSUME TreeClosed, NEW R \in SUBSET Reqs, NEW hd, Within(R, hd), NEW L, L = Locked(R, hd),
         NEW j \in DOMAIN tree \ L, NEW k \in DOMAIN tree, Extends(k, j)
  PROVE  k \notin L
<1> SUFFICES ASSUME k \in L
             PROVE  FALSE
  OBVIOUS
<1>1. PICK r \in R : \E i \in 1 .. hd[r] : k = Tok(r, i)
  BY DEF Locked
<1>2. PICK i \in 1 .. hd[r] : k = Tok(r, i)
  BY <1>1
<1>3. r \in Reqs /\ hd[r] \in Nat /\ hd[r] <= MaxDeviceLen(r) /\ MaxDeviceLen(r) \in Nat
  BY LengthsAre DEF Within
<1>4. PICK q \in Reqs : \E m \in 1 .. MaxDeviceLen(q) : j = Tok(q, m)
  BY DEF TreeClosed
<1>5. PICK m \in 1 .. MaxDeviceLen(q) : j = Tok(q, m)
  BY <1>4
<1>6. MaxDeviceLen(q) \in Nat /\ m \in 0 .. MaxDeviceLen(q)
  BY LengthsAre
<1>7. Len(j) = m
  BY <1>5, <1>6, TokIs
<1>8. i \in 0 .. MaxDeviceLen(r)
  BY <1>3
<1>9. Len(k) = i /\ \A n \in 0 .. i : SubSeq(k, 1, n) = Tok(r, n)
  BY <1>2, <1>3, <1>8, TokIs
<1>10. m < i /\ SubSeq(k, 1, m) = j
  BY <1>7, <1>9 DEF Extends
<1>11. m \in 0 .. i /\ m \in 1 .. hd[r]
  BY <1>3, <1>6, <1>10
<1>12. j = Tok(r, m)
  BY <1>9, <1>10, <1>11
<1>13. j \in L
  BY <1>11, <1>12 DEF Locked
<1>14. QED
  BY <1>13

(* Everything unlocked may be evicted: the prefix cache gives as many pages *)
(* as it has unlocked.                                                      *)
LEMMA ServedIf ==
  ASSUME TreeClosed, NEW R \in SUBSET Reqs, NEW hd, Within(R, hd), NEW L, L = Locked(R, hd),
         NEW S, IsFiniteSet(S), NEW f, IsFiniteSet(f), IsFiniteSet(DOMAIN tree \ L),
         Cardinality(S) <= Cardinality(f) + Cardinality(DOMAIN tree \ L)
  PROVE  Served(S, f, L)
<1>1. PICK U : U = DOMAIN tree \ L
  OBVIOUS
<1>2. PICK n \in Int : n = Cardinality(S) - Cardinality(f) /\ Cardinality(U) >= n
  <2>1. Cardinality(S) \in Nat /\ Cardinality(f) \in Nat /\ Cardinality(U) \in Nat
    BY <1>1, FS_CardinalityType
  <2>2. Cardinality(S) <= Cardinality(f) + Cardinality(U)
    BY <1>1
  <2>3. /\ Cardinality(S) - Cardinality(f) \in Int
        /\ Cardinality(U) >= Cardinality(S) - Cardinality(f)
    BY <2>1, <2>2
  <2>4. QED
    BY <2>3
<1>3. \A j \in U : \A k \in DOMAIN tree : Extends(k, j) => k \in U
  BY <1>1, LockedClosed
<1>4. CASE n <= 0
  <2>1. Evictions(n, L) = {{}}
    BY <1>4 DEF Evictions
  <2>2. QED
    BY <1>2, <2>1 DEF Served
<1>5. CASE ~(n <= 0)
  <2>1. U \in Evictions(n, L)
    BY <1>1, <1>2, <1>3, <1>5 DEF Evictions
  <2>2. QED
    BY <1>2, <2>1 DEF Served
<1>6. QED
  BY <1>4, <1>5

(* A decode step needs no more than the running requests owe.               *)
LEMMA DecodeNeedCount ==
  ASSUME NEW C, PoolInv(C), Horizon = 0
  PROVE  IsFiniteSet(DecodeNeed) /\ Cardinality(DecodeNeed) <= Cardinality(Owed)
<1>1. PICK A, S, F : A = Owed /\ S = DecodeNeed /\ F = [x \in A |-> <<x[1], cached[x[1]]>>]
  OBVIOUS
<1>2. IsFiniteSet(A) /\ F = [x \in A |-> F[x]]
  BY <1>1, PromisedFinite
<1>3. HorizonNow = 0
  BY DEF HorizonNow
<1>4. ASSUME NEW y \in DecodeNeed
      PROVE  \E x \in A : F[x] = y
  <2>1. PICK r \in Running, j \in Positions : y = <<r, j>> /\ cached[r] <= j /\ j < dev[r]
    <3>1. /\ y \in Running \X Positions
          /\ FirstPage(y[1], cached[y[1]]) <= y[2] /\ y[2] < LastPage(y[1], dev[y[1]])
      BY DEF DecodeNeed, Needed
    <3>2. cached[y[1]] <= y[2] /\ y[2] < dev[y[1]]
      BY <1>3, <3>1 DEF FirstPage, LastPage
    <3>3. QED
      BY <3>1, <3>2
  <2>2. r \in Live /\ r \in Reqs /\ st[r] = "running"
    BY DEF Running, Live
  <2>3. dev[r] = cached[r] + 1 /\ cached[r] \in Nat /\ dev[r] < MaxDeviceLen(r)
    BY <2>2, RowEnds DEF PoolInv, TableInv, Lengths
  <2>4. MaxDeviceLen(r) \in Nat /\ MaxDeviceLen(r) <= Width /\ Width \in Nat
    BY <2>2, LengthsAre
  <2>5. 1 \in 1 .. Width /\ 1 <= MaxDeviceLen(r) - dev[r]
    BY <2>3, <2>4
  <2>6. <<r, 1>> \in Owed
    BY <2>5 DEF Owed
  <2>7. j = cached[r]
    BY <2>1, <2>3, RequestAssumption DEF Positions
  <2>8. F[<<r, 1>>] = y
    BY <1>1, <2>1, <2>6, <2>7
  <2>9. QED
    BY <1>1, <2>6, <2>8
<1>5. \A y \in S : \E x \in A : F[x] = y
  BY <1>1, <1>4
<1>6. IsFiniteSet(S) /\ Cardinality(S) <= Cardinality(A)
  BY <1>2, <1>5, ImageCount
<1>7. QED
  BY <1>1, <1>6

(* A prefill needs the pages of its prompt that are not cached.             *)
LEMMA PrefillNeedCount ==
  ASSUME NEW C, PoolInv(C), Horizon = 0, NEW r \in Reqs,
         NEW m, m = MatchLen(r, InLen[r] - 1)
  PROVE  /\ IsFiniteSet(PrefillNeed(r)) /\ Cardinality(PrefillNeed(r)) <= InLen[r] - m
         /\ m \in Nat /\ m < InLen[r] /\ PrefillHandle(r) = [handle EXCEPT ![r] = m]
<1>1. InLen[r] \in Nat \ {0}
  BY LengthsAre
<1>2. m \in 0 .. (InLen[r] - 1)
  <2>1. InLen[r] - 1 \in Nat
    BY <1>1
  <2>2. QED
    BY <2>1, MatchLenIs
<1>3. PICK k \in Nat, a \in Nat : k = m /\ a = InLen[r] /\ k < a /\ k <= a
  BY <1>1, <1>2
<1>4. PICK N : N = {r} \X (k .. (a - 1))
  OBVIOUS
<1>5. IsFiniteSet(N) /\ Cardinality(N) <= a - k /\ Cardinality(N) \in Nat
  BY <1>3, <1>4, SomePlaces
<1>6. PrefillHandle(r) = [handle EXCEPT ![r] = m]
  BY DEF PrefillHandle
<1>7. PrefillHandle(r)[r] = k /\ [dev EXCEPT ![r] = InLen[r]][r] = a
  BY <1>3, <1>6 DEF PoolInv, TableInv, TableTypes
<1>8. HorizonNow = 0
  BY DEF HorizonNow
<1>9. PrefillNeed(r) \subseteq N
  <2>1. ASSUME NEW y \in PrefillNeed(r)
        PROVE  y \in N
    <3>1. PICK c, d : c = PrefillHandle(r) /\ d = [dev EXCEPT ![r] = InLen[r]]
      OBVIOUS
    <3>2. /\ y \in {r} \X Positions
          /\ FirstPage(y[1], c[y[1]]) <= y[2] /\ y[2] < LastPage(y[1], d[y[1]])
      BY <3>1 DEF PrefillNeed, Needed
    <3>3. y[1] = r /\ y[2] \in Int /\ y = <<y[1], y[2]>>
      BY <3>2, RequestAssumption DEF Positions
    <3>4. k <= y[2] /\ y[2] < a
      BY <1>7, <1>8, <3>1, <3>2, <3>3 DEF FirstPage, LastPage
    <3>5. QED
      BY <1>4, <3>3, <3>4
  <2>2. QED
    BY <2>1
<1>10. IsFiniteSet(PrefillNeed(r)) /\ Cardinality(PrefillNeed(r)) <= Cardinality(N)
  BY <1>5, <1>9, FS_Subset
<1>11. Cardinality(PrefillNeed(r)) \in Nat
  BY <1>10, FS_CardinalityType
<1>12. QED
  BY <1>3, <1>5, <1>6, <1>10, <1>11

(* The free pages f a decode step finds, x of them new: either they and     *)
(* what is unlocked suffice, or the pool is all there is, and it was        *)
(* promised.                                                                *)
LEMMA DecodeServed ==
  ASSUME NEW C, PoolInv(C), Horizon = 0, NEW T \in Nat, Promised(T),
         NEW L, L = Locked(Live, handle),
         NEW f, IsFiniteSet(f), NEW x \in Nat, Cardinality(f) = Cardinality(free) + x,
         \/ Cardinality(DecodeNeed) <= Cardinality(free) + Cardinality(DOMAIN tree \ L) + x
         \/ T <= Cardinality(C) + x
  PROVE  Served(DecodeNeed, f, L)
<1>1. PICK S, A, U : S = DecodeNeed /\ A = Owed /\ U = DOMAIN tree \ L
  OBVIOUS
<1>2. /\ IsFiniteSet(S) /\ Cardinality(S) <= Cardinality(A) /\ IsFiniteSet(A) /\ IsFiniteSet(U)
  BY <1>1, DecodeNeedCount, PromisedFinite, FS_Subset
<1>3. L \in SUBSET DOMAIN tree
  BY DEF Locked
<1>4. /\ Cardinality(free) + Cardinality(U) + Cardinality(L) + Cardinality(Claims) = Cardinality(C)
      /\ Cardinality(free) \in Nat /\ Cardinality(U) \in Nat
      /\ Cardinality(L) \in Nat /\ Cardinality(Claims) \in Nat
  BY <1>1, <1>3, PagesShared
<1>5. Cardinality(A) + Cardinality(Claims) + Cardinality(L) <= T
  BY <1>1 DEF Promised
<1>6. Cardinality(S) \in Nat /\ Cardinality(A) \in Nat
  BY <1>2, FS_CardinalityType
<1>7. Cardinality(S) <= Cardinality(f) + Cardinality(U)
  <2>1. \/ Cardinality(S) <= Cardinality(free) + Cardinality(U) + x
        \/ T <= Cardinality(C) + x
    BY <1>1
  <2>2. Cardinality(C) \in Nat
    BY <1>4
  <2>3. QED
    BY <1>2, <1>4, <1>5, <1>6, <2>1, <2>2
<1>8. TreeClosed /\ Live \in SUBSET Reqs /\ Within(Live, handle)
  BY HandlesWithin
<1>9. PICK R, hd : R = Live /\ hd = handle
  OBVIOUS
<1>10. QED
  BY <1>1, <1>2, <1>7, <1>8, <1>9, ServedIf

(* The same for the prefill of a request that is admitted.                  *)
LEMMA PrefillServed ==
  ASSUME NEW C, PoolInv(C), Horizon = 0, NEW r \in Reqs, st[r] = "new",
         NEW growable \in Nat, Admits(r, growable),
         NEW L, L = Locked(Live \cup {r}, PrefillHandle(r)),
         NEW f, IsFiniteSet(f), NEW x \in Nat, Cardinality(f) = Cardinality(free) + x,
         \/ Cardinality(PrefillNeed(r)) <= Cardinality(free) + Cardinality(DOMAIN tree \ L) + x
         \/ growable <= x
  PROVE  Served(PrefillNeed(r), f, L)
<1>1. PICK S, U, m : S = PrefillNeed(r) /\ U = DOMAIN tree \ L /\ m = MatchLen(r, InLen[r] - 1)
  OBVIOUS
<1>2. /\ IsFiniteSet(S) /\ Cardinality(S) <= InLen[r] - m
      /\ m \in Nat /\ m < InLen[r] /\ PrefillHandle(r) = [handle EXCEPT ![r] = m]
  BY <1>1, PrefillNeedCount
<1>3. IsFiniteSet(U) /\ IsFiniteSet(free) /\ IsFiniteSet(Owed)
  BY <1>1, PromisedFinite, FS_Subset
<1>4. /\ InLen[r] \in Nat \ {0} /\ OutLen[r] \in Nat \ {0} /\ MaxDeviceLen(r) \in Nat
      /\ MaxDeviceLen(r) = InLen[r] + OutLen[r]
  BY LengthsAre
<1>5. (InLen[r] - m) + OutLen[r] + Cardinality(Owed)
        <= Cardinality(free) + Cardinality(U) + growable
  BY <1>1, AdmitsIs
<1>6. /\ Cardinality(S) \in Nat /\ Cardinality(U) \in Nat /\ Cardinality(free) \in Nat
      /\ Cardinality(Owed) \in Nat
  BY <1>2, <1>3, FS_CardinalityType
<1>7. Cardinality(S) <= Cardinality(f) + Cardinality(U)
  <2>1. \/ Cardinality(S) <= Cardinality(free) + Cardinality(U) + x
        \/ growable <= x
    BY <1>1
  <2>2. PICK a \in Nat, b \in Nat : a = InLen[r] /\ b = OutLen[r]
    BY <1>4
  <2>3. QED
    BY <1>2, <1>5, <1>6, <2>1, <2>2
<1>8. PICK R, hd : R = Live \cup {r} /\ hd = PrefillHandle(r)
  OBVIOUS
<1>9. TreeClosed /\ R \in SUBSET Reqs /\ Within(R, hd)
  <2>1. handle \in [Reqs -> Nat] /\ hd[r] = m
    BY <1>2, <1>8 DEF PoolInv, TableInv, TableTypes
  <2>2. m <= MaxDeviceLen(r)
    BY <1>2, <1>4
  <2>3. ASSUME NEW q \in Live
        PROVE  hd[q] \in Nat /\ hd[q] <= MaxDeviceLen(q)
    <3>1. q \in Reqs /\ handle[q] \in Nat /\ handle[q] <= MaxDeviceLen(q)
      BY HandlesWithin DEF Within
    <3>2. hd[q] = IF q = r THEN m ELSE handle[q]
      BY <1>2, <1>8, <2>1, <3>1
    <3>3. QED
      BY <1>2, <2>2, <3>1, <3>2
  <2>4. QED
    BY <1>2, <1>8, <2>1, <2>2, <2>3, HandlesWithin DEF Within
<1>10. QED
  BY <1>1, <1>2, <1>3, <1>7, <1>8, <1>9, ServedIf

(* Every step keeps what was promised, over a pool that does not grow.      *)
LEMMA NextPromised ==
  ASSUME NEW C, C = InitialFree, PoolInv(C), PoolInv(C)', Horizon = 0,
         NEW T \in Nat, T = Cardinality(C), Promised(T), [Next]_vars
  PROVE  Promised(T)'
<1>1. ASSUME NEW r \in Reqs, NEW E, Prefill(r, free, 0, E)
      PROVE  Promised(T)'
  <2>1. PICK f, z : f = free /\ z = 0 /\ z \in Nat
    OBVIOUS
  <2>2. Prefill(r, f, z, E) /\ Cardinality(C) + z <= T
    BY <1>1, <2>1
  <2>3. QED
    BY <2>1, <2>2, PromisedPrefill
<1>2. ASSUME NEW E, DecodePop(free, E) \/ DecodeRound(free, E) \/ DecodePlain(free, E)
      PROVE  Promised(T)'
  <2>1. PICK f : f = free
    OBVIOUS
  <2>2. DecodeAlloc(f, E)
    BY <1>2, <2>1, Zenon DEF DecodePop, DecodeRound, DecodePlain
  <2>3. QED
    BY <2>2, PromisedDecode
<1>3. CASE ScheduleNone \/ UNCHANGED vars
  BY <1>3, PromisedStays DEF ScheduleNone, vars
<1>4. CASE ProcessStep
  BY <1>4, PromisedProcess
<1>5. QED
  BY <1>1, <1>2, <1>3, <1>4 DEF Next, Schedule

(* The free pages a prefill finds when nothing can grow.                    *)
FreeFor(r) == free

(* With MTP off and no growth, admission keeps its promise (_try_add_one    *)
(* reserves estimated_len beside reserved_size): neither the next decode    *)
(* step nor the prefill of a request it admits meets the assertion of       *)
(* _allocate.                                                               *)
THEOREM AdmissionKept ==
  ASSUME Horizon = 0
  PROVE  Spec => []NextBatchServed(0, free, FreeFor)
<1>1. PICK T \in Nat : T = Cardinality(InitialFree)
  <2>1. IsFiniteSet(InitialFree)
    BY PagesFinite, RequestAssumption, FS_Subset, Zenon
  <2>2. QED
    BY <2>1, FS_CardinalityType
<1>2. Init => PoolInv(InitialFree) /\ Promised(T)
  BY InitPool, PromisedInit
<1>3. PoolInv(InitialFree) /\ Promised(T) /\ [Next]_vars => (PoolInv(InitialFree) /\ Promised(T))'
  <2>1. SUFFICES ASSUME PoolInv(InitialFree), Promised(T), [Next]_vars
                 PROVE  PoolInv(InitialFree)' /\ Promised(T)'
    OBVIOUS
  <2>2. PoolInv(InitialFree)'
    BY <2>1, NextPool DEF Steady
  <2>3. QED
    BY <1>1, <2>1, <2>2, NextPromised
<1>4. PoolInv(InitialFree) /\ Promised(T) => NextBatchServed(0, free, FreeFor)
  <2>1. SUFFICES ASSUME PoolInv(InitialFree), Promised(T), turn = "schedule"
                 PROVE  /\ Running # {} => Served(DecodeNeed, free, Locked(Live, handle))
                        /\ \A r \in Reqs : st[r] = "new" /\ Admits(r, 0) =>
                             Served(PrefillNeed(r), free, Locked(Live \cup {r}, PrefillHandle(r)))
    BY DEF NextBatchServed, FreeFor
  <2>2. PICK f, z : f = free /\ z = 0 /\ z \in Nat
    OBVIOUS
  <2>3. IsFiniteSet(f) /\ Cardinality(f) = Cardinality(free) + z
    BY <2>1, <2>2, PromisedFinite, FS_CardinalityType
  <2>4. Served(DecodeNeed, f, Locked(Live, handle))
    <3>1. T <= Cardinality(InitialFree) + z
      BY <1>1, <2>2
    <3>2. QED
      BY <2>1, <2>2, <2>3, <3>1, DecodeServed
  <2>5. ASSUME NEW r \in Reqs, st[r] = "new", Admits(r, z)
        PROVE  Served(PrefillNeed(r), f, Locked(Live \cup {r}, PrefillHandle(r)))
    <3>1. z <= z
      BY <2>2
    <3>2. QED
      BY <2>1, <2>2, <2>3, <2>5, <3>1, PrefillServed
  <2>6. QED
    BY <2>2, <2>4, <2>5
<1>5. QED
  BY <1>2, <1>3, <1>4, PTL DEF Spec

=============================================================================
