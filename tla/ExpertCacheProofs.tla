-------------------------- MODULE ExpertCacheProofs --------------------------
(***************************************************************************)
(* Proofs about ExpertCache for every number of layers, experts, slots and *)
(* chunks.  The inductive invariant IInv adds three facts: AllMapped, only *)
(* an elastic server has retired slots (a reset rewrites every key, pins   *)
(* included), Clock, how far the step counter can get, and Guarded, why    *)
(* the slots a GEMM reads are safe: their guard is exactly the call that   *)
(* could otherwise evict them.                                             *)
(***************************************************************************)
EXTENDS ExpertCache, FiniteSetTheorems, FunctionTheorems, TLAPS

(* The victim maps the kernels compute: injective, into usable slots.      *)
IsLoad(f, q) ==
  /\ f \in [Missing(q) -> Slots]
  /\ IsInjective(f)

LEMMA RangeSlots ==
  ASSUME NEW q, NEW f, f \in [Missing(q) -> Slots]
  PROVE  Range(f) \subseteq Slots
BY DEF Range

(* The id found in a filled slot is the id the loop put there.             *)
LEMMA LoadedInverse ==
  ASSUME NEW q, NEW f, IsLoad(f, q)
  PROVE  /\ \A s \in Range(f) : Loaded(f, s) \in Missing(q) /\ f[Loaded(f, s)] = s
         /\ \A i \in Missing(q) : f[i] \in Range(f) /\ Loaded(f, f[i]) = i
<1>1. ASSUME NEW s \in Range(f)
      PROVE  Loaded(f, s) \in Missing(q) /\ f[Loaded(f, s)] = s
  <2>1. \E i \in DOMAIN f : f[i] = s
    BY DEF Range
  <2>2. QED
    BY <2>1 DEF Loaded, IsLoad
<1>2. ASSUME NEW i \in Missing(q)
      PROVE  f[i] \in Range(f) /\ Loaded(f, f[i]) = i
  <2>1. i \in DOMAIN f
    BY DEF IsLoad
  <2>2. f[i] \in Range(f)
    BY <2>1 DEF Range
  <2>3. Loaded(f, f[i]) \in DOMAIN f /\ f[Loaded(f, f[i])] = f[i]
    BY <1>1, <2>2 DEF IsLoad
  <2>4. QED
    BY <2>1, <2>2, <2>3 DEF IsLoad, IsInjective
<1>3. QED
  BY <1>1, <1>2

MapType ==
  /\ slotOf \in [Ids -> Slots \cup {NoSlot}]
  /\ idOf \in [Slots -> Ids \cup {NoId}]

(* Mapping a set of misses over their victims keeps the two tables inverse *)
(* of each other.                                                          *)
LEMMA InstallKeepsMap ==
  ASSUME MapType, MapInverse, NEW q \in SUBSET Ids, NEW f, IsLoad(f, q), Install(f)
  PROVE  MapType' /\ MapInverse'
<1>1. MapType'
  <2>1. slotOf' \in [Ids -> Slots \cup {NoSlot}]
    BY DEF MapType, Install, IsLoad
  <2>2. \A s \in Range(f) : Loaded(f, s) \in Ids
    BY LoadedInverse DEF Missing
  <2>3. idOf' \in [Slots -> Ids \cup {NoId}]
    BY <2>2 DEF MapType, Install
  <2>4. QED
    BY <2>1, <2>3 DEF MapType
<1>2. ASSUME NEW i \in Ids, slotOf'[i] # NoSlot
      PROVE  idOf'[slotOf'[i]] = i
  <2>1. CASE i \in DOMAIN f
    BY <2>1, LoadedInverse, RangeSlots DEF Install, IsLoad
  <2>2. CASE i \notin DOMAIN f
    <3>1. slotOf'[i] = slotOf[i] /\ ~\E v \in Range(f) : idOf[v] = i
      BY <1>2, <2>2 DEF Install
    <3>2. slotOf[i] \in Slots /\ idOf[slotOf[i]] = i
      BY <1>2, <3>1 DEF MapType, MapInverse, Slots
    <3>3. slotOf[i] \notin Range(f)
      BY <3>1, <3>2
    <3>4. QED
      BY <3>1, <3>2, <3>3 DEF Install
  <2>3. QED
    BY <2>1, <2>2
<1>3. ASSUME NEW s \in Slots, idOf'[s] # NoId
      PROVE  slotOf'[idOf'[s]] = s
  <2>1. CASE s \in Range(f)
    BY <2>1, LoadedInverse DEF Install, IsLoad, Missing
  <2>2. CASE s \notin Range(f)
    <3>1. idOf'[s] = idOf[s] /\ idOf[s] \in Ids /\ slotOf[idOf[s]] = s
      BY <1>3, <2>2 DEF Install, MapType, MapInverse
    <3>2. idOf[s] \notin DOMAIN f
      BY <3>1 DEF IsLoad, Missing, Slots, NoSlot
    <3>3. ~\E v \in Range(f) : idOf[v] = idOf[s]
      <4>1. ASSUME NEW v \in Range(f), idOf[v] = idOf[s]
            PROVE  FALSE
        <5>1. v \in Slots
          BY RangeSlots DEF IsLoad
        <5>2. slotOf[idOf[v]] = v
          BY <3>1, <4>1, <5>1, NoIdAssumption DEF MapInverse
        <5>3. QED
          BY <3>1, <4>1, <5>2, <2>2
      <4>2. QED
        BY <4>1
    <3>4. QED
      BY <3>1, <3>2, <3>3 DEF Install
  <2>3. QED
    BY <2>1, <2>2
<1>4. QED
  BY <1>1, <1>2, <1>3 DEF MapInverse

LEMMA VacateKeepsMap ==
  ASSUME MapType, MapInverse, NEW S \in SUBSET Slots, Vacate(S)
  PROVE  MapType' /\ MapInverse'
<1>1. MapType'
  BY DEF MapType, Vacate, Marked
<1>2. ASSUME NEW i \in Ids, slotOf'[i] # NoSlot
      PROVE  idOf'[slotOf'[i]] = i
  BY <1>2 DEF MapType, MapInverse, Vacate, Marked, Slots, NoSlot
<1>3. ASSUME NEW s \in Slots, idOf'[s] # NoId
      PROVE  slotOf'[idOf'[s]] = s
  <2>1. s \notin S /\ idOf'[s] = idOf[s] /\ idOf[s] \in Ids /\ slotOf[idOf[s]] = s
    BY <1>3 DEF MapType, MapInverse, Vacate, Marked
  <2>2. ~\E v \in S : idOf[v] = idOf[s]
    BY <2>1, NoIdAssumption DEF MapInverse
  <2>3. QED
    BY <2>1, <2>2 DEF Vacate
<1>4. QED
  BY <1>1, <1>2, <1>3 DEF MapInverse

-----------------------------------------------------------------------------
(* Type correctness.                                                       *)

LEMMA LayerIdsSubset ==
  ASSUME NEW l \in Layers, NEW q \in SUBSET LayerIds(l)
  PROVE  q \in SUBSET Ids
BY DEF LayerIds, Ids

(* What an eviction loop leaves in the tables it writes.                   *)
LEMMA LoadTypes ==
  ASSUME TypeOK, NEW q \in SUBSET Ids, NEW f, IsLoad(f, q), Install(f)
  PROVE  /\ slotOf' \in [Ids -> Slots \cup {NoSlot}]
         /\ idOf' \in [Slots -> Ids \cup {NoId}]
         /\ f \in UNION {[r -> Slots] : r \in SUBSET Ids}
         /\ \A u \in [Slots -> Int], p \in [Ids -> Prios] : Filled(f, u, p) \in [Slots -> Int]
         /\ \A g \in [Slots -> Nat], n \in Nat : Marked(Range(f), g, n) \in [Slots -> Nat]
         /\ \A u \in [Slots -> Int], n \in Int : Marked(Range(f), u, n) \in [Slots -> Int]
<1>1. \A s \in Range(f) : Loaded(f, s) \in Ids
  BY LoadedInverse DEF Missing
<1>2. slotOf' \in [Ids -> Slots \cup {NoSlot}]
  BY DEF TypeOK, Install, IsLoad
<1>3. idOf' \in [Slots -> Ids \cup {NoId}]
  BY <1>1 DEF TypeOK, Install
<1>4. f \in UNION {[r -> Slots] : r \in SUBSET Ids}
  BY DEF IsLoad, Missing
<1>5. ASSUME NEW u \in [Slots -> Int], NEW p \in [Ids -> Prios]
      PROVE  Filled(f, u, p) \in [Slots -> Int]
  <2>1. \A i \in Ids : p[i] \in Int
    BY PrioAssumption DEF Prios
  <2>2. QED
    BY <1>1, <2>1 DEF Filled
<1>6. QED
  BY <1>2, <1>3, <1>4, <1>5 DEF Marked

(* The slots that hold a set of ids, found through either table.           *)
LEMMA HeldSlots ==
  ASSUME TypeOK, MapInverse, NEW q \in SUBSET Ids
  PROVE  \A s \in Slots : s \in Held(q) <=> idOf[s] \in q
<1>1. ASSUME NEW s \in Slots, s \in Held(q)
      PROVE  idOf[s] \in q
  BY <1>1 DEF Held, TypeOK, MapInverse
<1>2. ASSUME NEW s \in Slots, idOf[s] \in q
      PROVE  s \in Held(q)
  BY <1>2, NoIdAssumption DEF Held, TypeOK, MapInverse, Slots, NoSlot
<1>3. QED
  BY <1>1, <1>2

LEMMA HitGuardIs ==
  ASSUME TypeOK, MapInverse, NEW q \in SUBSET Ids
  PROVE  HitGuard(q) = [s \in Slots |-> IF idOf[s] \in q THEN step + 1 ELSE guard[s]]
BY HeldSlots DEF HitGuard, Marked

LEMMA TouchedUsageIs ==
  ASSUME TypeOK, MapInverse, NEW q, NEW r \in SUBSET Ids, NEW p \in Touches(q, r)
  PROVE  TouchedUsage(p) = [s \in Slots |-> IF idOf[s] \in r THEN p[idOf[s]] ELSE usage[s]]
<1>1. DOMAIN p = r
  BY DEF Touches
<1>2. ASSUME NEW s \in Slots, s \in Held(r)
      PROVE  HeldBy(r, s) = idOf[s]
  <2>1. \E i \in r : slotOf[i] = s
    BY <1>2 DEF Held
  <2>2. \A i \in r : slotOf[i] = s => i = idOf[s]
    BY DEF MapInverse, Slots, NoSlot
  <2>3. QED
    BY <2>1, <2>2 DEF HeldBy
<1>3. ASSUME NEW s \in Slots
      PROVE  (IF s \in Held(r) THEN p[HeldBy(r, s)] ELSE usage[s])
               = (IF idOf[s] \in r THEN p[idOf[s]] ELSE usage[s])
  <2>1. s \in Held(r) <=> idOf[s] \in r
    BY HeldSlots
  <2>2. CASE s \in Held(r)
    BY <1>2, <2>1, <2>2
  <2>3. CASE s \notin Held(r)
    BY <2>1, <2>3
  <2>4. QED
    BY <2>2, <2>3
<1>4. QED
  BY <1>1, <1>3 DEF TouchedUsage

LEMMA InitType == Init => TypeOK
<1> SUFFICES ASSUME Init PROVE TypeOK
  OBVIOUS
<1>2. NumChunks \in Nat /\ 0 \in Layers /\ PNone \in Prios
  BY SizeAssumption, PrioAssumption DEF Layers, Prios
<1>3. routes \in UNION {[q -> Slots \cup {NoSlot}] : q \in SUBSET Ids}
  <2>1. routes \in [{} -> Slots \cup {NoSlot}]
    BY DEF Init, NoMap
  <2>2. {} \in SUBSET Ids
    OBVIOUS
  <2>3. QED
    BY <2>1, <2>2
<1>4. inflight \in UNION {[q -> Slots] : q \in SUBSET Ids}
  <2>1. inflight \in [{} -> Slots]
    BY DEF Init, NoMap
  <2>2. {} \in SUBSET Ids
    OBVIOUS
  <2>3. QED
    BY <2>1, <2>2
<1>5. QED
  BY <1>2, <1>3, <1>4, PrioAssumption DEF Init, TypeOK, Phases

LEMMA NextType == TypeOK /\ [Next]_vars => TypeOK'
<1> SUFFICES ASSUME TypeOK, [Next]_vars PROVE TypeOK'
  OBVIOUS
<1>1. ASSUME NEW l \in Layers, NEW q \in Queries(l), NEW r \in Ranked(l, q),
             NEW p \in Touches(q, r), NEW f \in VictimChoices(q), Ensure(l, q, p, f)
      PROVE  TypeOK'
  <2>1. q \in SUBSET Ids /\ r \in SUBSET Ids
    BY LayerIdsSubset DEF Queries, Ranked
  <2>2. IsLoad(f, q) /\ Install(f)
    BY <1>1 DEF VictimChoices, IsLoad, Ensure, IsVictimMap
  <2>3. TouchedPrio(p) \in [Ids -> Prios]
    BY DEF TypeOK, TouchedPrio, Touches
  <2>4. TouchedUsage(p) \in [Slots -> Int]
    <3>1. DOMAIN p = r /\ \A i \in r : p[i] \in Int
      BY PrioAssumption DEF Touches, Prios
    <3>2. ASSUME NEW s \in Slots, s \in Held(r)
          PROVE  HeldBy(r, s) \in r
      BY <3>2 DEF Held, HeldBy
    <3>3. QED
      BY <3>1, <3>2 DEF TypeOK, TouchedUsage
  <2>5. step + 1 \in Nat /\ HitGuard(q) \in [Slots -> Nat]
    BY DEF TypeOK, HitGuard, Marked
  <2>6. [i \in q |-> slotOf'[i]] \in [q -> Slots \cup {NoSlot}]
    BY <2>1, <2>2, LoadTypes
  <2>7. usage' \in [Slots -> Int] /\ guard' \in [Slots -> Nat]
    BY <1>1, <2>1, <2>2, <2>3, <2>4, <2>5, LoadTypes DEF Ensure
  <2>8. routes' \in UNION {[i -> Slots \cup {NoSlot}] : i \in SUBSET Ids}
    BY <1>1, <2>1, <2>6 DEF Ensure
  <2>9. QED
    BY <1>1, <2>1, <2>2, <2>3, <2>5, <2>7, <2>8, LoadTypes DEF Ensure, TypeOK, Phases
<1>2. ASSUME NEW q \in Predictions, NEW f \in VictimChoices(q),
             PrefetchEarly(q, f) \/ PrefetchGuarded(q, f) \/ PrefetchLru(q, f)
      PROVE  TypeOK'
  <2>1. q \in SUBSET Ids
    BY LayerIdsSubset DEF Predictions
  <2>2. IsLoad(f, q) /\ Install(f)
    BY <1>2 DEF VictimChoices, IsLoad, PrefetchEarly, PrefetchGuarded, PrefetchLru, IsVictimMap
  <2>3. step + 1 \in Nat /\ LruStamp \in Int
    BY PrioAssumption DEF TypeOK, LruStamp
  <2>4. Marked(Held(q), usage, LruStamp) \in [Slots -> Int]
    BY <2>3 DEF TypeOK, Marked
  <2>5. CASE PrefetchEarly(q, f)
    BY <2>5, <2>1, <2>2, LoadTypes DEF PrefetchEarly, TypeOK, Phases
  <2>6. CASE PrefetchGuarded(q, f)
    BY <2>6, <2>1, <2>2, <2>3, LoadTypes DEF PrefetchGuarded, TypeOK, Phases
  <2>7. CASE PrefetchLru(q, f)
    BY <2>7, <2>1, <2>2, <2>3, <2>4, LoadTypes DEF PrefetchLru, TypeOK, Phases
  <2>8. QED
    BY <1>2, <2>5, <2>6, <2>7
<1>3. CASE Gemm
  <2>1. inflight' \in UNION {[q -> Slots] : q \in SUBSET Ids}
    <3>1. PICK q \in SUBSET Ids : inflight \in [q -> Slots]
      BY DEF TypeOK
    <3>2. inflight' \in [{j \in q : j[1] # layer} -> Slots]
      BY <1>3, <3>1 DEF Gemm
    <3>3. QED
      BY <3>1, <3>2
  <2>2. routes' \in [{} -> Slots \cup {NoSlot}]
    BY <1>3 DEF Gemm, NoMap
  <2>3. QED
    BY <1>3, <2>1, <2>2 DEF Gemm, TypeOK, Phases
<1>4. ASSUME NEW k \in 1 .. mapped, RetireTop(k)
      PROVE  TypeOK'
  <2>1. NumChunks \in Nat /\ KMax \in Int
    BY SizeAssumption, PrioAssumption
  <2>2. mapped - k \in 0 .. NumChunks
    BY <2>1 DEF TypeOK
  <2>3. QED
    BY <1>4, <2>1, <2>2 DEF RetireTop, Vacate, Marked, TypeOK
<1>5. ASSUME NEW k \in 1 .. NumChunks, Restore(k)
      PROVE  TypeOK'
  <2>1. NumChunks \in Nat /\ PNone \in Int
    BY SizeAssumption, PrioAssumption
  <2>2. mapped + k \in 0 .. NumChunks
    BY <1>5, <2>1 DEF TypeOK, Restore, WasRetired
  <2>3. QED
    BY <1>5, <2>1, <2>2 DEF Restore, Marked, TypeOK
<1>6. ASSUME NEW b \in {0, 1}, InvalidateBuffer(b)
      PROVE  TypeOK'
  BY <1>6 DEF InvalidateBuffer, Vacate, Marked, TypeOK
<1>7. CASE Reset
  BY <1>7, PrioAssumption DEF Reset, TypeOK
<1>8. CASE UNCHANGED vars
  BY <1>8 DEF vars, TypeOK
<1>9. QED
  BY <1>1, <1>2, <1>3, <1>4, <1>5, <1>6, <1>7, <1>8
     DEF Next, EnsureStep, PrefetchStep, ElasticStep

(* The slot cache is type correct for every number of layers, experts,     *)
(* slots and chunks.                                                       *)
THEOREM TypeCorrect == Spec => []TypeOK
BY InitType, NextType, PTL DEF Spec

-----------------------------------------------------------------------------
(* The tables stay inverse.                                                *)

LEMMA NextMap == TypeOK /\ MapInverse /\ RetiredPinned /\ [Next]_vars => MapInverse'
<1> SUFFICES ASSUME TypeOK, MapInverse, RetiredPinned, [Next]_vars PROVE MapInverse'
  OBVIOUS
<1> MapType
  BY DEF TypeOK, MapType
<1>1. ASSUME NEW l \in Layers, NEW q \in Queries(l), NEW r \in Ranked(l, q),
             NEW p \in Touches(q, r), NEW f \in VictimChoices(q), Ensure(l, q, p, f)
      PROVE  MapInverse'
  <2>1. q \in SUBSET Ids
    BY LayerIdsSubset DEF Queries
  <2>2. IsLoad(f, q) /\ Install(f)
    BY <1>1 DEF VictimChoices, IsLoad, Ensure, IsVictimMap
  <2>3. QED
    BY <2>1, <2>2, InstallKeepsMap
<1>2. ASSUME NEW q \in Predictions, NEW f \in VictimChoices(q),
             PrefetchEarly(q, f) \/ PrefetchGuarded(q, f) \/ PrefetchLru(q, f)
      PROVE  MapInverse'
  <2>1. q \in SUBSET Ids
    BY LayerIdsSubset DEF Predictions
  <2>2. IsLoad(f, q) /\ Install(f)
    BY <1>2 DEF VictimChoices, IsLoad, PrefetchEarly, PrefetchGuarded, PrefetchLru, IsVictimMap
  <2>3. QED
    BY <2>1, <2>2, InstallKeepsMap
<1>3. CASE Gemm
  BY <1>3 DEF Gemm, MapInverse
<1>4. ASSUME NEW k \in 1 .. mapped, RetireTop(k)
      PROVE  MapInverse'
  BY <1>4, VacateKeepsMap DEF RetireTop, ChunkRange
<1>5. ASSUME NEW k \in 1 .. NumChunks, Restore(k)
      PROVE  MapInverse'
  <2>1. \A s \in ChunkRange(mapped, mapped + k) : idOf[s] = NoId
    <3>1. ASSUME NEW s \in ChunkRange(mapped, mapped + k)
          PROVE  s \in Slots /\ s \in RetiredSlots
      <4>1. s \in Slots /\ s \in Int /\ mapped * Chunk \in Int /\ mapped * Chunk <= s
        BY SizeAssumption DEF ChunkRange, Slots, TypeOK
      <4>2. ~(s < mapped * Chunk)
        BY <4>1
      <4>3. QED
        BY <4>1, <4>2 DEF RetiredSlots, ActiveSlots
    <3>2. QED
      BY <3>1 DEF RetiredPinned
  <2>2. idOf' = idOf
    BY <1>5, <2>1 DEF Restore, Marked, TypeOK
  <2>3. QED
    BY <1>5, <2>2 DEF Restore, MapInverse
<1>6. ASSUME NEW b \in {0, 1}, InvalidateBuffer(b)
      PROVE  MapInverse'
  BY <1>6, VacateKeepsMap DEF InvalidateBuffer
<1>7. CASE Reset
  BY <1>7 DEF Reset, MapInverse
<1>8. CASE UNCHANGED vars
  BY <1>8 DEF vars, MapInverse
<1>9. QED
  BY <1>1, <1>2, <1>3, <1>4, <1>5, <1>6, <1>7, <1>8
     DEF Next, EnsureStep, PrefetchStep, ElasticStep

-----------------------------------------------------------------------------
(* Retired slots stay empty and pinned; live slots stay evictable.         *)

(* Only an elastic server retires.                                         *)
AllMapped == Elastic \/ mapped = NumChunks

LEMMA NextAllMapped == AllMapped /\ [Next]_vars => AllMapped'
BY DEF AllMapped, Next, EnsureStep, Ensure, PrefetchStep, PrefetchEarly, PrefetchGuarded,
       PrefetchLru, Gemm, ElasticStep, RetireTop, Restore, InvalidateBuffer, Reset, vars

(* How far the ensures and launches of one decode step can count: what a   *)
(* raw stamp stays below KMax by.                                          *)
Clock == step <= MaxStep + 2 * layer + (IF phase = "launched" THEN 1 ELSE 0)

LEMMA NextClock == TypeOK /\ Clock /\ [Next]_vars => Clock'
<1> SUFFICES ASSUME TypeOK, Clock, [Next]_vars PROVE Clock'
  OBVIOUS
<1>1. layer \in Nat /\ step \in Nat /\ MaxStep \in Nat
  BY SizeAssumption DEF TypeOK, Layers
<1>2. ASSUME NEW l \in Layers, NextLayer(l), step' = step + 1, layer' = l, phase' = "routed"
      PROVE  Clock'
  BY <1>1, <1>2 DEF Clock, NextLayer, Layers
<1>3. CASE EnsureStep
  BY <1>2, <1>3 DEF EnsureStep, Ensure
<1>4. CASE PrefetchStep
  BY <1>1, <1>4 DEF PrefetchStep, PrefetchEarly, PrefetchGuarded, PrefetchLru, Clock
<1>5. CASE Gemm
  BY <1>1, <1>5 DEF Gemm, Clock
<1>6. CASE ElasticStep
  BY <1>6 DEF ElasticStep, RetireTop, Restore, Clock
<1>7. CASE \E b \in {0, 1} : InvalidateBuffer(b)
  BY <1>7 DEF InvalidateBuffer, Clock
<1>8. CASE Reset
  BY <1>1, <1>8 DEF Reset, Clock
<1>9. CASE UNCHANGED vars
  BY <1>9 DEF vars, Clock
<1>10. QED
  BY <1>3, <1>4, <1>5, <1>6, <1>7, <1>8, <1>9 DEF Next

LEMMA NextRetired ==
  TypeOK /\ AllMapped /\ Clock /\ MapInverse /\ RetiredPinned /\ [Next]_vars => RetiredPinned'
<1> SUFFICES ASSUME TypeOK, AllMapped, Clock, MapInverse, RetiredPinned, [Next]_vars
             PROVE  RetiredPinned'
  OBVIOUS
<1> USE SizeAssumption, PrioAssumption
<1>a. ASSUME mapped' = mapped,
             \A s \in RetiredSlots : idOf'[s] = NoId /\ usage'[s] = KMax,
             \A s \in Slots \ RetiredSlots : usage'[s] < KMax
      PROVE  RetiredPinned'
  BY <1>a DEF RetiredPinned, RetiredSlots, ActiveSlots
<1>b. ASSUME NEW q \in SUBSET Ids, NEW f, IsLoad(f, q)
      PROVE  \A s \in Range(f) : Loaded(f, s) \in Ids
  BY <1>b, LoadedInverse DEF Missing
<1>c. \A i \in Ids : prio[i] < KMax
  BY DEF TypeOK, Prios
<1>1. ASSUME NEW l \in Layers, NEW q \in Queries(l), NEW r \in Ranked(l, q),
             NEW p \in Touches(q, r), NEW f \in VictimChoices(q), Ensure(l, q, p, f)
      PROVE  RetiredPinned'
  <2>1. q \in SUBSET Ids /\ r \in SUBSET Ids
    BY LayerIdsSubset DEF Queries, Ranked
  <2>2. IsLoad(f, q)
    BY <1>1 DEF VictimChoices, IsLoad, Ensure, IsVictimMap
  <2>3. \A s \in RetiredSlots : TouchedUsage(p)[s] = KMax
    BY <2>1, TouchedUsageIs, NoIdAssumption DEF RetiredPinned, RetiredSlots
  <2>4. \A s \in RetiredSlots : s \in Slots /\ s \notin Range(f)
    BY <1>1, <2>3 DEF Ensure, IsVictimMap, Candidates, RetiredSlots
  <2>5. \A i \in Ids : TouchedPrio(p)[i] < KMax
    BY <1>c DEF TouchedPrio, Touches, Prios
  <2>6. \A s \in Slots \ RetiredSlots : TouchedUsage(p)[s] < KMax
    <3>1. \A i \in r : p[i] < KMax
      BY DEF Touches, Prios
    <3>2. \A s \in Slots \ RetiredSlots : usage[s] < KMax
      BY DEF RetiredPinned
    <3>3. \A s \in Slots : TouchedUsage(p)[s] = IF idOf[s] \in r THEN p[idOf[s]] ELSE usage[s]
      BY <2>1, TouchedUsageIs
    <3>4. QED
      BY <3>1, <3>2, <3>3
  <2>7. \A s \in Slots \ RetiredSlots : usage'[s] < KMax
    BY <1>1, <1>b, <2>1, <2>2, <2>5, <2>6 DEF Ensure, Filled
  <2>8. \A s \in RetiredSlots : idOf'[s] = NoId /\ usage'[s] = KMax
    BY <1>1, <2>3, <2>4 DEF Ensure, Install, Filled, RetiredPinned
  <2>9. QED
    BY <1>1, <1>a, <2>7, <2>8 DEF Ensure
<1>2. ASSUME NEW q \in Predictions, NEW f \in VictimChoices(q),
             PrefetchEarly(q, f) \/ PrefetchGuarded(q, f) \/ PrefetchLru(q, f)
      PROVE  RetiredPinned'
  <2>1. q \in SUBSET Ids
    BY LayerIdsSubset DEF Predictions
  <2>2. IsLoad(f, q)
    BY <1>2 DEF VictimChoices, IsLoad, PrefetchEarly, PrefetchGuarded, PrefetchLru, IsVictimMap
  <2>3. \A s \in RetiredSlots : s \in Slots /\ s \notin Range(f)
    BY <1>2 DEF PrefetchEarly, PrefetchGuarded, PrefetchLru, IsVictimMap, Candidates,
                RetiredSlots, RetiredPinned
  <2>4. \A s \in RetiredSlots : idOf'[s] = NoId
    BY <1>2, <2>3 DEF PrefetchEarly, PrefetchGuarded, PrefetchLru, Install, RetiredPinned
  <2>5. CASE PrefetchEarly(q, f) \/ PrefetchGuarded(q, f)
    <3>1. usage' = Filled(f, usage, prio) /\ mapped' = mapped
      BY <2>5 DEF PrefetchEarly, PrefetchGuarded
    <3>2. \A s \in Slots : usage'[s] = IF s \in Range(f) THEN prio[Loaded(f, s)] ELSE usage[s]
      BY <3>1 DEF Filled
    <3>3. QED
      BY <1>a, <1>b, <1>c, <2>1, <2>2, <2>3, <2>4, <3>1, <3>2 DEF RetiredPinned
  <2>6. CASE PrefetchLru(q, f)
    <3>1. LruStamp < KMax
      <4>1. layer + 1 \in Layers /\ phase = "computed" /\ ~EarlyPf /\ ~PfGuard
        BY <2>6 DEF PrefetchLru, TargetIds
      <4>2. layer \in Nat /\ layer + 2 <= NumLayers
        BY <4>1 DEF TypeOK, Layers
      <4>3. QED
        BY <4>1, <4>2 DEF Clock, LruStamp, TypeOK
    <3>2. \A s \in RetiredSlots : idOf[s] \notin q
      BY <2>1, NoIdAssumption DEF RetiredPinned, RetiredSlots
    <3>3. \A s \in Slots : usage'[s] = IF s \in Range(f) \/ idOf[s] \in q THEN LruStamp
                                      ELSE usage[s]
      BY <2>1, <2>6, HeldSlots DEF PrefetchLru, Marked
    <3>4. mapped' = mapped
      BY <2>6 DEF PrefetchLru
    <3>5. QED
      BY <1>a, <2>3, <2>4, <3>1, <3>2, <3>3, <3>4 DEF RetiredPinned
  <2>7. QED
    BY <1>2, <2>5, <2>6
<1>3. CASE Gemm
  BY <1>3 DEF Gemm, RetiredPinned, RetiredSlots, ActiveSlots
<1>4. ASSUME NEW k \in 1 .. mapped, RetireTop(k)
      PROVE  RetiredPinned'
  <2>1. /\ mapped' = mapped - k /\ mapped \in Nat /\ mapped' \in Nat
        /\ mapped' * Chunk <= mapped * Chunk
    BY <1>4 DEF RetireTop, TypeOK
  <2>2. \A s \in Slots :
          /\ idOf'[s] = IF s \in ChunkRange(mapped', mapped) THEN NoId ELSE idOf[s]
          /\ usage'[s] = IF s \in ChunkRange(mapped', mapped) THEN KMax ELSE usage[s]
    BY <1>4, <2>1 DEF RetireTop, Vacate, Marked
  <2>3. QED
    BY <2>1, <2>2 DEF RetiredPinned, RetiredSlots, ActiveSlots, ChunkRange, Slots
<1>5. ASSUME NEW k \in 1 .. NumChunks, Restore(k)
      PROVE  RetiredPinned'
  <2>1. /\ mapped' = mapped + k /\ mapped \in Nat /\ mapped' \in Nat
        /\ mapped * Chunk <= mapped' * Chunk
    BY <1>5 DEF Restore, TypeOK
  <2>2. \A s \in Slots :
          /\ idOf'[s] = IF s \in ChunkRange(mapped, mapped') THEN NoId ELSE idOf[s]
          /\ usage'[s] = IF s \in ChunkRange(mapped, mapped') THEN PNone ELSE usage[s]
    BY <1>5, <2>1 DEF Restore, Marked
  <2>3. QED
    BY <2>1, <2>2 DEF RetiredPinned, RetiredSlots, ActiveSlots, ChunkRange, Slots
<1>6. ASSUME NEW b \in {0, 1}, InvalidateBuffer(b)
      PROVE  RetiredPinned'
  BY <1>6 DEF InvalidateBuffer, Vacate, Marked, RetiredPinned, RetiredSlots, ActiveSlots
<1>7. CASE Reset
  <2>1. \A s \in Slots : s < mapped' * Chunk
    BY <1>7 DEF Reset, AllMapped, Slots
  <2>2. \A s \in Slots : usage'[s] = Fresh
    BY <1>7 DEF Reset
  <2>3. QED
    BY <2>1, <2>2 DEF RetiredPinned, RetiredSlots, ActiveSlots
<1>8. CASE UNCHANGED vars
  BY <1>8 DEF vars, RetiredPinned, RetiredSlots, ActiveSlots
<1>9. QED
  BY <1>1, <1>2, <1>3, <1>4, <1>5, <1>6, <1>7, <1>8
     DEF Next, EnsureStep, PrefetchStep, ElasticStep

-----------------------------------------------------------------------------
(* The slots a GEMM reads or a copy still writes are guarded at exactly    *)
(* the call that could otherwise choose them as victims.                   *)
Guarded ==
  /\ phase \notin {"routed", "early"} => DOMAIN routes = {}
  /\ \A i \in DOMAIN routes : i \in Ids /\ routes[i] \in Slots /\ guard[routes[i]] = step
  /\ EarlyPf => DOMAIN inflight = {}
  /\ phase \in {"idle", "computed"} => DOMAIN inflight = {}
  /\ \A i \in DOMAIN inflight : i \in Ids /\ inflight[i] \in Slots
  /\ phase = "launched" =>
       \A i \in DOMAIN inflight :
         i[1] = layer + 1 /\ (PfGuard => guard[inflight[i]] = step + 1)
  /\ phase \in {"routed", "early"} => \A i \in DOMAIN inflight : i[1] = layer

IInv == TypeOK /\ AllMapped /\ Clock /\ RetiredPinned /\ MapInverse /\ Guarded /\ RoutesKept

(* A mapping loop leaves an expert alone whose slot is no victim.          *)
LEMMA InstallKeeps ==
  ASSUME TypeOK, MapInverse, NEW q \in SUBSET Ids, NEW f, IsLoad(f, q), Install(f),
         NEW i \in Ids, slotOf[i] \in Slots, slotOf[i] \notin Range(f)
  PROVE  slotOf'[i] = slotOf[i] /\ idOf'[slotOf[i]] = idOf[slotOf[i]]
<1>1. i \notin DOMAIN f
  BY DEF IsLoad, Missing, Slots, NoSlot
<1>2. ~\E v \in Range(f) : idOf[v] = i
  <2>1. ASSUME NEW v \in Range(f), idOf[v] = i
        PROVE  FALSE
    <3>1. v \in Slots
      BY RangeSlots DEF IsLoad
    <3>2. slotOf[i] = v
      BY <2>1, <3>1, NoIdAssumption DEF MapInverse
    <3>3. QED
      BY <3>2
  <2>2. QED
    BY <2>1
<1>3. QED
  BY <1>1, <1>2 DEF Install

(* What an ensure answers is what its layer's GEMM will find: a hit is     *)
(* guarded before the victims are chosen, a miss gets a victim of its own. *)
LEMMA EnsureRoutes ==
  ASSUME IInv, NEW l \in Layers, NEW q \in Queries(l), NEW r \in Ranked(l, q),
         NEW p \in Touches(q, r), NEW f \in VictimChoices(q), Ensure(l, q, p, f)
  PROVE  \A i \in q : i \in Ids /\ slotOf'[i] \in Slots /\ guard'[slotOf'[i]] = step'
<1>1. q \in SUBSET Ids
  BY LayerIdsSubset DEF Queries
<1>2. IsLoad(f, q) /\ Install(f)
  BY DEF VictimChoices, IsLoad, Ensure, IsVictimMap
<1>3. \A s \in Slots : guard'[s] = IF s \in Range(f) \/ idOf[s] \in q THEN step'
                                  ELSE guard[s]
  BY <1>1, HitGuardIs DEF Ensure, Marked, IInv
<1>4. ASSUME NEW i \in q, slotOf[i] = NoSlot
      PROVE  slotOf'[i] \in Range(f) /\ slotOf'[i] \in Slots
  <2>1. i \in DOMAIN f
    BY <1>2, <1>4 DEF IsLoad, Missing
  <2>2. QED
    BY <1>1, <1>2, <2>1, LoadedInverse, RangeSlots DEF Install, IsLoad
<1>5. ASSUME NEW i \in q, slotOf[i] # NoSlot
      PROVE  slotOf'[i] \in Slots /\ idOf[slotOf'[i]] \in q
  <2>1. slotOf[i] \in Slots /\ idOf[slotOf[i]] = i
    BY <1>1, <1>5 DEF IInv, TypeOK, MapInverse
  <2>2. slotOf[i] \notin Range(f)
    BY <1>1, <2>1, HitGuardIs DEF Ensure, IsVictimMap, Candidates, IInv
  <2>3. slotOf'[i] = slotOf[i]
    BY <1>1, <1>2, <2>1, <2>2, InstallKeeps DEF IInv
  <2>4. QED
    BY <2>1, <2>3
<1>6. QED
  BY <1>1, <1>3, <1>4, <1>5

LEMMA InitInv == Init => IInv
<1> SUFFICES ASSUME Init PROVE IInv
  OBVIOUS
<1>1. TypeOK
  BY InitType
<1>2. DOMAIN routes = {} /\ DOMAIN inflight = {}
  BY DEF Init, NoMap
<1>3. \A s \in Slots : s < mapped * Chunk
  BY SizeAssumption DEF Init, Slots
<1>4. RetiredPinned
  BY <1>3, PrioAssumption DEF Init, RetiredPinned, RetiredSlots, ActiveSlots
<1>5. AllMapped /\ Clock /\ MapInverse
  BY SizeAssumption DEF Init, AllMapped, Clock, MapInverse
<1>6. QED
  BY <1>1, <1>2, <1>4, <1>5 DEF Init, IInv, Guarded, RoutesKept

LEMMA NextInv == IInv /\ [Next]_vars => IInv'
<1> SUFFICES ASSUME IInv, [Next]_vars PROVE IInv'
  OBVIOUS
<1>0. TypeOK' /\ AllMapped' /\ Clock' /\ RetiredPinned' /\ MapInverse'
  BY NextType, NextAllMapped, NextClock, NextRetired, NextMap DEF IInv
<1>1. ASSUME NEW l \in Layers, NEW q \in Queries(l), NEW r \in Ranked(l, q),
             NEW p \in Touches(q, r), NEW f \in VictimChoices(q), Ensure(l, q, p, f)
      PROVE  Guarded' /\ RoutesKept'
  <2>1. /\ phase' = "routed" /\ layer' = l /\ inflight' = inflight
        /\ routes' = [i \in q |-> slotOf'[i]]
    BY <1>1 DEF Ensure
  <2>2. \A i \in q : i \in Ids /\ slotOf'[i] \in Slots /\ guard'[slotOf'[i]] = step'
    BY <1>1, EnsureRoutes
  <2>3. \A i \in DOMAIN inflight : i[1] = l
    BY <1>1 DEF IInv, Guarded, Ensure, NextLayer
  <2>4. Guarded'
    BY <2>1, <2>2, <2>3 DEF IInv, Guarded
  <2>5. RoutesKept'
    BY <1>0, <2>1, <2>2 DEF RoutesKept, MapInverse, Slots, NoSlot
  <2>6. QED
    BY <2>4, <2>5
<1>2. ASSUME NEW q \in Predictions, NEW f \in VictimChoices(q), PrefetchEarly(q, f)
      PROVE  Guarded' /\ RoutesKept'
  <2>1. q \in SUBSET Ids
    BY LayerIdsSubset DEF Predictions
  <2>2. IsLoad(f, q) /\ Install(f)
    BY <1>2 DEF VictimChoices, IsLoad, PrefetchEarly, IsVictimMap
  <2>3. \A i \in DOMAIN routes : routes[i] \notin Range(f)
    BY <1>2 DEF PrefetchEarly, IsVictimMap, Candidates, IInv, Guarded
  <2>4. RoutesKept'
    <3>1. /\ TypeOK /\ MapInverse /\ routes' = routes
          /\ \A i \in DOMAIN routes : /\ i \in Ids /\ routes[i] \in Slots
                                     /\ slotOf[i] = routes[i] /\ idOf[routes[i]] = i
      BY <1>2 DEF IInv, RoutesKept, Guarded, PrefetchEarly
    <3>2. QED
      BY <2>1, <2>2, <2>3, <3>1, InstallKeeps DEF RoutesKept
  <2>5. Guarded'
    BY <1>2 DEF IInv, Guarded, PrefetchEarly
  <2>6. QED
    BY <2>4, <2>5
<1>3. ASSUME NEW q \in Predictions, NEW f \in VictimChoices(q),
             PrefetchGuarded(q, f) \/ PrefetchLru(q, f)
      PROVE  Guarded' /\ RoutesKept'
  <2>1. q \in SUBSET Ids
    BY LayerIdsSubset DEF Predictions
  <2>2. IsLoad(f, q)
    BY <1>3 DEF VictimChoices, IsLoad, PrefetchGuarded, PrefetchLru, IsVictimMap
  <2>3. /\ phase = "computed" /\ phase' = "launched" /\ routes' = routes
        /\ layer' = layer /\ inflight' = f /\ ~EarlyPf
    BY <1>3 DEF PrefetchGuarded, PrefetchLru
  <2>4. \A i \in DOMAIN f : i \in Ids /\ i[1] = layer + 1 /\ f[i] \in Slots /\ f[i] \in Range(f)
    <3>1. DOMAIN f \subseteq q /\ \A i \in DOMAIN f : f[i] \in Slots
      BY <2>2 DEF IsLoad, Missing
    <3>2. \A i \in q : i[1] = layer + 1
      BY DEF Predictions, LayerIds
    <3>3. QED
      BY <2>1, <3>1, <3>2 DEF Range
  <2>5. PfGuard => \A i \in DOMAIN f : guard'[f[i]] = step' + 1
    BY <1>3, <2>4 DEF PrefetchGuarded, PrefetchLru, Marked
  <2>6. DOMAIN routes' = {}
    BY <2>3 DEF IInv, Guarded
  <2>7. QED
    BY <2>3, <2>4, <2>5, <2>6 DEF Guarded, RoutesKept
<1>4. CASE Gemm
  <2>1. DOMAIN routes' = {}
    BY <1>4 DEF Gemm, NoMap
  <2>2. DOMAIN inflight' = {}
    BY <1>4 DEF Gemm, IInv, Guarded
  <2>3. phase' \in {"idle", "computed"}
    BY <1>4 DEF Gemm
  <2>4. QED
    BY <1>0, <2>1, <2>2, <2>3 DEF IInv, Guarded, RoutesKept
<1>5. CASE ElasticStep \/ (\E b \in {0, 1} : InvalidateBuffer(b)) \/ Reset
  <2>1. /\ phase = "idle" /\ phase' = phase /\ routes' = routes /\ inflight' = inflight
    BY <1>5 DEF ElasticStep, RetireTop, Restore, InvalidateBuffer, Reset
  <2>2. DOMAIN routes' = {} /\ DOMAIN inflight' = {}
    BY <2>1 DEF IInv, Guarded
  <2>3. QED
    BY <1>0, <2>1, <2>2 DEF IInv, Guarded, RoutesKept
<1>6. CASE UNCHANGED vars
  BY <1>0, <1>6 DEF vars, IInv, Guarded, RoutesKept
<1>7. QED
  BY <1>0, <1>1, <1>2, <1>3, <1>4, <1>5, <1>6 DEF Next, EnsureStep, PrefetchStep, IInv

(* slot_for_id and id_of_slot are inverse in every reachable state.        *)
THEOREM MapsInverse == Spec => []MapInverse
<1>1. IInv => MapInverse
  BY DEF IInv
<1>2. QED
  BY <1>1, InitInv, NextInv, PTL DEF Spec

(* Retired slots are empty and pinned, live slots are evictable.           *)
THEOREM RetiredStayPinned == Spec => []RetiredPinned
<1>1. IInv => RetiredPinned
  BY DEF IInv
<1>2. QED
  BY <1>1, InitInv, NextInv, PTL DEF Spec

(* No prefetch between a layer's ensure and its GEMM moves a routed        *)
(* expert, for every policy switch.                                        *)
THEOREM RoutesStay == Spec => []RoutesKept
<1>1. IInv => RoutesKept
  BY DEF IInv
<1>2. QED
  BY <1>1, InitInv, NextInv, PTL DEF Spec

-----------------------------------------------------------------------------
(* The guard of a prefetch covers the one ensure that runs before its copy *)
(* is waited.                                                              *)

LEMMA NextInFlight ==
  ASSUME PfGuard, IInv, InFlightKept, [Next]_vars
  PROVE  InFlightKept'
<1>1. ASSUME NEW l \in Layers, NEW q \in Queries(l), NEW r \in Ranked(l, q),
             NEW p \in Touches(q, r), NEW f \in VictimChoices(q), Ensure(l, q, p, f)
      PROVE  InFlightKept'
  <2>1. q \in SUBSET Ids
    BY LayerIdsSubset DEF Queries
  <2>2. IsLoad(f, q) /\ Install(f) /\ inflight' = inflight
    BY <1>1 DEF VictimChoices, IsLoad, Ensure, IsVictimMap
  <2>3. \A i \in DOMAIN inflight : guard[inflight[i]] = step + 1 /\ inflight[i] \in Slots
    BY <1>1 DEF Ensure, NextLayer, IInv, Guarded
  <2>4. \A i \in DOMAIN inflight : inflight[i] \notin Range(f)
    BY <1>1, <2>1, <2>3, HitGuardIs DEF Ensure, IsVictimMap, Candidates, IInv
  <2>5. \A i \in DOMAIN inflight :
          /\ i \in Ids /\ slotOf[i] = inflight[i] /\ idOf[slotOf[i]] = i
          /\ slotOf[i] \in Slots /\ slotOf[i] \notin Range(f)
    BY <2>3, <2>4 DEF IInv, InFlightKept, Guarded
  <2>6. \A i \in DOMAIN inflight : slotOf'[i] = inflight[i] /\ idOf'[inflight[i]] = i
    BY <2>1, <2>2, <2>5, InstallKeeps DEF IInv
  <2>7. QED
    BY <2>2, <2>6 DEF InFlightKept
<1>2. ASSUME NEW q \in Predictions, NEW f \in VictimChoices(q), PrefetchGuarded(q, f)
      PROVE  InFlightKept'
  <2>1. q \in SUBSET Ids
    BY LayerIdsSubset DEF Predictions
  <2>2. IsLoad(f, q) /\ Install(f) /\ inflight' = f
    BY <1>2 DEF VictimChoices, IsLoad, PrefetchGuarded, IsVictimMap
  <2>3. \A i \in DOMAIN f : i \in Ids /\ f[i] \in Slots /\ slotOf'[i] = f[i]
    BY <2>1, <2>2 DEF IsLoad, Missing, Install
  <2>4. \A i \in DOMAIN f : idOf'[f[i]] = i
    BY <2>2, LoadedInverse, <2>3 DEF Install, IsLoad
  <2>5. QED
    BY <2>2, <2>3, <2>4 DEF InFlightKept
<1>3. CASE \E q \in Predictions : \E f \in VictimChoices(q) : PrefetchEarly(q, f)
  BY <1>3 DEF PrefetchEarly, IInv, Guarded, InFlightKept
<1>4. CASE Gemm
  <2>1. DOMAIN inflight' = {}
    BY <1>4 DEF Gemm, IInv, Guarded
  <2>2. QED
    BY <2>1 DEF InFlightKept
<1>5. CASE ElasticStep \/ (\E b \in {0, 1} : InvalidateBuffer(b)) \/ Reset
  <2>1. phase = "idle" /\ inflight' = inflight
    BY <1>5 DEF ElasticStep, RetireTop, Restore, InvalidateBuffer, Reset
  <2>2. DOMAIN inflight' = {}
    BY <2>1 DEF IInv, Guarded
  <2>3. QED
    BY <2>2 DEF InFlightKept
<1>6. CASE UNCHANGED vars
  BY <1>6 DEF vars, InFlightKept
<1>7. QED
  BY <1>1, <1>2, <1>3, <1>4, <1>5, <1>6 DEF Next, EnsureStep, PrefetchStep, PrefetchLru

(* With the prefetch guard on, a slot whose prefetch copy may be in flight *)
(* keeps its expert until the target layer's GEMM has waited the copy,     *)
(* whatever the sizes and whatever stale guards a reset left behind.       *)
THEOREM InFlightStays ==
  ASSUME PfGuard
  PROVE  Spec => []InFlightKept
<1>1. Init => IInv /\ InFlightKept
  <2>1. Init => DOMAIN inflight = {}
    BY DEF Init, NoMap
  <2>2. QED
    BY <2>1, InitInv DEF InFlightKept
<1>2. (IInv /\ InFlightKept) /\ [Next]_vars => (IInv /\ InFlightKept)'
  BY NextInv, NextInFlight
<1>3. QED
  BY <1>1, <1>2, PTL DEF Spec

-----------------------------------------------------------------------------
(* A slot's key is the priority of the expert in it.                       *)

LEMMA NextKey ==
  ASSUME PfGuard \/ EarlyPf, IInv, KeyIsPriority, [Next]_vars
  PROVE  KeyIsPriority'
<1>a. ASSUME NEW q \in SUBSET Ids, NEW f, IsLoad(f, q), Install(f), NEW u, NEW p,
             \A s \in Slots : idOf[s] \in Ids => u[s] = p[idOf[s]],
             usage' = Filled(f, u, p), prio' = p
      PROVE  KeyIsPriority'
  <2>1. ASSUME NEW s \in Slots, idOf'[s] # NoId
        PROVE  usage'[s] = prio'[idOf'[s]]
    <3>1. CASE s \in Range(f)
      BY <1>a, <3>1 DEF Install, Filled
    <3>2. CASE s \notin Range(f)
      BY <1>a, <2>1, <3>2 DEF Install, Filled, IInv, TypeOK
    <3>3. QED
      BY <3>1, <3>2
  <2>2. QED
    BY <2>1 DEF KeyIsPriority
<1>b. \A s \in Slots : idOf[s] \in Ids => usage[s] = prio[idOf[s]]
  BY NoIdAssumption DEF KeyIsPriority
<1>1. ASSUME NEW l \in Layers, NEW q \in Queries(l), NEW r \in Ranked(l, q),
             NEW p \in Touches(q, r), NEW f \in VictimChoices(q), Ensure(l, q, p, f)
      PROVE  KeyIsPriority'
  <2>1. q \in SUBSET Ids
    BY LayerIdsSubset DEF Queries
  <2>2. IsLoad(f, q) /\ Install(f)
    BY <1>1 DEF VictimChoices, IsLoad, Ensure, IsVictimMap
  <2>3. \A s \in Slots : idOf[s] \in Ids => TouchedUsage(p)[s] = TouchedPrio(p)[idOf[s]]
    <3>1. r \in SUBSET Ids /\ DOMAIN p = r
      BY LayerIdsSubset DEF Ranked, Touches
    <3>2. QED
      BY <1>b, <3>1, TouchedUsageIs DEF TouchedPrio, IInv
  <2>4. QED
    BY <1>1, <1>a, <2>1, <2>2, <2>3 DEF Ensure
<1>2. ASSUME NEW q \in Predictions, NEW f \in VictimChoices(q),
             PrefetchEarly(q, f) \/ PrefetchGuarded(q, f)
      PROVE  KeyIsPriority'
  <2>1. q \in SUBSET Ids
    BY LayerIdsSubset DEF Predictions
  <2>2. IsLoad(f, q) /\ Install(f)
    BY <1>2 DEF VictimChoices, IsLoad, PrefetchEarly, PrefetchGuarded, IsVictimMap
  <2>3. usage' = Filled(f, usage, prio) /\ prio' = prio
    BY <1>2 DEF PrefetchEarly, PrefetchGuarded
  <2>4. QED
    BY <1>a, <1>b, <2>1, <2>2, <2>3
<1>3. CASE Gemm
  BY <1>3 DEF Gemm, KeyIsPriority
<1>4. CASE ElasticStep
  BY <1>4 DEF ElasticStep, RetireTop, Restore, Vacate, Marked, KeyIsPriority
<1>5. CASE \E b \in {0, 1} : InvalidateBuffer(b)
  BY <1>5 DEF InvalidateBuffer, Vacate, Marked, KeyIsPriority
<1>6. CASE Reset
  BY <1>6 DEF Reset, KeyIsPriority
<1>7. CASE UNCHANGED vars
  BY <1>7 DEF vars, KeyIsPriority
<1>8. QED
  BY <1>1, <1>2, <1>3, <1>4, <1>5, <1>6, <1>7 DEF Next, EnsureStep, PrefetchStep, PrefetchLru

(* Unless the unguarded launch demotes slots behind the policy's back,     *)
(* eviction always compares current CRF priorities.                        *)
THEOREM KeysArePriorities ==
  ASSUME PfGuard \/ EarlyPf
  PROVE  Spec => []KeyIsPriority
<1>1. Init => IInv /\ KeyIsPriority
  <2>1. Init => KeyIsPriority
    BY DEF Init, KeyIsPriority
  <2>2. QED
    BY <2>1, InitInv
<1>2. (IInv /\ KeyIsPriority) /\ [Next]_vars => (IInv /\ KeyIsPriority)'
  BY NextInv, NextKey
<1>3. QED
  BY <1>1, <1>2, PTL DEF Spec
-----------------------------------------------------------------------------
(* There is a victim for every miss.  One value of the counter guards at    *)
(* most the query of its ensure and the prediction aimed at it; a reset     *)
(* rewinds the counter but leaves the guards, so every pass of the counter  *)
(* may add as many again.                                                   *)

GuardedPred == IF ~EarlyPf /\ PfGuard THEN MaxPred ELSE 0
PerCall == MaxQuery + GuardedPred
Passes  == IF Elastic THEN 0 ELSE MaxResets
Room    == IF Elastic /\ MinSlots < CacheSize THEN MinSlots ELSE CacheSize

(* What the sizes must be: min_slots, or the whole cache of a server that   *)
(* lends nothing, above what the guards can exclude.                        *)
Roomy ==
  /\ (Passes + 1) * PerCall <= Room
  /\ IF EarlyPf THEN (Passes + 1) * PerCall + MaxPred <= Room
     ELSE IF PfGuard THEN (2 * Passes + 1) * PerCall + MaxPred <= Room
     ELSE MaxPred <= Room

GuardedAt(g, n) == {s \in Slots : g[s] = n}

(* The slots each value of the counter guards, and the live slots.          *)
CountInv ==
  /\ resets <= Passes
  /\ mapped * Chunk >= Room
  /\ phase # "idle" => step # 0
  /\ \A n \in Nat \ {0} :
       Cardinality(GuardedAt(guard, n)) <=
         IF n <= step THEN (resets + 1) * PerCall
         ELSE resets * PerCall + (IF n = step + 1 /\ phase = "launched" THEN GuardedPred ELSE 0)

LEMMA SizesAre ==
  /\ MaxQuery \in Nat /\ MaxPred \in Nat /\ MaxResets \in Nat /\ MinSlots \in Nat
  /\ CacheSize \in Nat /\ NumChunks \in Nat /\ Chunk \in Nat
  /\ GuardedPred \in Nat /\ PerCall \in Nat /\ Passes \in Nat
  /\ Room \in Nat /\ Room <= CacheSize
  /\ Slots = 0 .. (CacheSize - 1)
<1>1. /\ MaxQuery \in Nat /\ MaxPred \in Nat /\ MaxResets \in Nat /\ MinSlots \in Nat
      /\ CacheSize \in Nat /\ NumChunks \in Nat /\ Chunk \in Nat
  BY SizeAssumption
<1>2. GuardedPred \in Nat /\ PerCall \in Nat /\ Passes \in Nat
  BY <1>1 DEF GuardedPred, PerCall, Passes
<1>3. Room \in Nat /\ Room <= CacheSize
  BY <1>1 DEF Room
<1>4. QED
  BY <1>1, <1>2, <1>3 DEF Slots

LEMMA SlotsFinite ==
  /\ IsFiniteSet(Slots)
  /\ \A g, n : IsFiniteSet(GuardedAt(g, n)) /\ Cardinality(GuardedAt(g, n)) \in Nat
<1>1. IsFiniteSet(Slots)
  BY SizesAre, FS_Interval
<1>2. ASSUME NEW g, NEW n
      PROVE  IsFiniteSet(GuardedAt(g, n)) /\ Cardinality(GuardedAt(g, n)) \in Nat
  <2>1. GuardedAt(g, n) \subseteq Slots
    BY DEF GuardedAt
  <2>2. QED
    BY <1>1, <2>1, FS_Subset, FS_CardinalityType
<1>3. QED
  BY <1>1, <1>2

(* The values of a function on a finite set are no more than its arguments. *)
LEMMA ImageSize ==
  ASSUME NEW S, IsFiniteSet(S), NEW F, F = [x \in S |-> F[x]],
         NEW T, \A y \in T : \E x \in S : F[x] = y
  PROVE  IsFiniteSet(T) /\ Cardinality(T) <= Cardinality(S)
<1>1. PICK V : V = {F[x] : x \in S}
  OBVIOUS
<1>2. F \in [S -> V] /\ \A y \in V : \E x \in S : F[x] = y
  BY <1>1
<1>3. F \in Surjection(S, V)
  BY <1>2, Fun_IsSurj
<1>4. IsFiniteSet(V) /\ Cardinality(V) <= Cardinality(S)
  BY <1>3, FS_Surjection
<1>5. T \subseteq V
  BY <1>1
<1>6. IsFiniteSet(T) /\ Cardinality(T) <= Cardinality(V)
  BY <1>4, <1>5, FS_Subset
<1>7. Cardinality(T) \in Nat /\ Cardinality(V) \in Nat /\ Cardinality(S) \in Nat
  BY <1>4, <1>6, FS_CardinalityType
<1>8. QED
  BY <1>4, <1>6, <1>7

(* What covers a set is together no smaller.                                *)
LEMMA CoverSize ==
  ASSUME NEW A, IsFiniteSet(A), NEW B, IsFiniteSet(B), NEW S, S \subseteq A \cup B
  PROVE  /\ IsFiniteSet(S) /\ Cardinality(S) \in Nat
         /\ Cardinality(A) \in Nat /\ Cardinality(B) \in Nat
         /\ Cardinality(S) <= Cardinality(A) + Cardinality(B)
<1>1. PICK U : U = A \cup B
  OBVIOUS
<1>2. /\ IsFiniteSet(U)
      /\ Cardinality(U) = Cardinality(A) + Cardinality(B) - Cardinality(A \cap B)
  BY <1>1, FS_Union
<1>3. IsFiniteSet(A \cap B)
  BY FS_Subset
<1>4. IsFiniteSet(S) /\ Cardinality(S) <= Cardinality(U)
  BY <1>1, <1>2, FS_Subset
<1>5. /\ Cardinality(S) \in Nat /\ Cardinality(A) \in Nat /\ Cardinality(B) \in Nat
      /\ Cardinality(A \cap B) \in Nat
  BY <1>3, <1>4, FS_CardinalityType
<1>6. QED
  BY <1>2, <1>4, <1>5

(* Guarding the slots of S at n adds no more than these to n.               *)
LEMMA MarkSize ==
  ASSUME NEW g, NEW g2, NEW S \in SUBSET Slots, NEW n,
         \A s \in Slots : g2[s] = IF s \in S THEN n ELSE g[s]
  PROVE  /\ Cardinality(GuardedAt(g2, n)) <= Cardinality(GuardedAt(g, n)) + Cardinality(S)
         /\ \A m : m # n => Cardinality(GuardedAt(g2, m)) <= Cardinality(GuardedAt(g, m))
<1>1. IsFiniteSet(S)
  BY SlotsFinite, FS_Subset
<1>2. GuardedAt(g2, n) \subseteq GuardedAt(g, n) \cup S
  BY DEF GuardedAt
<1>3. Cardinality(GuardedAt(g2, n)) <= Cardinality(GuardedAt(g, n)) + Cardinality(S)
  BY <1>1, <1>2, SlotsFinite, CoverSize
<1>4. ASSUME NEW m, m # n
      PROVE  Cardinality(GuardedAt(g2, m)) <= Cardinality(GuardedAt(g, m))
  <2>1. GuardedAt(g2, m) \subseteq GuardedAt(g, m)
    BY <1>4 DEF GuardedAt
  <2>2. QED
    BY <2>1, SlotsFinite, FS_Subset
<1>5. QED
  BY <1>3, <1>4

(* A query takes no more slots than it has ids: those that hold its hits    *)
(* and those its misses are mapped to.                                      *)
LEMMA TakenSize ==
  ASSUME NEW q \in SUBSET Ids, IsFiniteSet(q), NEW f, IsLoad(f, q)
  PROVE  /\ IsFiniteSet(Range(f) \cup Held(q))
         /\ Cardinality(Range(f) \cup Held(q)) <= Cardinality(q)
<1>1. PICK F : F = [i \in q |-> IF slotOf[i] = NoSlot THEN f[i] ELSE slotOf[i]]
  OBVIOUS
<1>2. PICK T : T = Range(f) \cup Held(q)
  OBVIOUS
<1>3. \A s \in T : \E i \in q : F[i] = s
  <2>1. ASSUME NEW s \in Range(f)
        PROVE  \E i \in q : F[i] = s
    <3>1. PICK i \in Missing(q) : f[i] = s
      BY DEF Range, IsLoad
    <3>2. i \in q /\ slotOf[i] = NoSlot
      BY DEF Missing
    <3>3. QED
      BY <1>1, <3>1, <3>2
  <2>2. ASSUME NEW s \in Held(q)
        PROVE  \E i \in q : F[i] = s
    BY <1>1 DEF Held
  <2>3. QED
    BY <1>2, <2>1, <2>2
<1>4. F = [i \in q |-> F[i]]
  BY <1>1
<1>5. IsFiniteSet(T) /\ Cardinality(T) <= Cardinality(q)
  BY <1>3, <1>4, ImageSize
<1>6. QED
  BY <1>2, <1>5

(* Its hits hold as many slots as it has hits, at most.                     *)
LEMMA HitsSize ==
  ASSUME NEW q \in SUBSET Ids, IsFiniteSet(q)
  PROVE  /\ IsFiniteSet(Held(q)) /\ IsFiniteSet(Missing(q))
         /\ Cardinality(Held(q)) \in Nat /\ Cardinality(Missing(q)) \in Nat
         /\ Cardinality(Held(q)) + Cardinality(Missing(q)) <= Cardinality(q)
<1>1. PICK H, M : H = q \ Missing(q) /\ M = Missing(q)
  OBVIOUS
<1>2. M \subseteq q /\ H \subseteq q /\ H \cup M = q /\ H \cap M = {}
  BY <1>1 DEF Missing
<1>3. IsFiniteSet(H) /\ IsFiniteSet(M)
  BY <1>2, FS_Subset
<1>4. Cardinality(q) = Cardinality(H) + Cardinality(M)
  <2>1. Cardinality(q) = Cardinality(H) + Cardinality(M) - Cardinality(H \cap M)
    <3>1. Cardinality(H \cup M) = Cardinality(H) + Cardinality(M) - Cardinality(H \cap M)
      BY <1>3, FS_Union
    <3>2. H \cup M = q
      BY <1>2
    <3>3. QED
      BY <3>1, <3>2, Zenon
  <2>2. Cardinality(H \cap M) = 0
    BY <1>2, FS_EmptySet
  <2>3. Cardinality(H) \in Nat /\ Cardinality(M) \in Nat
    BY <1>3, FS_CardinalityType
  <2>4. QED
    BY <2>1, <2>2, <2>3
<1>5. PICK F : F = [i \in H |-> slotOf[i]]
  OBVIOUS
<1>6. F = [i \in H |-> F[i]] /\ \A s \in Held(q) : \E i \in H : F[i] = s
  BY <1>1, <1>5 DEF Held, Missing
<1>7. PICK S : S = Held(q)
  OBVIOUS
<1>8. IsFiniteSet(S) /\ Cardinality(S) <= Cardinality(H)
  BY <1>3, <1>6, <1>7, ImageSize
<1>9. Cardinality(S) \in Nat /\ Cardinality(H) \in Nat /\ Cardinality(M) \in Nat
  BY <1>3, <1>8, FS_CardinalityType
<1>10. QED
  BY <1>1, <1>3, <1>4, <1>7, <1>8, <1>9

LEMMA InputsFinite ==
  /\ \A l \in Layers : \A q \in Queries(l) :
       q \in SUBSET Ids /\ IsFiniteSet(q) /\ Cardinality(q) \in Nat /\ Cardinality(q) <= MaxQuery
  /\ \A q \in Predictions :
       q \in SUBSET Ids /\ IsFiniteSet(q) /\ Cardinality(q) \in Nat /\ Cardinality(q) <= MaxPred
<1>1. ASSUME NEW l \in Layers
      PROVE  IsFiniteSet(LayerIds(l))
  <2>1. IsFiniteSet({l}) /\ IsFiniteSet(Experts)
    BY SizeAssumption, FS_Singleton
  <2>2. QED
    BY <2>1, FS_Product DEF LayerIds
<1>2. ASSUME NEW l \in Layers, NEW q \in SUBSET LayerIds(l)
      PROVE  q \in SUBSET Ids /\ IsFiniteSet(q) /\ Cardinality(q) \in Nat
  BY <1>1, LayerIdsSubset, FS_Subset, FS_CardinalityType
<1>3. QED
  BY <1>2 DEF Queries, Predictions

(* Products of the bounds.                                                  *)
LEMMA PassesTimes ==
  ASSUME NEW a \in Nat, NEW b \in Nat, a <= b, NEW k \in Nat
  PROVE  a * k <= b * k /\ (a + 1) * k = a * k + k /\ a * k \in Nat
<1>1. PICK d \in Nat : b = a + d
  <2>1. b - a \in Nat /\ b = a + (b - a)
    OBVIOUS
  <2>2. QED
    BY <2>1
<1>2. PICK x \in Nat, y \in Nat : x = a * k /\ y = d * k
  OBVIOUS
<1>3. b * k = x + y
  BY <1>1, <1>2
<1>4. (a + 1) * k = x + k
  BY <1>2
<1>5. QED
  BY <1>2, <1>3, <1>4

LEMMA InitCount == Init => CountInv
<1> SUFFICES ASSUME Init PROVE CountInv
  OBVIOUS
<1>1. guard = [s \in Slots |-> 0] /\ resets = 0 /\ step = 0 /\ phase = "idle" /\ mapped = NumChunks
  BY DEF Init
<1>2. \A n \in Nat \ {0} : Cardinality(GuardedAt(guard, n)) = 0
  <2>1. ASSUME NEW n \in Nat \ {0}
        PROVE  Cardinality(GuardedAt(guard, n)) = 0
    <3>1. GuardedAt(guard, n) = {}
      BY <1>1 DEF GuardedAt
    <3>2. QED
      BY <3>1, FS_EmptySet
  <2>2. QED
    BY <2>1
<1>3. mapped * Chunk >= Room
  <2>1. CacheSize <= NumChunks * Chunk
    BY SizeAssumption
  <2>2. PICK m \in Nat : m = NumChunks * Chunk
    BY SizesAre
  <2>3. QED
    BY <1>1, <2>1, <2>2, SizesAre
<1>4. 0 * PerCall = 0 /\ (0 + 1) * PerCall = PerCall
  BY SizesAre
<1>5. QED
  BY <1>1, <1>2, <1>3, <1>4, SizesAre DEF CountInv

(* A step that guards no slot and keeps the counter.                        *)
LEMMA SameCount ==
  ASSUME TypeOK, CountInv, guard' = guard, step' = step, resets' = resets,
         mapped' * Chunk >= Room, phase' # "idle" => step # 0,
         phase # "launched" \/ phase' = "launched"
  PROVE  CountInv'
<1>1. PICK n0 \in Nat, x \in Nat, y \in Nat :
        n0 = step /\ x = resets * PerCall /\ y = (resets + 1) * PerCall
  BY SizesAre DEF TypeOK
<1>2. /\ resets <= Passes
      /\ \A n \in Nat \ {0} :
           Cardinality(GuardedAt(guard, n)) <=
             IF n <= n0 THEN y
             ELSE x + (IF n = n0 + 1 /\ phase = "launched" THEN GuardedPred ELSE 0)
  BY <1>1 DEF CountInv
<1>3. \A n \in Nat \ {0} :
        Cardinality(GuardedAt(guard, n)) <=
          IF n <= n0 THEN y
          ELSE x + (IF n = n0 + 1 /\ phase' = "launched" THEN GuardedPred ELSE 0)
  BY <1>2, SlotsFinite, SizesAre
<1>4. \A n : GuardedAt(guard, n)' = GuardedAt(guard, n)
  BY DEF GuardedAt
<1>5. QED
  BY <1>1, <1>2, <1>3, <1>4 DEF CountInv

LEMMA NextCount == IInv /\ CountInv /\ [Next]_vars => CountInv'
<1> SUFFICES ASSUME IInv, CountInv, [Next]_vars PROVE CountInv'
  OBVIOUS
<1>0. PICK n0 \in Nat, x \in Nat, gp \in Nat :
        n0 = step /\ x = resets * PerCall /\ (resets + 1) * PerCall = x + PerCall
        /\ gp = GuardedPred /\ PerCall = MaxQuery + gp
  <2>1. /\ resets \in Nat /\ PerCall \in Nat /\ step \in Nat /\ GuardedPred \in Nat
        /\ PerCall = MaxQuery + GuardedPred
    BY SizesAre DEF IInv, TypeOK, PerCall
  <2>2. resets * PerCall \in Nat /\ (resets + 1) * PerCall = resets * PerCall + PerCall
    BY <2>1, PassesTimes
  <2>3. QED
    BY <2>1, <2>2
<1>1. /\ resets <= Passes /\ mapped * Chunk >= Room /\ (phase # "idle" => n0 # 0)
      /\ \A n \in Nat \ {0} :
           Cardinality(GuardedAt(guard, n)) <=
             IF n <= n0 THEN x + PerCall
             ELSE x + (IF n = n0 + 1 /\ phase = "launched" THEN gp ELSE 0)
  BY <1>0 DEF CountInv
<1>2. TypeOK /\ MapInverse
  BY DEF IInv
<1>3. \A n : Cardinality(GuardedAt(guard, n)) \in Nat /\ Cardinality(GuardedAt(guard', n)) \in Nat
  BY SlotsFinite
<1>4. \A n : GuardedAt(guard, n)' = GuardedAt(guard', n)
  BY DEF GuardedAt
<1>5. /\ MaxQuery \in Nat /\ MaxPred \in Nat /\ PerCall \in Nat /\ Room \in Nat
      /\ Chunk \in Nat /\ NumChunks \in Nat
  BY SizesAre
<1>6. ASSUME NEW l \in Layers, NEW q \in Queries(l), NEW r \in Ranked(l, q),
             NEW p \in Touches(q, r), NEW f \in VictimChoices(q), Ensure(l, q, p, f)
      PROVE  CountInv'
  <2>1. /\ step' = n0 + 1 /\ resets' = resets /\ mapped' = mapped /\ phase' = "routed"
    BY <1>0, <1>6 DEF Ensure
  <2>2. IsLoad(f, q) /\ q \in SUBSET Ids /\ IsFiniteSet(q) /\ Cardinality(q) <= MaxQuery
        /\ Cardinality(q) \in Nat
    BY <1>6, InputsFinite DEF VictimChoices, IsLoad, Ensure, IsVictimMap
  <2>3. PICK S : S = Range(f) \cup Held(q)
    OBVIOUS
  <2>4. S \in SUBSET Slots /\ \A s \in Slots : guard'[s] = IF s \in S THEN n0 + 1 ELSE guard[s]
    <3>1. \A s \in Slots : guard'[s] = IF s \in Range(f) \/ idOf[s] \in q THEN n0 + 1 ELSE guard[s]
      BY <1>0, <1>2, <1>6, <2>2, HitGuardIs DEF Ensure, Marked
    <3>2. \A s \in Slots : s \in Held(q) <=> idOf[s] \in q
      BY <1>2, <2>2, HeldSlots
    <3>3. Range(f) \subseteq Slots
      BY <2>2, RangeSlots DEF IsLoad
    <3>4. Held(q) \subseteq Slots
      BY <1>2, <2>2 DEF Held, TypeOK
    <3>5. QED
      BY <2>3, <3>1, <3>2, <3>3, <3>4
  <2>5. IsFiniteSet(S) /\ Cardinality(S) <= Cardinality(q) /\ Cardinality(S) \in Nat
    BY <2>2, <2>3, TakenSize, FS_CardinalityType
  <2>6. PICK g2, k : g2 = guard' /\ k = n0 + 1
    OBVIOUS
  <2>7. /\ Cardinality(GuardedAt(g2, k)) <= Cardinality(GuardedAt(guard, k)) + Cardinality(S)
        /\ \A m : m # k => Cardinality(GuardedAt(g2, m)) <= Cardinality(GuardedAt(guard, m))
    <3>1. \A s \in Slots : g2[s] = IF s \in S THEN k ELSE guard[s]
      BY <2>4, <2>6
    <3>2. QED
      BY <2>4, <3>1, MarkSize
  <2>8. Cardinality(GuardedAt(guard, k)) <= x + gp
    <3>1. k \in Nat \ {0} /\ ~(k <= n0) /\ k = n0 + 1
      BY <2>6
    <3>2. Cardinality(GuardedAt(guard, k)) <= x + (IF phase = "launched" THEN gp ELSE 0)
      BY <1>1, <3>1
    <3>3. QED
      BY <1>3, <3>2
  <2>9. ASSUME NEW n \in Nat \ {0}
        PROVE  Cardinality(GuardedAt(guard', n)) <= IF n <= n0 + 1 THEN x + PerCall ELSE x
    <3>1. CASE n = k
      BY <1>0, <1>3, <1>5, <2>2, <2>5, <2>6, <2>7, <2>8, <3>1
    <3>2. CASE n # k
      <4>1. Cardinality(GuardedAt(guard', n)) <= Cardinality(GuardedAt(guard, n))
        BY <2>6, <2>7, <3>2
      <4>2. Cardinality(GuardedAt(guard, n)) <= IF n <= n0 THEN x + PerCall ELSE x
        BY <1>1, <2>6, <3>2
      <4>3. QED
        BY <1>3, <1>5, <2>6, <3>2, <4>1, <4>2
    <3>3. QED
      BY <3>1, <3>2
  <2>10. \A n \in Nat \ {0} :
           Cardinality(GuardedAt(guard', n)) <=
             IF n <= step' THEN (resets' + 1) * PerCall
             ELSE resets' * PerCall + (IF n = step' + 1 /\ phase' = "launched" THEN GuardedPred ELSE 0)
    <3>1. resets' * PerCall = x /\ (resets' + 1) * PerCall = x + PerCall /\ x + 0 = x
          /\ phase' # "launched"
      BY <1>0, <2>1
    <3>2. QED
      BY <2>1, <2>9, <3>1
  <2>11. resets' <= Passes /\ mapped' * Chunk >= Room /\ step' # 0
    BY <1>1, <2>1
  <2>12. QED
    BY <1>4, <2>10, <2>11 DEF CountInv
<1>7. ASSUME NEW q \in Predictions, NEW f \in VictimChoices(q), PrefetchEarly(q, f)
      PROVE  CountInv'
  <2>1. /\ guard' = guard /\ step' = step /\ resets' = resets /\ mapped' = mapped
        /\ phase = "routed"
    BY <1>7 DEF PrefetchEarly
  <2>2. QED
    BY <1>0, <1>1, <1>2, <2>1, SameCount
<1>8. ASSUME NEW q \in Predictions, NEW f \in VictimChoices(q), PrefetchGuarded(q, f)
      PROVE  CountInv'
  <2>1. /\ step' = n0 /\ resets' = resets /\ mapped' = mapped /\ phase' = "launched"
        /\ phase = "computed" /\ guard' = Marked(Range(f), guard, n0 + 1) /\ gp = MaxPred
    BY <1>0, <1>8 DEF PrefetchGuarded, GuardedPred
  <2>2. IsLoad(f, q) /\ q \in SUBSET Ids /\ IsFiniteSet(q) /\ Cardinality(q) <= MaxPred
        /\ Cardinality(q) \in Nat
    BY <1>8, InputsFinite DEF VictimChoices, IsLoad, PrefetchGuarded, IsVictimMap
  <2>3. PICK S : S = Range(f)
    OBVIOUS
  <2>4. S \in SUBSET Slots /\ \A s \in Slots : guard'[s] = IF s \in S THEN n0 + 1 ELSE guard[s]
    BY <2>1, <2>2, <2>3, RangeSlots DEF IsLoad, Marked
  <2>5. IsFiniteSet(S) /\ Cardinality(S) <= Cardinality(q) /\ Cardinality(S) \in Nat
    <3>1. PICK T : T = Range(f) \cup Held(q)
      OBVIOUS
    <3>2. IsFiniteSet(T) /\ Cardinality(T) <= Cardinality(q) /\ S \subseteq T
      BY <2>2, <2>3, <3>1, TakenSize
    <3>3. IsFiniteSet(S) /\ Cardinality(S) <= Cardinality(T)
      BY <3>2, FS_Subset
    <3>4. Cardinality(S) \in Nat /\ Cardinality(T) \in Nat
      BY <3>2, <3>3, FS_CardinalityType
    <3>5. QED
      BY <2>2, <3>2, <3>3, <3>4
  <2>6. PICK g2, k : g2 = guard' /\ k = n0 + 1
    OBVIOUS
  <2>7. /\ Cardinality(GuardedAt(g2, k)) <= Cardinality(GuardedAt(guard, k)) + Cardinality(S)
        /\ \A m : m # k => Cardinality(GuardedAt(g2, m)) <= Cardinality(GuardedAt(guard, m))
    <3>1. \A s \in Slots : g2[s] = IF s \in S THEN k ELSE guard[s]
      BY <2>4, <2>6
    <3>2. QED
      BY <2>4, <3>1, MarkSize
  <2>8. Cardinality(GuardedAt(guard, k)) <= x
    <3>1. k \in Nat \ {0} /\ ~(k <= n0)
      BY <2>6
    <3>2. Cardinality(GuardedAt(guard, k)) <= x + 0
      BY <1>1, <2>1, <3>1
    <3>3. QED
      BY <1>3, <3>2
  <2>9. ASSUME NEW n \in Nat \ {0}
        PROVE  Cardinality(GuardedAt(guard', n)) <=
                 IF n <= n0 THEN x + PerCall ELSE x + (IF n = n0 + 1 THEN gp ELSE 0)
    <3>1. CASE n = k
      BY <1>3, <2>1, <2>2, <2>5, <2>6, <2>7, <2>8, <3>1
    <3>2. CASE n # k
      <4>1. Cardinality(GuardedAt(guard', n)) <= Cardinality(GuardedAt(guard, n))
        BY <2>6, <2>7, <3>2
      <4>2. Cardinality(GuardedAt(guard, n)) <= IF n <= n0 THEN x + PerCall ELSE x
        BY <1>1, <2>6, <3>2
      <4>3. QED
        BY <1>3, <1>5, <2>6, <3>2, <4>1, <4>2
    <3>3. QED
      BY <3>1, <3>2
  <2>10. \A n \in Nat \ {0} :
           Cardinality(GuardedAt(guard', n)) <=
             IF n <= step' THEN (resets' + 1) * PerCall
             ELSE resets' * PerCall + (IF n = step' + 1 /\ phase' = "launched" THEN GuardedPred ELSE 0)
    BY <1>0, <2>1, <2>9
  <2>11. resets' <= Passes /\ mapped' * Chunk >= Room /\ step' # 0
    BY <1>1, <2>1
  <2>12. QED
    BY <1>4, <2>10, <2>11 DEF CountInv
<1>9. ASSUME NEW q \in Predictions, NEW f \in VictimChoices(q), PrefetchLru(q, f)
      PROVE  CountInv'
  <2>1. /\ step' = n0 + 1 /\ resets' = resets /\ mapped' = mapped /\ phase' = "launched"
        /\ phase = "computed" /\ guard' = guard /\ gp = 0
    BY <1>0, <1>9 DEF PrefetchLru, GuardedPred
  <2>2. ASSUME NEW n \in Nat \ {0}
        PROVE  Cardinality(GuardedAt(guard, n)) <= IF n <= n0 + 1 THEN x + PerCall ELSE x
    <3>1. Cardinality(GuardedAt(guard, n)) <= IF n <= n0 THEN x + PerCall ELSE x
      BY <1>1, <2>1
    <3>2. QED
      BY <1>3, <1>5, <3>1
  <2>3. \A n \in Nat \ {0} :
           Cardinality(GuardedAt(guard', n)) <=
             IF n <= step' THEN (resets' + 1) * PerCall
             ELSE resets' * PerCall + (IF n = step' + 1 /\ phase' = "launched" THEN GuardedPred ELSE 0)
    <3>1. resets' * PerCall = x /\ (resets' + 1) * PerCall = x + PerCall /\ x + 0 = x
          /\ GuardedPred = 0
      BY <1>0, <2>1
    <3>2. QED
      BY <2>1, <2>2, <3>1
  <2>4. resets' <= Passes /\ mapped' * Chunk >= Room /\ step' # 0
    BY <1>1, <2>1
  <2>5. QED
    BY <1>4, <2>3, <2>4 DEF CountInv
<1>10. CASE Gemm
  <2>1. /\ guard' = guard /\ step' = step /\ resets' = resets /\ mapped' = mapped
        /\ phase \in {"routed", "early"}
    BY <1>10 DEF Gemm
  <2>2. QED
    BY <1>0, <1>1, <1>2, <2>1, SameCount
<1>11. ASSUME NEW k \in 1 .. mapped, RetireTop(k)
       PROVE  CountInv'
  <2>1. /\ guard' = guard /\ step' = step /\ resets' = resets /\ mapped' = mapped - k
        /\ phase = "idle" /\ phase' = phase /\ Elastic /\ (mapped - k) * Chunk >= MinSlots
    BY <1>11 DEF RetireTop, AboveFloor
  <2>2. mapped' * Chunk >= Room
    <3>1. PICK m \in Int : m = (mapped - k) * Chunk
      BY <1>2, <1>5 DEF TypeOK
    <3>2. Room <= MinSlots /\ MinSlots \in Nat
      BY <2>1, SizesAre DEF Room
    <3>3. QED
      BY <1>5, <2>1, <3>1, <3>2
  <2>3. QED
    BY <1>0, <1>1, <1>2, <2>1, <2>2, SameCount
<1>12. ASSUME NEW k \in 1 .. NumChunks, Restore(k)
       PROVE  CountInv'
  <2>1. /\ guard' = guard /\ step' = step /\ resets' = resets /\ mapped' = mapped + k
        /\ phase = "idle" /\ phase' = phase
    BY <1>12 DEF Restore
  <2>2. mapped' * Chunk >= Room
    <3>1. mapped \in Nat /\ k \in Nat /\ mapped <= mapped + k /\ mapped + k \in Nat
      BY <1>2, <1>5 DEF TypeOK
    <3>2. PICK a \in Nat, b \in Nat : a = mapped /\ b = mapped + k /\ a <= b
      BY <3>1
    <3>3. a * Chunk <= b * Chunk /\ a * Chunk \in Nat /\ b * Chunk \in Nat
      BY <1>5, <3>2, PassesTimes
    <3>4. PICK u \in Nat, v \in Nat : u = a * Chunk /\ v = b * Chunk /\ u <= v
      BY <3>3
    <3>5. QED
      BY <1>1, <1>5, <2>1, <3>2, <3>4
  <2>3. QED
    BY <1>0, <1>1, <1>2, <2>1, <2>2, SameCount
<1>13. ASSUME NEW b \in {0, 1}, InvalidateBuffer(b)
       PROVE  CountInv'
  <2>1. /\ guard' = guard /\ step' = step /\ resets' = resets /\ mapped' = mapped
        /\ phase = "idle" /\ phase' = phase
    BY <1>13 DEF InvalidateBuffer
  <2>2. QED
    BY <1>0, <1>1, <1>2, <2>1, SameCount
<1>14. CASE Reset
  <2>1. /\ guard' = guard /\ step' = 0 /\ resets' = resets + 1 /\ mapped' = mapped
        /\ phase = "idle" /\ phase' = phase /\ ~Elastic /\ resets < MaxResets
    BY <1>14 DEF Reset
  <2>2. ASSUME NEW n \in Nat \ {0}
        PROVE  Cardinality(GuardedAt(guard, n)) <= x + PerCall
    <3>1. Cardinality(GuardedAt(guard, n)) <= IF n <= n0 THEN x + PerCall ELSE x
      BY <1>1, <2>1
    <3>2. QED
      BY <1>3, <1>5, <3>1
  <2>3. \A n \in Nat \ {0} :
           Cardinality(GuardedAt(guard', n)) <=
             IF n <= step' THEN (resets' + 1) * PerCall
             ELSE resets' * PerCall + (IF n = step' + 1 /\ phase' = "launched" THEN GuardedPred ELSE 0)
    <3>1. resets' * PerCall = x + PerCall /\ phase' # "launched" /\ (x + PerCall) + 0 = x + PerCall
      BY <1>0, <1>5, <2>1
    <3>2. \A n \in Nat \ {0} : ~(n <= step')
      BY <2>1
    <3>3. QED
      BY <2>1, <2>2, <3>1, <3>2
  <2>4. resets' <= Passes
    BY <1>2, <2>1, SizesAre DEF Passes, TypeOK
  <2>5. QED
    BY <1>1, <1>4, <2>1, <2>3, <2>4 DEF CountInv
<1>15. CASE UNCHANGED vars
  <2>1. /\ guard' = guard /\ step' = step /\ resets' = resets /\ mapped' = mapped
        /\ phase' = phase
    BY <1>15 DEF vars
  <2>2. QED
    BY <1>0, <1>1, <1>2, <2>1, SameCount
<1>16. QED
  BY <1>6, <1>7, <1>8, <1>9, <1>10, <1>11, <1>12, <1>13, <1>14, <1>15
     DEF Next, EnsureStep, PrefetchStep, ElasticStep

(* The live slots are at least Room: what covers them is no smaller.        *)
LEMMA LiveCount ==
  ASSUME TypeOK, mapped * Chunk >= Room,
         NEW C, IsFiniteSet(C), NEW B, IsFiniteSet(B), ActiveSlots \subseteq C \cup B
  PROVE  /\ Cardinality(C) \in Nat /\ Cardinality(B) \in Nat
         /\ Room <= Cardinality(C) + Cardinality(B)
<1>1. PICK R \in Nat : R = Room
  BY SizesAre
<1>2. PICK S : S = 0 .. (R - 1)
  OBVIOUS
<1>3. Cardinality(S) = R
  <2>1. 0 \in Int /\ R - 1 \in Int
    BY <1>1
  <2>2. Cardinality(0 .. (R - 1)) = IF 0 > R - 1 THEN 0 ELSE (R - 1) - 0 + 1
    BY <2>1, FS_Interval
  <2>3. QED
    BY <1>1, <1>2, <2>2
<1>4. S \subseteq C \cup B
  <2>1. PICK m \in Int : m = mapped * Chunk
    BY SizesAre DEF TypeOK
  <2>2. R <= CacheSize /\ CacheSize \in Nat /\ R <= m
    BY <1>1, <2>1, SizesAre
  <2>3. \A s \in S : s \in Slots /\ s < m
    BY <1>1, <1>2, <2>1, <2>2, SizesAre
  <2>4. QED
    BY <2>1, <2>3 DEF ActiveSlots
<1>5. QED
  BY <1>1, <1>3, <1>4, CoverSize

(* What the counting leaves for the next ensure and the next prediction.    *)
LEMMA CountSuffices ==
  ASSUME Roomy, IInv, CountInv
  PROVE  VictimsSuffice
<1>0. TypeOK /\ MapInverse /\ mapped * Chunk >= Room
  BY DEF IInv, CountInv
<1>1. PICK n0 \in Nat, x \in Nat, z \in Nat, gp \in Nat, pc \in Nat, mq \in Nat, mp \in Nat :
        n0 = step /\ x = resets * PerCall /\ (resets + 1) * PerCall = x + pc
        /\ z = Passes * PerCall /\ gp = GuardedPred /\ pc = PerCall /\ mq = MaxQuery
        /\ mp = MaxPred /\ x <= z /\ pc = mq + gp
  <2>1. /\ resets \in Nat /\ PerCall \in Nat /\ step \in Nat /\ GuardedPred \in Nat
        /\ PerCall = MaxQuery + GuardedPred /\ Passes \in Nat /\ resets <= Passes
        /\ MaxQuery \in Nat /\ MaxPred \in Nat
    BY <1>0, SizesAre DEF CountInv, TypeOK, PerCall
  <2>2. resets * PerCall \in Nat /\ (resets + 1) * PerCall = resets * PerCall + PerCall
        /\ resets * PerCall <= Passes * PerCall
    BY <2>1, PassesTimes
  <2>3. Passes * PerCall \in Nat
    BY <2>1, PassesTimes
  <2>4. QED
    BY <2>1, <2>2, <2>3
<1>2. PICK room \in Nat : room = Room /\ z + pc <= room
  <2>1. (Passes + 1) * PerCall = Passes * PerCall + PerCall
    BY SizesAre, PassesTimes
  <2>2. QED
    BY <1>1, <2>1, SizesAre DEF Roomy
<1>3. \A n \in Nat \ {0} :
        Cardinality(GuardedAt(guard, n)) <=
          IF n <= n0 THEN x + pc
          ELSE x + (IF n = n0 + 1 /\ phase = "launched" THEN gp ELSE 0)
  BY <1>1 DEF CountInv
<1>4. \A n : IsFiniteSet(GuardedAt(guard, n)) /\ Cardinality(GuardedAt(guard, n)) \in Nat
  BY SlotsFinite
<1>5. \A s \in ActiveSlots : s \in Slots /\ usage[s] < KMax
  BY DEF IInv, RetiredPinned, RetiredSlots, ActiveSlots
<1>6. ASSUME NEW l \in Layers, NEW q \in Queries(l), NextLayer(l)
      PROVE  Cardinality(Missing(q)) <= Cardinality(Candidates(usage, HitGuard(q), {step + 1}))
  <2>1. q \in SUBSET Ids /\ IsFiniteSet(q) /\ Cardinality(q) <= mq /\ Cardinality(q) \in Nat
    BY <1>1, InputsFinite
  <2>2. PICK C, H, M, G : C = Candidates(usage, HitGuard(q), {step + 1}) /\ H = Held(q)
                          /\ M = Missing(q) /\ G = GuardedAt(guard, n0 + 1)
    OBVIOUS
  <2>3. /\ IsFiniteSet(H) /\ Cardinality(H) \in Nat /\ Cardinality(M) \in Nat
        /\ Cardinality(H) + Cardinality(M) <= Cardinality(q)
    BY <2>1, <2>2, HitsSize
  <2>4. IsFiniteSet(C)
    <3>1. C \subseteq Slots
      BY <2>2 DEF Candidates
    <3>2. QED
      BY <3>1, SlotsFinite, FS_Subset
  <2>5. PICK B : B = H \cup G
    OBVIOUS
  <2>6. IsFiniteSet(B) /\ Cardinality(B) \in Nat /\ Cardinality(B) <= Cardinality(H) + Cardinality(G)
    BY <1>4, <2>2, <2>3, <2>5, CoverSize
  <2>7. ActiveSlots \subseteq C \cup B
    BY <1>1, <1>5, <2>2, <2>5 DEF Candidates, HitGuard, Marked, GuardedAt
  <2>8. Cardinality(C) \in Nat /\ room <= Cardinality(C) + Cardinality(B)
    BY <1>0, <1>2, <2>4, <2>6, <2>7, LiveCount
  <2>9. Cardinality(G) <= x + gp /\ Cardinality(G) \in Nat
    <3>1. n0 + 1 \in Nat \ {0} /\ ~(n0 + 1 <= n0)
      OBVIOUS
    <3>2. Cardinality(G) <= x + (IF phase = "launched" THEN gp ELSE 0)
      BY <1>3, <2>2, <3>1
    <3>3. QED
      BY <1>4, <2>2, <3>2
  <2>10. PICK c \in Nat, b \in Nat, h \in Nat, m \in Nat, k \in Nat, d \in Nat :
           c = Cardinality(C) /\ b = Cardinality(B) /\ h = Cardinality(H)
           /\ m = Cardinality(M) /\ k = Cardinality(G) /\ d = Cardinality(q)
    BY <2>1, <2>3, <2>6, <2>8, <2>9
  <2>11. m <= c
    BY <1>1, <1>2, <2>1, <2>3, <2>6, <2>8, <2>9, <2>10
  <2>12. QED
    BY <2>2, <2>10, <2>11
<1>7. ASSUME NEW q \in Predictions, phase = (IF EarlyPf THEN "routed" ELSE "computed")
      PROVE  Cardinality(Missing(q)) <= Cardinality(PrefetchCandidates(q))
  <2>1. q \in SUBSET Ids /\ IsFiniteSet(q) /\ Cardinality(q) <= mp /\ Cardinality(q) \in Nat
    BY <1>1, InputsFinite
  <2>2. PICK H, M, C : H = Held(q) /\ M = Missing(q) /\ C = PrefetchCandidates(q)
    OBVIOUS
  <2>3. /\ IsFiniteSet(H) /\ Cardinality(H) \in Nat /\ Cardinality(M) \in Nat
        /\ Cardinality(H) + Cardinality(M) <= Cardinality(q)
    BY <2>1, <2>2, HitsSize
  <2>4. IsFiniteSet(C)
    <3>1. C \subseteq Slots
      BY <2>2 DEF PrefetchCandidates, Candidates
    <3>2. QED
      BY <3>1, SlotsFinite, FS_Subset
  <2>5. PICK G, N : G = GuardedAt(guard, n0) /\ N = GuardedAt(guard, n0 + 1)
    OBVIOUS
  <2>6. n0 # 0 /\ phase # "idle" /\ phase # "launched"
    BY <1>1, <1>7 DEF CountInv
  <2>7. Cardinality(G) <= x + pc /\ Cardinality(G) \in Nat /\ IsFiniteSet(G)
    BY <1>3, <1>4, <2>5, <2>6
  <2>8. Cardinality(N) <= x /\ Cardinality(N) \in Nat /\ IsFiniteSet(N)
    <3>1. n0 + 1 \in Nat \ {0} /\ ~(n0 + 1 <= n0)
      OBVIOUS
    <3>2. Cardinality(N) <= x + 0
      BY <1>3, <2>5, <2>6, <3>1
    <3>3. QED
      BY <1>4, <2>5, <3>2
  <2>9. PICK h \in Nat, m \in Nat, k \in Nat, k1 \in Nat, d \in Nat :
          h = Cardinality(H) /\ m = Cardinality(M) /\ k = Cardinality(G)
          /\ k1 = Cardinality(N) /\ d = Cardinality(q)
    BY <2>1, <2>3, <2>7, <2>8
  <2>10. m <= mp /\ h + m <= mp
    BY <2>1, <2>3, <2>9
  <2>11. CASE EarlyPf
    <3>1. z + pc + mp <= room
      <4>1. (Passes + 1) * PerCall = Passes * PerCall + PerCall
        BY SizesAre, PassesTimes
      <4>2. (Passes + 1) * PerCall + MaxPred <= Room
        BY <2>11 DEF Roomy
      <4>3. QED
        BY <1>1, <1>2, <4>1, <4>2
    <3>2. ActiveSlots \subseteq C \cup G
      BY <1>1, <1>5, <2>2, <2>5, <2>11 DEF PrefetchCandidates, Candidates, GuardedAt
    <3>3. Cardinality(C) \in Nat /\ room <= Cardinality(C) + Cardinality(G)
      BY <1>0, <1>2, <2>4, <2>7, <3>2, LiveCount
    <3>4. PICK c \in Nat : c = Cardinality(C)
      BY <3>3
    <3>5. m <= c
      BY <1>1, <2>7, <2>9, <2>10, <3>1, <3>3, <3>4
    <3>6. QED
      BY <2>2, <2>9, <3>4, <3>5
  <2>12. CASE ~EarlyPf /\ PfGuard
    <3>1. z + z + pc + mp <= room
      <4>1. Passes \in Nat /\ PerCall \in Nat
        BY SizesAre
      <4>2. (2 * Passes + 1) * PerCall = Passes * PerCall + Passes * PerCall + PerCall
        BY <4>1
      <4>3. (2 * Passes + 1) * PerCall + MaxPred <= Room
        BY <2>12 DEF Roomy
      <4>4. QED
        BY <1>1, <1>2, <4>2, <4>3
    <3>2. PICK B : B = G \cup N
      OBVIOUS
    <3>3. IsFiniteSet(B) /\ Cardinality(B) \in Nat
          /\ Cardinality(B) <= Cardinality(G) + Cardinality(N)
      BY <2>7, <2>8, <3>2, CoverSize
    <3>4. ActiveSlots \subseteq C \cup B
      BY <1>1, <1>5, <2>2, <2>5, <2>12, <3>2 DEF PrefetchCandidates, Candidates, GuardedAt
    <3>5. Cardinality(C) \in Nat /\ room <= Cardinality(C) + Cardinality(B)
      BY <1>0, <1>2, <2>4, <3>3, <3>4, LiveCount
    <3>6. PICK c \in Nat, b \in Nat : c = Cardinality(C) /\ b = Cardinality(B)
      BY <3>3, <3>5
    <3>7. m <= c
      BY <1>1, <2>7, <2>8, <2>9, <2>10, <3>1, <3>3, <3>5, <3>6
    <3>8. QED
      BY <2>2, <2>9, <3>6, <3>7
  <2>13. CASE ~EarlyPf /\ ~PfGuard
    <3>1. mp <= room
      BY <1>1, <1>2, <2>13 DEF Roomy
    <3>2. ActiveSlots \subseteq C \cup H
      BY <1>5, <2>2, <2>13 DEF PrefetchCandidates
    <3>3. Cardinality(C) \in Nat /\ room <= Cardinality(C) + Cardinality(H)
      BY <1>0, <1>2, <2>3, <2>4, <3>2, LiveCount
    <3>4. PICK c \in Nat : c = Cardinality(C)
      BY <3>3
    <3>5. m <= c
      BY <2>9, <2>10, <3>1, <3>3, <3>4
    <3>6. QED
      BY <2>2, <2>9, <3>4, <3>5
  <2>14. QED
    BY <2>11, <2>12, <2>13
<1>8. QED
  BY <1>6, <1>7 DEF VictimsSuffice

(* Any call that can come next finds a victim for every one of its misses,  *)
(* whatever was retired and whatever guards a reset left behind, once the   *)
(* live slots are above what the calls of all passes can guard (the engine  *)
(* keeps min_slots at 2 * num_experts + 512 for the same reason).           *)
THEOREM VictimsEnough ==
  ASSUME Roomy
  PROVE  Spec => []VictimsSuffice
<1>1. Init => IInv /\ CountInv
  BY InitInv, InitCount
<1>2. (IInv /\ CountInv) /\ [Next]_vars => (IInv /\ CountInv)'
  BY NextInv, NextCount
<1>3. IInv /\ CountInv => VictimsSuffice
  BY CountSuffices
<1>4. QED
  BY <1>1, <1>2, <1>3, PTL DEF Spec
=============================================================================
