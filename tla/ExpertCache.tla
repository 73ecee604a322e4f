----------------------------- MODULE ExpertCache -----------------------------
(***************************************************************************)
(* The expert slot cache of the offloaded MoE decode: GPU slots hold the   *)
(* weights of (layer, expert) ids, one single-CTA kernel per call looks up *)
(* the routed ids, evicts and maps the misses (moe/soft_ensure.py), a      *)
(* predictor maps the next layer's likely ids (moe/spec_prefetch.py), and  *)
(* top chunks of slots are retired to and restored from the KV pool        *)
(* (the elastic_* methods of moe/offload_cache.py).                        *)
(*                                                                         *)
(* A kernel is atomic: kernels run on one stream and a single CTA.  What   *)
(* is concurrent -- the byte copies on the side streams -- is represented  *)
(* by the slots an in-flight copy still owns (inflight) and by the slots   *)
(* the current layer's GEMM reads (routes).                                *)
(*                                                                         *)
(* Abstractions: a touch gives an expert any CRF priority of Prios but     *)
(* P_NONE (the clamp of the exponent and the rounding of log2 can lower a  *)
(* priority as well as raise it), a selected one SoftBase at least; which  *)
(* miss goes to which of the chosen victims is left open.                  *)
(***************************************************************************)
EXTENDS Integers, FiniteSets, Functions

CONSTANTS
  NumLayers,   (* offloaded MoE layers, decoded in order                   *)
  Experts,     (* the experts of one layer                                 *)
  CacheSize,   (* slots of the cache                                       *)
  Chunk,       (* EXPERT_CHUNK: slots per elastic chunk                    *)
  NumChunks,   (* chunks that hold CacheSize slots, rounded up             *)
  MinSlots,    (* slots the elastic retire never goes below                *)
  PNone,       (* P_NONE, the priority of an expert never touched          *)
  Fresh,       (* 0, the key of a slot nothing ever filled                 *)
  SoftBase,    (* the lowest priority a selected expert's touch can give   *)
  KMax,        (* INT64_MAX: an excluded or retired slot's eviction key    *)
  MaxQuery,    (* distinct ids of one ensure                               *)
  MaxNear,     (* near misses ranked beside the query of one ensure        *)
  MaxPred,     (* distinct ids of one prediction                           *)
  MaxStep,     (* bound: no decode step starts at this ensure count       *)
  MaxResets,   (* bound on the resets of one behaviour                     *)
  EarlyPf,     (* FREETOKEN_MOE_SPEC_EARLY: launch_early before the GEMM   *)
  Elastic,     (* FREETOKEN_ELASTIC: slots lend their bytes to the KV pool *)
  PfGuard,     (* _SOFT_PF_GUARD: launch maps touch-free and guards        *)
  NoId         (* id_of_slot == -1                                         *)

Layers == 0 .. NumLayers - 1
Ids    == Layers \X Experts
Slots  == 0 .. CacheSize - 1
NoSlot == -1
Prios  == PNone .. (KMax - 1)
LayerIds(l) == {l} \X Experts

ASSUME SizeAssumption ==
  /\ NumLayers \in Nat \ {0}
  /\ IsFiniteSet(Experts)
  /\ CacheSize \in Nat \ {0}
  /\ Chunk \in Nat \ {0}
  /\ MinSlots \in Nat
  /\ MaxQuery \in Nat \ {0}
  /\ MaxNear \in Nat
  /\ MaxPred \in Nat
  /\ MaxStep \in Nat
  /\ MaxResets \in Nat
  /\ NumChunks \in Nat \ {0}
  /\ (NumChunks - 1) * Chunk < CacheSize /\ CacheSize <= NumChunks * Chunk
ASSUME PrioAssumption ==
  /\ PNone \in Int
  /\ KMax \in Int
  /\ Fresh \in Int
  /\ PNone < Fresh /\ Fresh < KMax
  /\ SoftBase \in (PNone + 1) .. (KMax - 1)
  /\ ~EarlyPf /\ ~PfGuard => Fresh + MaxStep + 2 * NumLayers <= KMax
ASSUME FlagAssumption == {EarlyPf, Elastic, PfGuard} \subseteq BOOLEAN
ASSUME NoIdAssumption == NoId \notin Ids

VARIABLES
  slotOf,    (* slot_for_id                                                *)
  idOf,      (* id_of_slot                                                 *)
  usage,     (* usage: the eviction key of each slot                       *)
  prio,      (* soft_prio                                                  *)
  guard,     (* soft_guard: the call during which a slot is no victim      *)
  step,      (* the ensure counter                                         *)
  resets,    (* resets so far, only to bound them                          *)
  mapped,    (* _el_mapped: chunks whose bytes are mapped                  *)
  layer,     (* the layer being decoded                                    *)
  phase,     (* where the decode of that layer is                          *)
  routes,    (* id -> slot of the routed ids, read by the layer's GEMM     *)
  inflight   (* id -> slot filled by a side-stream copy nobody waited yet  *)

cacheVars == <<slotOf, idOf, usage, prio, guard, step, mapped, resets>>
flowVars  == <<layer, phase, routes, inflight>>
vars      == <<slotOf, idOf, usage, prio, guard, step, mapped, resets,
               layer, phase, routes, inflight>>

NoMap == [i \in {} |-> NoSlot]
Phases == {"idle", "routed", "early", "computed", "launched"}

-----------------------------------------------------------------------------
(* Slots and victims.                                                      *)

ActiveSlots  == {s \in Slots : s < mapped * Chunk}     \* elastic_active_slots
RetiredSlots == Slots \ ActiveSlots
ChunkRange(lo, hi) == {s \in Slots : lo * Chunk <= s /\ s < hi * Chunk}

(* tl.argmin of the keys: the smallest key, the lowest slot among equals.  *)
Before(u, a, b) == u[a] < u[b] \/ (u[a] = u[b] /\ a < b)

\* Mutants: the guard test dropped, the guard read as "not before" instead of
\* "exactly at".
Candidates_NoGuard(u, g, excluded) == {s \in Slots : u[s] < KMax}
Candidates_NotBefore(u, g, excluded) ==
  {s \in Slots : (\A x \in excluded : g[s] < x) /\ u[s] < KMax}
Candidates(u, g, excluded) == {s \in Slots : g[s] \notin excluded /\ u[s] < KMax}

(* The eviction loop: one victim per missing id, in key order.             *)
IsVictimMap(f, missing, u, cand) ==
  /\ DOMAIN f = missing
  /\ Range(f) \subseteq cand
  /\ IsInjective(f)
  /\ \A v \in Range(f) : \A s \in cand \ Range(f) : Before(u, v, s)

Missing(q) == {i \in q : slotOf[i] = NoSlot}
Held(q)    == {slotOf[i] : i \in q} \ {NoSlot}
HeldBy(q, s) == CHOOSE i \in q : slotOf[i] = s

Loaded(f, s) == CHOOSE i \in DOMAIN f : f[i] = s

\* Mutant: the evicted id keeps its slot.
Install_KeepOld(f) ==
  /\ slotOf' = [i \in Ids |-> IF i \in DOMAIN f THEN f[i] ELSE slotOf[i]]
  /\ idOf' = [s \in Slots |->
                IF s \in Range(f) THEN Loaded(f, s) ELSE idOf[s]]
(* The stores of the eviction loop, for the misses and victims of f.       *)
Install(f) ==
  /\ slotOf' = [i \in Ids |->
                  IF i \in DOMAIN f THEN f[i]
                  ELSE IF \E v \in Range(f) : idOf[v] = i THEN NoSlot
                  ELSE slotOf[i]]
  /\ idOf' = [s \in Slots |->
                IF s \in Range(f) THEN Loaded(f, s) ELSE idOf[s]]

(* A per-slot table after the loop: the victims take their new id's value. *)
Filled(f, table, val) ==
  [s \in Slots |-> IF s \in Range(f) THEN val[Loaded(f, s)] ELSE table[s]]
Marked(S, table, v) == [s \in Slots |-> IF s \in S THEN v ELSE table[s]]

-----------------------------------------------------------------------------
Init ==
  /\ slotOf = [i \in Ids |-> NoSlot]
  /\ idOf = [s \in Slots |-> NoId]
  /\ usage = [s \in Slots |-> Fresh]
  /\ prio = [i \in Ids |-> PNone]
  /\ guard = [s \in Slots |-> 0]
  /\ step = 0
  /\ mapped = NumChunks
  /\ resets = 0
  /\ layer = 0
  /\ phase = "idle"
  /\ routes = NoMap
  /\ inflight = NoMap

(* The layer whose ensure comes next: 0 starts a decode step.              *)
NextLayer(l) ==
  \/ phase = "idle" /\ l = 0 /\ step < MaxStep
  \/ phase \in {"computed", "launched"} /\ l = layer + 1

(* CRF touches of the ranked ids, a superset of the query.  A selected id  *)
(* adds one to its counter, which alone keeps its priority over SoftBase;  *)
(* a near miss adds less.                                                  *)
Touches(q, ranked) ==
  {p \in [ranked -> Prios \ {PNone}] : \A i \in q : p[i] >= SoftBase}

TouchedPrio(p)  == [i \in Ids |-> IF i \in DOMAIN p THEN p[i] ELSE prio[i]]
\* Mutant: a touch forgets the key of the slot that holds the expert.
TouchedUsage_Stale(p) == usage
TouchedUsage(p) ==
  [s \in Slots |-> IF s \in Held(DOMAIN p) THEN p[HeldBy(DOMAIN p, s)] ELSE usage[s]]
HitGuard(q) == Marked(Held(q), guard, step + 1)

(* _soft_ensure_kernel on layer l: touch the ranked ids, guard the hits,   *)
(* map every miss over a victim that this call and no pending prefetch     *)
(* protects.                                                               *)
Ensure(l, q, p, f) ==
  /\ NextLayer(l)
  /\ IsVictimMap(f, Missing(q), TouchedUsage(p),
                 Candidates(TouchedUsage(p), HitGuard(q), {step + 1}))
  /\ step' = step + 1
  /\ prio' = TouchedPrio(p)
  /\ Install(f)
  /\ usage' = Filled(f, TouchedUsage(p), TouchedPrio(p))
  /\ guard' = Marked(Range(f), HitGuard(q), step + 1)
  /\ layer' = l
  /\ phase' = "routed"
  /\ routes' = [i \in q |-> slotOf'[i]]
  /\ UNCHANGED <<mapped, resets, inflight>>

(* A prediction is for the next layer, which must have a registered block. *)
TargetIds(q) == \E l \in Layers : l = layer + 1 /\ q \subseteq LayerIds(l)

(* launch_early / soft_prefetch: map the predicted ids of the next layer   *)
(* before this layer's GEMM; the copy is queued behind this layer's demand *)
(* copy on the same stream, so the slots it fills need no guard.           *)
PrefetchEarly(q, f) ==
  /\ EarlyPf
  /\ phase = "routed"
  /\ TargetIds(q)
  /\ IsVictimMap(f, Missing(q), usage, Candidates(usage, guard, {step}))
  /\ Install(f)
  /\ usage' = Filled(f, usage, prio)
  /\ phase' = "early"
  /\ UNCHANGED <<prio, guard, step, mapped, resets, layer, routes, inflight>>

(* The layer's expert GEMM, after before_gemm waited the prefetch copies   *)
(* aimed at it.  The last layer's GEMM ends the decode step: its launch    *)
(* finds no next block.                                                    *)
Gemm ==
  /\ phase \in {"routed", "early"}
  /\ phase' = IF layer = NumLayers - 1 THEN "idle" ELSE "computed"
  /\ routes' = NoMap
  /\ inflight' = [i \in {j \in DOMAIN inflight : j[1] # layer} |-> inflight[i]]
  /\ UNCHANGED <<slotOf, idOf, usage, prio, guard, step, mapped, resets, layer>>

(* launch with _SOFT_PF_GUARD / soft_prefetch_guarded: map the predicted   *)
(* ids after the GEMM and guard them for the next ensure, because their    *)
(* copy runs on a stream of its own.                                       *)
PrefetchGuarded(q, f) ==
  /\ ~EarlyPf /\ PfGuard
  /\ phase = "computed"
  /\ TargetIds(q)
  /\ IsVictimMap(f, Missing(q), usage, Candidates(usage, guard, {step, step + 1}))
  /\ Install(f)
  /\ usage' = Filled(f, usage, prio)
  /\ guard' = Marked(Range(f), guard, step + 1)
  /\ phase' = "launched"
  /\ inflight' = f
  /\ UNCHANGED <<prio, step, mapped, resets, layer, routes>>

\* lru_ensure's stamp: the raw counter it has just advanced, on the soft scale.
LruStamp == Fresh + step + 1

(* launch with the guard off: flashlib's lru_ensure, which advances the    *)
(* counter and stamps it on hits and fills alike.                          *)
PrefetchLru(q, f) ==
  LET u == Marked(Held(q), usage, LruStamp)
  IN
  /\ ~EarlyPf /\ ~PfGuard
  /\ phase = "computed"
  /\ TargetIds(q)
  /\ IsVictimMap(f, Missing(q), u, {s \in Slots \ Held(q) : usage[s] < KMax})
  /\ step' = step + 1
  /\ Install(f)
  /\ usage' = Marked(Range(f), u, LruStamp)
  /\ phase' = "launched"
  /\ inflight' = f
  /\ UNCHANGED <<prio, guard, mapped, resets, layer, routes>>

-----------------------------------------------------------------------------
(* Between decode steps.                                                   *)

(* Empty a set of slots: unmap their ids.                                  *)
Vacate(S) ==
  /\ slotOf' = [i \in Ids |-> IF \E s \in S : idOf[s] = i THEN NoSlot ELSE slotOf[i]]
  /\ idOf' = Marked(S, idOf, NoId)

\* Mutants: no floor, and one chunk too many restored.
AboveFloor_None(k) == TRUE
AboveFloor(k) == (mapped - k) * Chunk >= MinSlots
WasRetired_OneMore(k) == mapped + k <= NumChunks + 1
WasRetired(k) == mapped + k <= NumChunks

(* elastic_retire_until: the top k chunks, as many as the bytes asked for  *)
(* take and MinSlots allows.                                               *)
RetireTop(k) ==
  /\ Elastic
  /\ phase = "idle"
  /\ AboveFloor(k)
  /\ Vacate(ChunkRange(mapped - k, mapped))
  /\ usage' = Marked(ChunkRange(mapped - k, mapped), usage, KMax)
  /\ mapped' = mapped - k
  /\ UNCHANGED <<prio, guard, step, resets, layer, phase, routes, inflight>>

(* elastic_restore: the next k retired chunks come back empty, with the    *)
(* lowest key.                                                             *)
Restore(k) ==
  /\ Elastic
  /\ phase = "idle"
  /\ WasRetired(k)
  /\ idOf' = Marked(ChunkRange(mapped, mapped + k), idOf, NoId)
  /\ usage' = Marked(ChunkRange(mapped, mapped + k), usage, PNone)
  /\ mapped' = mapped + k
  /\ UNCHANGED <<slotOf, prio, guard, step, resets, layer, phase, routes, inflight>>

(* _invalidate_prefill_buffer, as ondemand_staging and b12x_warmup use it: *)
(* no live expert stays mapped in the buffer's slots.                      *)
InvalidateBuffer(b) ==
  /\ phase = "idle"
  /\ Vacate({s \in Slots : b * Cardinality(Experts) <= s /\ s < (b + 1) * Cardinality(Experts)})
  /\ UNCHANGED <<usage, prio, guard, step, mapped, resets, layer, phase, routes, inflight>>

\* Mutant: an elastic server resets too, and forgets the pins of retired slots.
Reset_Elastic ==
  /\ phase = "idle"
  /\ resets < MaxResets
  /\ slotOf' = [i \in Ids |-> NoSlot]
  /\ idOf' = [s \in Slots |-> NoId]
  /\ usage' = [s \in Slots |-> Fresh]
  /\ step' = 0
  /\ resets' = resets + 1
  /\ UNCHANGED <<prio, guard, mapped, layer, phase, routes, inflight>>
(* reset: a cold cache and a rewound counter; soft_prio and soft_guard     *)
(* stay.  An elastic server refuses the runtime rebuild that resets.       *)
Reset ==
  /\ ~Elastic
  /\ phase = "idle"
  /\ resets < MaxResets
  /\ slotOf' = [i \in Ids |-> NoSlot]
  /\ idOf' = [s \in Slots |-> NoId]
  /\ usage' = [s \in Slots |-> Fresh]
  /\ step' = 0
  /\ resets' = resets + 1
  /\ UNCHANGED <<prio, guard, mapped, layer, phase, routes, inflight>>

-----------------------------------------------------------------------------
(* The inputs.                                                             *)
Queries(l) == {q \in SUBSET LayerIds(l) : q # {} /\ Cardinality(q) <= MaxQuery}
Ranked(l, q) ==
  {r \in SUBSET LayerIds(l) : q \subseteq r /\ Cardinality(r \ q) <= MaxNear}
Predictions == {q \in UNION {SUBSET LayerIds(l) : l \in Layers \cap {layer + 1}} :
                  q # {} /\ Cardinality(q) <= MaxPred}
VictimChoices(q) == [Missing(q) -> Slots]

EnsureStep ==
  \E l \in Layers : \E q \in Queries(l) : \E r \in Ranked(l, q) :
    \E p \in Touches(q, r) : \E f \in VictimChoices(q) : Ensure(l, q, p, f)
PrefetchStep ==
  \E q \in Predictions : \E f \in VictimChoices(q) :
    PrefetchEarly(q, f) \/ PrefetchGuarded(q, f) \/ PrefetchLru(q, f)
ElasticStep ==
  \/ \E k \in 1 .. mapped : RetireTop(k)
  \/ \E k \in 1 .. NumChunks : Restore(k)

Next ==
  \/ EnsureStep
  \/ PrefetchStep
  \/ Gemm
  \/ ElasticStep
  \/ \E b \in {0, 1} : InvalidateBuffer(b)
  \/ Reset

Spec == Init /\ [][Next]_vars

-----------------------------------------------------------------------------
(* Properties.                                                             *)

(* Every variable has its type.                                            *)
TypeOK ==
  /\ slotOf \in [Ids -> Slots \cup {NoSlot}]
  /\ idOf \in [Slots -> Ids \cup {NoId}]
  /\ usage \in [Slots -> Int]
  /\ prio \in [Ids -> Prios]
  /\ guard \in [Slots -> Nat]
  /\ step \in Nat
  /\ mapped \in 0 .. NumChunks
  /\ resets \in Nat
  /\ layer \in Layers
  /\ phase \in Phases
  /\ routes \in UNION {[q -> Slots \cup {NoSlot}] : q \in SUBSET Ids}
  /\ inflight \in UNION {[q -> Slots] : q \in SUBSET Ids}

(* slot_for_id and id_of_slot are inverse of each other: a routed id reads *)
(* the slot that holds it and no slot is claimed twice, whatever mix of    *)
(* ensures, prefetches, retirements and resets wrote the two tables.       *)
MapInverse ==
  /\ \A i \in Ids : slotOf[i] # NoSlot => idOf[slotOf[i]] = i
  /\ \A s \in Slots : idOf[s] # NoId => slotOf[idOf[s]] = s

(* Retired slots, whose bytes are unmapped, hold no expert and carry the   *)
(* key no eviction picks; every other slot carries a key that can be       *)
(* picked ("usage pinned at INT64_MAX so no ensure picks them").           *)
RetiredPinned ==
  \A s \in Slots : IF s \in RetiredSlots THEN idOf[s] = NoId /\ usage[s] = KMax
                   ELSE usage[s] < KMax

(* Eviction ranks a cached expert by its current CRF priority: the key     *)
(* copied into the slot follows every touch of the expert, including the   *)
(* touches it got as a near miss while not cached.                         *)
KeyIsPriority ==
  \A s \in Slots : idOf[s] # NoId => usage[s] = prio[idOf[s]]

(* Until its GEMM has run, every route of the current layer stays in the   *)
(* slot the ensure answered: no prefetch in between evicts it.             *)
RoutesKept ==
  \A i \in DOMAIN routes : slotOf[i] = routes[i] /\ idOf[routes[i]] = i

(* A slot filled on the prefetch stream keeps its expert until the target  *)
(* layer's GEMM has waited the copy: the ensure that comes before that     *)
(* wait must not map another expert over bytes still being written.        *)
InFlightKept ==
  \A i \in DOMAIN inflight : slotOf[i] = inflight[i] /\ idOf[inflight[i]] = i

(* There is a victim for every miss of any call that can come next, so the *)
(* argmin never runs over slots that are all excluded: not after chunks    *)
(* were retired, and not under the guards a reset left behind.             *)
PrefetchCandidates(q) ==
  IF EarlyPf THEN Candidates(usage, guard, {step})
  ELSE IF PfGuard THEN Candidates(usage, guard, {step, step + 1})
  ELSE {s \in Slots \ Held(q) : usage[s] < KMax}
VictimsSuffice ==
  /\ \A l \in Layers : NextLayer(l) =>
       \A q \in Queries(l) :
         Cardinality(Missing(q)) <= Cardinality(Candidates(usage, HitGuard(q), {step + 1}))
  /\ phase = (IF EarlyPf THEN "routed" ELSE "computed") =>
       \A q \in Predictions : Cardinality(Missing(q)) <= Cardinality(PrefetchCandidates(q))
=============================================================================
