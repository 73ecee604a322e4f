------------------------------ MODULE ElasticKV ------------------------------
(***************************************************************************)
(* The elastic KV budget (engine/elastic.py): the pages of PagedAlloc come *)
(* in steps, of which only the mapped ones are in circulation.  When live  *)
(* requests need more than the free and evictable pages, the top chunks of *)
(* the expert slot cache are retired and one more step is mapped; when the *)
(* top step is no longer needed its cached KV is compacted below it, the   *)
(* step is unmapped and the chunks come back.                              *)
(*                                                                         *)
(* The timers (evict_after_s, idle_s, the 15 s between busy attempts) are  *)
(* left open: a shrink may come at any safe point.  The chunks are those   *)
(* of ExpertCache (RetireTop, Restore), here only counted.                 *)
(***************************************************************************)
EXTENDS PagedAlloc

CONSTANTS
  Step,        (* tokens of one KV step                                    *)
  Tail1,       (* tokens of the permanent tail, without the dummy          *)
  StepsMax,    (* steps_max                                                *)
  StepBytes,   (* elastic_step_bytes                                       *)
  ChunkBytes,  (* bytes of a full expert chunk                             *)
  TopBytes,    (* bytes of the last chunk, which may be partial            *)
  AllChunks,   (* chunks mapped at startup                                 *)
  MinChunks    (* chunks that hold min_slots, rounded up                   *)

VARIABLES
  steps,       (* KV steps mapped                                          *)
  chunks,      (* _el_mapped                                               *)
  retired      (* the stack of chunks retired per grown step               *)

elasticVars == <<steps, chunks, retired>>
allVars     == <<vars, elasticVars>>

StepPages(s) == {p \in Pages : s * Step <= p /\ p < (s + 1) * Step}   \* step_range
TailPages    == {p \in Pages : p >= StepsMax * Step}
Circulating(n) == TailPages \cup UNION {StepPages(s) : s \in 0 .. n - 1}
GrowableTokens == (StepsMax - steps) * Step

ASSUME ElasticAssumption ==
  /\ Step \in Nat \ {0}
  /\ StepsMax \in Nat \ {0}
  /\ Tail1 \in Nat
  /\ NumPages = StepsMax * Step + Tail1
  /\ InitialFree = Circulating(1)                                   \* initial_free
  /\ AllChunks \in Nat
  /\ MinChunks \in 0 .. AllChunks
  /\ StepBytes \in Nat \ {0}
  /\ ChunkBytes \in Nat \ {0}
  /\ TopBytes \in 1 .. ChunkBytes

-----------------------------------------------------------------------------
(* grow: the fewest top chunks whose bytes hold one step, above the floor. *)

Freed(n, k) == k * ChunkBytes - (IF n = AllChunks /\ k > 0 THEN ChunkBytes - TopBytes ELSE 0)
\* Mutant: grow takes what is there and maps the step anyway.
Retirable_Unchecked(n) == {k \in 1 .. n : n - k >= MinChunks}
Retirable(n) == {k \in 1 .. n : n - k >= MinChunks /\ Freed(n, k) >= StepBytes}
Retire(n) == CHOOSE k \in Retirable(n) : \A j \in Retirable(n) : k <= j

(* chunks and retired after g more steps.                                  *)
Grown[g \in 0 .. StepsMax] ==
  IF g = 0 THEN [chunks |-> chunks, retired |-> retired]
  ELSE LET k == Retire(Grown[g - 1].chunks)
       IN [chunks |-> Grown[g - 1].chunks - k, retired |-> Append(Grown[g - 1].retired, k)]

(* _elastic_grow_for: grow while free and evictable pages do not suffice,  *)
(* until grow refuses.                                                     *)
Growths(n, evictable) ==
  {g \in 0 .. StepsMax - steps :
     /\ \A i \in 0 .. g - 1 : /\ n > Cardinality(free) + evictable + i * Step
                              /\ Retirable(Grown[i].chunks) # {}
     /\ \/ n <= Cardinality(free) + evictable + g * Step
        \/ g = StepsMax - steps
        \/ Retirable(Grown[g].chunks) = {}}
\* Mutant: one step is taken to be enough.
GrowthFor_Once(need, locked) ==
  IF Cardinality(need) <= Cardinality(free) THEN 0
  ELSE Min2(1, CHOOSE g \in Growths(Cardinality(need), Cardinality(DOMAIN tree \ locked)) : TRUE)
GrowthFor(need, locked) ==
  IF Cardinality(need) <= Cardinality(free) THEN 0
  ELSE CHOOSE g \in Growths(Cardinality(need), Cardinality(DOMAIN tree \ locked)) : TRUE

GrowBy(g) ==
  /\ steps' = steps + g
  /\ chunks' = Grown[g].chunks
  /\ retired' = Grown[g].retired
FreeAfter(g) == free \cup UNION {StepPages(s) : s \in steps .. steps + g - 1}

EInit == Init /\ steps = 1 /\ chunks = AllChunks /\ retired = <<>>

(* The scheduler's steps, over a pool that grows first.                    *)
PrefillGrowth(r) == GrowthFor(PrefillNeed(r), Locked(Live \cup {r}, PrefillHandle(r)))
DecodeGrowth == GrowthFor(DecodeNeed, Locked(Live, handle))
EPrefill == \E r \in Reqs : \E E \in SUBSET DOMAIN tree :
  LET g == PrefillGrowth(r)
  IN Prefill(r, FreeAfter(g), GrowableTokens, E) /\ GrowBy(g)
EDecode == \E E \in SUBSET DOMAIN tree :
  LET f == FreeAfter(DecodeGrowth)
  IN (DecodePop(f, E) \/ DecodeRound(f, E) \/ DecodePlain(f, E)) /\ GrowBy(DecodeGrowth)

-----------------------------------------------------------------------------
(* shrink.                                                                 *)

Top     == StepPages(steps - 1)
\* Mutant: the free pages of the top step count as room.
LowFree_All == Cardinality(free)
LowFree == Cardinality(free \ Top)                                   \* _low_free
TopLive == Cardinality(Top \ free)                                   \* _top_live
Short   == TopLive - LowFree

(* Compaction after evicting E: the cached pages of the top step move to   *)
(* the lowest free pages below it.                                         *)
Kept(E)  == [k \in DOMAIN tree \ E |-> tree[k]]
Moved(E) == {tree[k] : k \in DOMAIN tree \ E} \cap Top
Room(E)  == (free \cup {tree[k] : k \in E}) \ Top
NewPage(E) == [p \in Moved(E) |-> CHOOSE q \in Room(E) :
  Cardinality({x \in Room(E) : x < q}) = Cardinality({x \in Moved(E) : x < p})]
Fits(E) == Cardinality(Moved(E)) <= Cardinality(Room(E))

\* Mutant: the cached pages move but the bytes stay.
MovedKv_Stale(E) == kv
MovedKv(E) ==
  [p \in Pages |-> IF p \in Top THEN Torn
                   ELSE IF p \in Range(NewPage(E))
                   THEN kv[CHOOSE o \in Moved(E) : NewPage(E)[o] = p] ELSE kv[p]]

\* Mutant: the chunks of the first grown step come back, not those of the last.
RestoredChunks_First == Head(retired)
RestoredChunks == retired[Len(retired)]

Shrink(E) ==
  /\ steps > 1
  /\ Fits(E)
  /\ tree' = [k \in DOMAIN Kept(E) |->
                IF Kept(E)[k] \in Top THEN NewPage(E)[Kept(E)[k]] ELSE Kept(E)[k]]
  /\ kv' = MovedKv(E)
  /\ free' = Room(E) \ Range(NewPage(E))
  /\ steps' = steps - 1
  /\ chunks' = chunks + RestoredChunks
  /\ retired' = SubSeq(retired, 1, Len(retired) - 1)
  /\ UNCHANGED <<row, alloc, reqVars, loopVars>>

(* What a shrink evicts first: nothing when the KV fits as it is.          *)
ShrinkEvictions(allowEvict) ==
  IF Fits({}) THEN {{}}
  ELSE IF allowEvict THEN Evictions(Short, Locked(Live, handle))
  ELSE {}

Idle == turn = "schedule" /\ Live = {} /\ last.reqs = {}
(* run_when_idle, one round of its loop.                                   *)
IdleShrink ==
  /\ Idle
  /\ \E allowEvict \in BOOLEAN : \E E \in ShrinkEvictions(allowEvict) : Shrink(E)

\* Mutant: the batch in flight is forgotten.
PinsTop_RunningOnly ==
  \E r \in Running : \E j \in 0 .. Max2(dev[r], alloc[r]) - 1 : row[r][j] \in Top
(* A live row refers to the top step.                                      *)
PinsTop ==
  \E r \in Running \cup {q \in last.reqs : st[q] # "done"} :
    \E j \in 0 .. Max2(dev[r], alloc[r]) - 1 : row[r][j] \in Top

(* _elastic_busy_shrink, between batches.                                  *)
BusyShrink ==
  /\ turn = "schedule"
  /\ steps > 1
  /\ ~PinsTop
  /\ \E E \in ShrinkEvictions(TRUE) : Shrink(E)

ENext ==
  \/ EPrefill
  \/ EDecode
  \/ ScheduleNone /\ UNCHANGED elasticVars
  \/ ProcessStep /\ UNCHANGED elasticVars
  \/ IdleShrink
  \/ BusyShrink

ESpec == EInit /\ [][ENext]_allVars

-----------------------------------------------------------------------------
(* Properties.                                                             *)

(* The pages in circulation are those of the mapped steps and the tail: a  *)
(* row, the prefix cache or the free list never names an unmapped page,    *)
(* and growing and shrinking lose none.                                    *)
ElasticAccounted == PagesAccounted(Circulating(steps))

(* The KV pool and the expert cache together never map more bytes than at  *)
(* startup.                                                                *)
MemoryBudgetKept == (steps - 1) * StepBytes <= Freed(AllChunks, AllChunks - chunks)

(* Each grown step is paid by its own chunks, and the floor of the expert  *)
(* cache holds.                                                            *)
StackMatches ==
  /\ Len(retired) = steps - 1
  /\ steps <= StepsMax
  /\ MinChunks <= chunks
  /\ steps = 1 => chunks = AllChunks

(* The same promise of admission, over pages that are only there once the  *)
(* pool has grown.                                                         *)
GrownServed ==
  NextBatchServed(GrowableTokens, FreeAfter(DecodeGrowth), LAMBDA r : FreeAfter(PrefillGrowth(r)))

(* When no live row refers to the top step, evicting as much of the prefix *)
(* cache as does not fit below is always possible, and then it fits: the   *)
(* busy shrink never asks the prefix cache for more than it can give.      *)
ShrinkFeasible ==
  turn = "schedule" /\ steps > 1 /\ ~PinsTop =>
    /\ ShrinkEvictions(TRUE) # {}
    /\ \A E \in ShrinkEvictions(TRUE) : Fits(E)
=============================================================================
