----------------------- MODULE PrefetchPipelineProofs -----------------------
(***************************************************************************)
(* Proofs about PrefetchPipeline for every number of layers, experts,      *)
(* slots and chunks.  Every step is a step of the cache or leaves it       *)
(* alone, so the invariant of ExpertCacheProofs holds here too.  What is   *)
(* added (QueueInv) says which copies can still be queued in each phase of *)
(* a layer, and that the last copy queued for a slot is the one of the     *)
(* expert the tables name (SlotsRight).                                    *)
(***************************************************************************)
EXTENDS PrefetchPipeline, ExpertCacheProofs, SequenceTheorems

(* The plans a kernel can have written: an injective map into the slots.   *)
Plans == {f \in UNION {[r -> Slots] : r \in SUBSET Ids} : IsInjective(f)}
CopyOps == [buf : Buffers, target : Layers, running : BOOLEAN, want : Plans]

(* A layer between its ensure and its GEMM.                                *)
Routed == phase \in {"routed", "early"}

(* The copies that can be queued: the demand copy of this layer, until     *)
(* phase B waited it; a prefetch copy aimed at this layer, until phase A   *)
(* waited it; a prefetch copy this layer launched for the next one.        *)
IsDemand(op) ==
  /\ op.buf = Demand /\ op.target = layer
  /\ Routed /\ pc \in {"none", "A"}
  /\ \A i \in DOMAIN op.want : i \notin hits
IsLanding(op) ==
  /\ op.buf = PfBuffer(layer - 1) /\ op.target = layer
  /\ Routed /\ pc = "none"
IsAhead(op) == op.buf = PfBuffer(layer) /\ op.target = layer + 1

OnCopy(op) ==
  \/ IsDemand(op)
  \/ EarlyPf /\ IsLanding(op)
  \/ EarlyPf /\ IsAhead(op) /\ phase \in {"early", "computed"}
OnPrefetch(op) ==
  /\ ~EarlyPf
  /\ \/ IsLanding(op)
     \/ IsAhead(op) /\ phase = "launched" /\ op.want = inflight

QueueInv ==
  /\ queue \in [Streams -> Seq(CopyOps)]
  /\ plan \in [Buffers -> Plans]
  /\ \A k \in 1 .. Len(queue["copy"]) : OnCopy(queue["copy"][k])
  /\ \A k \in 1 .. Len(queue["prefetch"]) : OnPrefetch(queue["prefetch"][k])
  /\ \A st \in Streams : \A k \in 1 .. Len(queue[st]) :
       /\ plan[queue[st][k].buf] = queue[st][k].want
       /\ \A i \in DOMAIN queue[st][k].want : i[1] = queue[st][k].target

(* Where the routed ids stand in the two phases of the GEMM.               *)
RouteInv ==
  /\ bytes \in [Slots -> Ids \cup {NoId, Torn}]
  /\ pc \in {"none", "A", "B"}
  /\ pc # "none" => Routed
  /\ hits \subseteq DOMAIN routes
  /\ \A i \in DOMAIN routes : i[1] = layer

(* The two streams never hold copies into one slot.                        *)
Apart ==
  \A k \in 1 .. Len(queue["copy"]), n \in 1 .. Len(queue["prefetch"]) :
    Range(queue["copy"][k].want) \cap Range(queue["prefetch"][n].want) = {}

(* The bytes of an occupied slot are right with no copy into it queued, or *)
(* the last copy queued for it is the one of its expert.                   *)
Untouched(s) == \A st \in Streams : \A k \in 1 .. Len(queue[st]) : s \notin Range(queue[st][k].want)
LastCopy(st, k, s) ==
  /\ idOf[s] \in DOMAIN queue[st][k].want
  /\ queue[st][k].want[idOf[s]] = s
  /\ \A n \in (k + 1) .. Len(queue[st]) : s \notin Range(queue[st][n].want)
SlotsRight ==
  \A s \in Slots : idOf[s] # NoId =>
    \/ bytes[s] = idOf[s] /\ Untouched(s)
    \/ \E st \in Streams : \E k \in 1 .. Len(queue[st]) : LastCopy(st, k, s)

PipeInv == QueueInv /\ RouteInv

-----------------------------------------------------------------------------
(* The pipeline drives the cache: what is proved of ExpertCache holds here.*)

LEMMA PipeStepIs == [PipeNext]_allVars => [Next]_vars
<1> SUFFICES ASSUME [PipeNext]_allVars PROVE [Next]_vars
  OBVIOUS
<1>1. CASE MainStep
  BY <1>1 DEF MainStep, PipeEnsure, PipeEarly, PipeLaunch, GemmA, GemmB, GemmDone,
              Next, EnsureStep, PrefetchStep
<1>2. CASE CopyStep
  BY <1>2 DEF CopyStep, CopyBegin, CopyEnd
<1>3. CASE PipeElastic
  BY <1>3 DEF PipeElastic, Next
<1>4. CASE \E b \in {0, 1} : PipeBorrow(b)
  BY <1>4 DEF PipeBorrow, Next
<1>5. CASE UNCHANGED allVars
  BY <1>5 DEF allVars
<1>6. QED
  BY <1>1, <1>2, <1>3, <1>4, <1>5 DEF PipeNext

(* The split decode with its copies implements the cache's specification:  *)
(* the copies only add to it, and every theorem about ExpertCache holds of *)
(* the pipeline.                                                           *)
THEOREM PipeImplementsCache == PipeSpec => Spec
<1>1. PipeInit => Init
  BY DEF PipeInit
<1>2. QED
  BY <1>1, PipeStepIs, PTL DEF PipeSpec, Spec

-----------------------------------------------------------------------------
(* The queues after an operation on them.                                  *)

LEMMA EnqueueIs ==
  ASSUME queue \in [Streams -> Seq(CopyOps)], NEW st \in Streams, NEW op \in CopyOps,
         Enqueue(st, op)
  PROVE  /\ queue' \in [Streams -> Seq(CopyOps)]
         /\ Len(queue[st]) \in Nat /\ Len(queue'[st]) = Len(queue[st]) + 1
         /\ queue'[st][Len(queue[st]) + 1] = op
         /\ \A k \in 1 .. Len(queue[st]) : queue'[st][k] = queue[st][k]
         /\ \A o \in Streams \ {st} : queue'[o] = queue[o]
<1>1. queue[st] \in Seq(CopyOps) /\ queue'[st] = Append(queue[st], op)
  BY DEF Enqueue
<1>2. queue'[st] \in Seq(CopyOps)
  BY <1>1, AppendProperties
<1>3. \A o \in Streams \ {st} : queue'[o] = queue[o]
  BY DEF Enqueue
<1>4. queue' \in [Streams -> Seq(CopyOps)]
  BY <1>2, <1>3 DEF Enqueue
<1>5. QED
  BY <1>1, <1>3, <1>4, AppendProperties, LenProperties

LEMMA DequeueIs ==
  ASSUME queue \in [Streams -> Seq(CopyOps)], NEW st \in Streams, queue[st] # <<>>,
         queue' = [queue EXCEPT ![st] = Tail(@)]
  PROVE  /\ queue' \in [Streams -> Seq(CopyOps)]
         /\ Len(queue[st]) \in Nat \ {0} /\ Len(queue'[st]) = Len(queue[st]) - 1
         /\ Head(queue[st]) = queue[st][1]
         /\ \A k \in 1 .. Len(queue'[st]) : queue'[st][k] = queue[st][k + 1]
         /\ \A o \in Streams \ {st} : queue'[o] = queue[o]
<1>1. queue[st] \in Seq(CopyOps) /\ queue'[st] = Tail(queue[st])
  OBVIOUS
<1>2. queue'[st] \in Seq(CopyOps)
  BY <1>1, HeadTailProperties
<1>3. \A o \in Streams \ {st} : queue'[o] = queue[o]
  OBVIOUS
<1>4. queue' \in [Streams -> Seq(CopyOps)]
  BY <1>2, <1>3
<1>5. QED
  BY <1>1, <1>3, <1>4, HeadTailProperties, EmptySeq

(* Only the running flag of the head changes when a copy starts.           *)
LEMMA StartIs ==
  ASSUME queue \in [Streams -> Seq(CopyOps)], NEW st \in Streams, queue[st] # <<>>,
         queue' = [queue EXCEPT ![st][1].running = TRUE]
  PROVE  /\ queue' \in [Streams -> Seq(CopyOps)]
         /\ Head(queue[st]) = queue[st][1] /\ 1 \in 1 .. Len(queue[st])
         /\ \A o \in Streams : Len(queue'[o]) = Len(queue[o])
         /\ \A o \in Streams : \A k \in 1 .. Len(queue[o]) :
              /\ queue'[o][k].buf = queue[o][k].buf
              /\ queue'[o][k].target = queue[o][k].target
              /\ queue'[o][k].want = queue[o][k].want
<1> DEFINE head == [queue[st][1] EXCEPT !.running = TRUE]
<1>1. queue[st] \in Seq(CopyOps) /\ Len(queue[st]) \in Nat \ {0}
  BY EmptySeq
<1>2. 1 \in 1 .. Len(queue[st])
  BY <1>1
<1>3. queue[st][1] \in CopyOps
  BY <1>1, <1>2, ElementOfSeq
<1>4. head \in CopyOps /\ head.buf = queue[st][1].buf /\ head.target = queue[st][1].target
      /\ head.want = queue[st][1].want
  BY <1>3 DEF CopyOps
<1>5. queue' = [queue EXCEPT ![st] = [queue[st] EXCEPT ![1] = head]]
  OBVIOUS
<1> HIDE DEF head
<1>6. queue'[st] = [queue[st] EXCEPT ![1] = head]
  BY <1>5
<1>7. /\ queue'[st] \in Seq(CopyOps) /\ Len(queue'[st]) = Len(queue[st])
      /\ \A k \in 1 .. Len(queue[st]) : queue'[st][k] = IF k = 1 THEN head ELSE queue[st][k]
  <2>1. \A k \in 1 .. Len(queue[st]) :
          [queue[st] EXCEPT ![1] = head][k] = IF k = 1 THEN head ELSE queue[st][k]
    BY <1>1, <1>2, <1>4, ExceptSeq
  <2>2. /\ [queue[st] EXCEPT ![1] = head] \in Seq(CopyOps)
        /\ Len([queue[st] EXCEPT ![1] = head]) = Len(queue[st])
    BY <1>1, <1>2, <1>4, ExceptSeq
  <2>3. QED
    BY <1>6, <2>1, <2>2
<1>8. \A o \in Streams \ {st} : queue'[o] = queue[o]
  BY <1>5
<1>9. queue' \in [Streams -> Seq(CopyOps)]
  BY <1>5, <1>6, <1>7
<1>10. QED
  BY <1>1, <1>2, <1>4, <1>7, <1>8, <1>9

-----------------------------------------------------------------------------
(* Which copies are queued when.                                           *)

LEMMA LoadIsPlan ==
  ASSUME NEW q \in SUBSET Ids, NEW f, IsLoad(f, q)
  PROVE  f \in Plans
<1>1. Missing(q) \in SUBSET Ids /\ f \in [Missing(q) -> Slots]
  BY DEF IsLoad, Missing
<1>2. f \in UNION {[r -> Slots] : r \in SUBSET Ids}
  BY <1>1
<1>3. QED
  BY <1>2 DEF Plans, IsLoad

(* A layer's plan buffer is neither the demand plan nor the buffer of the  *)
(* layer before it.                                                        *)
LEMMA BufferIs ==
  ASSUME NEW l \in Int
  PROVE  /\ PfBuffer(l) \in Buffers /\ PfBuffer(l) # Demand
         /\ PfBuffer(l - 1) # Demand /\ PfBuffer(l - 1) # PfBuffer(l)
<1>1. l % 2 \in {0, 1} /\ (l - 1) % 2 \in {0, 1} /\ (l - 1) % 2 # l % 2
  OBVIOUS
<1>2. QED
  BY <1>1 DEF PfBuffer, Buffers, Demand

LEMMA OpTypes ==
  ASSUME QueueInv, NEW st \in Streams, NEW k \in 1 .. Len(queue[st])
  PROVE  /\ queue[st][k] \in CopyOps
         /\ queue[st][k].buf \in Buffers /\ queue[st][k].target \in Layers
         /\ queue[st][k].want \in Plans
<1>1. queue[st] \in Seq(CopyOps)
  BY DEF QueueInv
<1>2. queue[st][k] \in CopyOps
  BY <1>1, ElementOfSeq
<1>3. QED
  BY <1>2 DEF CopyOps

(* Outside a layer only the prefetch copies it launched are queued.        *)
LEMMA QuietQueues ==
  ASSUME QueueInv, ~Routed
  PROVE  /\ ~(EarlyPf /\ phase = "computed") => Len(queue["copy"]) = 0
         /\ ~(~EarlyPf /\ phase = "launched") => Len(queue["prefetch"]) = 0
<1>1. queue["copy"] \in Seq(CopyOps) /\ queue["prefetch"] \in Seq(CopyOps)
  BY DEF QueueInv, Streams
<1>2. Len(queue["copy"]) \in Nat /\ Len(queue["prefetch"]) \in Nat
  BY <1>1, LenProperties
<1>3. ASSUME ~(EarlyPf /\ phase = "computed"), Len(queue["copy"]) # 0
      PROVE  FALSE
  <2>1. 1 \in 1 .. Len(queue["copy"])
    BY <1>2, <1>3
  <2>2. OnCopy(queue["copy"][1])
    BY <2>1 DEF QueueInv
  <2>3. QED
    BY <1>3, <2>2 DEF OnCopy, IsDemand, IsLanding, Routed
<1>4. ASSUME ~(~EarlyPf /\ phase = "launched"), Len(queue["prefetch"]) # 0
      PROVE  FALSE
  <2>1. 1 \in 1 .. Len(queue["prefetch"])
    BY <1>2, <1>4
  <2>2. OnPrefetch(queue["prefetch"][1])
    BY <2>1 DEF QueueInv
  <2>3. QED
    BY <1>4, <2>2 DEF OnPrefetch, IsLanding
<1>5. QED
  BY <1>3, <1>4

(* What queueing a copy does: its plan, which no queued copy uses, is      *)
(* written, and the copy goes to the end of its stream.                    *)
QueuedUp(st, op) ==
  /\ queue' \in [Streams -> Seq(CopyOps)] /\ plan' \in [Buffers -> Plans]
  /\ \A o \in Streams : \A k \in 1 .. Len(queue'[o]) :
       /\ plan'[queue'[o][k].buf] = queue'[o][k].want
       /\ \A i \in DOMAIN queue'[o][k].want : i[1] = queue'[o][k].target
  /\ \A o \in Streams : \A k \in 1 .. Len(queue'[o]) :
       \/ k \in 1 .. Len(queue[o]) /\ queue'[o][k] = queue[o][k]
       \/ o = st /\ queue'[o][k] = op
  /\ \A o \in Streams : \A k \in 1 .. Len(queue[o]) :
       k \in 1 .. Len(queue'[o]) /\ queue'[o][k] = queue[o][k]
  /\ Len(queue'[st]) \in Nat \ {0} /\ queue'[st][Len(queue'[st])] = op

LEMMA QueueingIs ==
  ASSUME QueueInv, NEW st \in Streams, NEW b \in Buffers, NEW t \in Layers, NEW f \in Plans,
         plan' = [plan EXCEPT ![b] = f], Enqueue(st, Copy(b, t, f)),
         \A o \in Streams : \A k \in 1 .. Len(queue[o]) : queue[o][k].buf # b,
         \A i \in DOMAIN f : i[1] = t
  PROVE  QueuedUp(st, Copy(b, t, f))
<1> DEFINE op == Copy(b, t, f)
<1>1. op \in CopyOps /\ op.buf = b /\ op.target = t /\ op.want = f
  BY DEF CopyOps, Copy
<1>2. queue \in [Streams -> Seq(CopyOps)] /\ plan \in [Buffers -> Plans]
  BY DEF QueueInv
<1> HIDE DEF op
<1>3. /\ queue' \in [Streams -> Seq(CopyOps)]
      /\ Len(queue[st]) \in Nat /\ Len(queue'[st]) = Len(queue[st]) + 1
      /\ queue'[st][Len(queue[st]) + 1] = op
      /\ \A k \in 1 .. Len(queue[st]) : queue'[st][k] = queue[st][k]
      /\ \A o \in Streams \ {st} : queue'[o] = queue[o]
  BY <1>1, <1>2, EnqueueIs DEF op
<1>4. ASSUME NEW o \in Streams, NEW k \in 1 .. Len(queue'[o])
      PROVE  \/ k \in 1 .. Len(queue[o]) /\ queue'[o][k] = queue[o][k]
             \/ o = st /\ queue'[o][k] = op
  BY <1>3
<1>5. plan' \in [Buffers -> Plans] /\ plan'[b] = f
      /\ \A c \in Buffers : c # b => plan'[c] = plan[c]
  BY <1>2
<1>6. ASSUME NEW o \in Streams, NEW k \in 1 .. Len(queue'[o])
      PROVE  /\ plan'[queue'[o][k].buf] = queue'[o][k].want
             /\ \A i \in DOMAIN queue'[o][k].want : i[1] = queue'[o][k].target
  <2>1. CASE k \in 1 .. Len(queue[o]) /\ queue'[o][k] = queue[o][k]
    BY <1>5, <2>1, OpTypes DEF QueueInv
  <2>2. CASE queue'[o][k] = op
    BY <1>1, <1>5, <2>2
  <2>3. QED
    BY <1>4, <2>1, <2>2
<1>7. \A o \in Streams : \A k \in 1 .. Len(queue[o]) :
        k \in 1 .. Len(queue'[o]) /\ queue'[o][k] = queue[o][k]
  BY <1>3
<1>8. Len(queue'[st]) \in Nat \ {0} /\ queue'[st][Len(queue'[st])] = op
  BY <1>3
<1>9. QED
  BY <1>3, <1>4, <1>5, <1>6, <1>7, <1>8 DEF op, QueuedUp

(* The three steps that queue a copy.                                      *)
LEMMA EnsureQueue ==
  ASSUME IInv, PipeInv, NEW l \in Layers, NEW q \in Queries(l), NEW r \in Ranked(l, q),
         NEW p \in Touches(q, r), NEW f \in VictimChoices(q), PipeEnsure(l, q, p, f)
  PROVE  QueueInv' /\ RouteInv' /\ QueuedUp("copy", Copy(Demand, l, f))
<1>1. q \in SUBSET Ids /\ \A i \in q : i[1] = l
  BY LayerIdsSubset DEF Queries, LayerIds
<1>2. IsLoad(f, q) /\ f \in Plans /\ DOMAIN f = Missing(q)
  BY <1>1, LoadIsPlan DEF PipeEnsure, VictimChoices, IsLoad, Ensure, IsVictimMap
<1>3. /\ phase' = "routed" /\ layer' = l /\ pc = "none" /\ pc' = "none" /\ bytes' = bytes
      /\ DOMAIN routes' = q /\ hits' = q \ Missing(q) /\ inflight' = inflight /\ ~Routed
      /\ phase # "idle" => l = layer + 1
      /\ plan' = [plan EXCEPT ![Demand] = f] /\ Enqueue("copy", Copy(Demand, l, f))
  BY DEF PipeEnsure, Ensure, NextLayer, Routed
<1>4. ASSUME NEW k \in 1 .. Len(queue["copy"])
      PROVE  /\ EarlyPf /\ queue["copy"][k].buf = PfBuffer(l - 1)
             /\ queue["copy"][k].target = l /\ queue["copy"][k].buf # Demand
  <2>1. EarlyPf /\ IsAhead(queue["copy"][k]) /\ phase = "computed" /\ layer \in Int
    BY <1>3 DEF PipeInv, QueueInv, OnCopy, IsDemand, IsLanding, Routed, IInv, TypeOK, Layers
  <2>2. l = layer + 1 /\ l - 1 = layer
    BY <1>3, <2>1
  <2>3. QED
    BY <2>1, <2>2, BufferIs DEF IsAhead
<1>5. ASSUME NEW k \in 1 .. Len(queue["prefetch"])
      PROVE  /\ ~EarlyPf /\ queue["prefetch"][k].buf = PfBuffer(l - 1)
             /\ queue["prefetch"][k].target = l /\ queue["prefetch"][k].buf # Demand
  <2>1. ~EarlyPf /\ IsAhead(queue["prefetch"][k]) /\ phase = "launched" /\ layer \in Int
    BY <1>3 DEF PipeInv, QueueInv, OnPrefetch, IsLanding, Routed, IInv, TypeOK, Layers
  <2>2. l = layer + 1 /\ l - 1 = layer
    BY <1>3, <2>1
  <2>3. QED
    BY <2>1, <2>2, BufferIs DEF IsAhead
<1>6. /\ "copy" \in Streams /\ Demand \in Buffers
      /\ \A o \in Streams : \A k \in 1 .. Len(queue[o]) : queue[o][k].buf # Demand
      /\ \A i \in DOMAIN f : i[1] = l
  BY <1>1, <1>2, <1>4, <1>5 DEF Streams, Buffers, Demand, Missing
<1>7. QueuedUp("copy", Copy(Demand, l, f))
  BY <1>2, <1>3, <1>6, QueueingIs DEF PipeInv
<1>8. ASSUME NEW k \in 1 .. Len(queue'["copy"])
      PROVE  OnCopy(queue["copy"][k])'
  <2>1. CASE k \in 1 .. Len(queue["copy"]) /\ queue'["copy"][k] = queue["copy"][k]
    BY <1>3, <1>4, <2>1 DEF OnCopy, IsLanding, Routed
  <2>2. CASE queue'["copy"][k] = Copy(Demand, l, f)
    BY <1>2, <1>3, <2>2 DEF OnCopy, IsDemand, Routed, Copy
  <2>3. QED
    BY <1>7, <2>1, <2>2 DEF Streams, QueuedUp
<1>9. ASSUME NEW k \in 1 .. Len(queue'["prefetch"])
      PROVE  OnPrefetch(queue["prefetch"][k])'
  <2>1. k \in 1 .. Len(queue["prefetch"]) /\ queue'["prefetch"][k] = queue["prefetch"][k]
    BY <1>7 DEF Streams, QueuedUp
  <2>2. QED
    BY <1>3, <1>5, <2>1 DEF OnPrefetch, IsLanding, Routed
<1>10. QED
  BY <1>1, <1>3, <1>7, <1>8, <1>9 DEF PipeInv, QueueInv, RouteInv, Routed, QueuedUp

LEMMA EarlyQueue ==
  ASSUME IInv, PipeInv, NEW q \in Predictions, NEW f \in VictimChoices(q), PipeEarly(q, f)
  PROVE  QueueInv' /\ RouteInv' /\ QueuedUp("copy", Copy(PfBuffer(layer), layer + 1, f))
<1>1. q \in SUBSET Ids /\ layer + 1 \in Layers /\ \A i \in q : i[1] = layer + 1
  BY LayerIdsSubset DEF Predictions, LayerIds, PipeEarly, PrefetchEarly, TargetIds
<1>2. IsLoad(f, q) /\ f \in Plans /\ DOMAIN f = Missing(q)
  BY <1>1, LoadIsPlan DEF PipeEarly, VictimChoices, IsLoad, PrefetchEarly, IsVictimMap
<1>3. /\ EarlyPf /\ phase = "routed" /\ phase' = "early" /\ layer' = layer /\ layer \in Int
      /\ pc = "none" /\ pc' = pc /\ bytes' = bytes /\ hits' = hits /\ routes' = routes
      /\ plan' = [plan EXCEPT ![PfBuffer(layer)] = f]
      /\ Enqueue("copy", Copy(PfBuffer(layer), layer + 1, f))
  BY DEF PipeEarly, PrefetchEarly, IInv, TypeOK, Layers
<1>4. \A k \in 1 .. Len(queue["copy"]) :
        IsDemand(queue["copy"][k]) \/ IsLanding(queue["copy"][k])
  BY <1>3 DEF PipeInv, QueueInv, OnCopy
<1>5. \A k \in 1 .. Len(queue["prefetch"]) : FALSE
  BY <1>3 DEF PipeInv, QueueInv, OnPrefetch
<1>6. /\ "copy" \in Streams /\ PfBuffer(layer) \in Buffers
      /\ \A o \in Streams : \A k \in 1 .. Len(queue[o]) : queue[o][k].buf # PfBuffer(layer)
      /\ \A i \in DOMAIN f : i[1] = layer + 1
  BY <1>1, <1>2, <1>3, <1>4, <1>5, BufferIs DEF Streams, IsDemand, IsLanding, Missing
<1>7. QueuedUp("copy", Copy(PfBuffer(layer), layer + 1, f))
  BY <1>1, <1>2, <1>3, <1>6, QueueingIs DEF PipeInv
<1>8. ASSUME NEW k \in 1 .. Len(queue'["copy"])
      PROVE  OnCopy(queue["copy"][k])'
  <2>1. CASE k \in 1 .. Len(queue["copy"]) /\ queue'["copy"][k] = queue["copy"][k]
    BY <1>3, <1>4, <2>1 DEF OnCopy, IsDemand, IsLanding, Routed
  <2>2. CASE queue'["copy"][k] = Copy(PfBuffer(layer), layer + 1, f)
    BY <1>3, <2>2 DEF OnCopy, IsAhead, Copy
  <2>3. QED
    BY <1>7, <2>1, <2>2 DEF Streams, QueuedUp
<1>9. \A k \in 1 .. Len(queue'["prefetch"]) : FALSE
  BY <1>5, <1>7 DEF Streams, QueuedUp
<1>10. QED
  BY <1>3, <1>7, <1>8, <1>9 DEF PipeInv, QueueInv, RouteInv, Routed, QueuedUp

LEMMA LaunchQueue ==
  ASSUME IInv, PipeInv, NEW q \in Predictions, NEW f \in VictimChoices(q), PipeLaunch(q, f)
  PROVE  QueueInv' /\ RouteInv' /\ QueuedUp("prefetch", Copy(PfBuffer(layer), layer + 1, f))
<1>1. q \in SUBSET Ids /\ layer + 1 \in Layers /\ \A i \in q : i[1] = layer + 1
  BY LayerIdsSubset DEF Predictions, LayerIds, PipeLaunch, PrefetchGuarded, PrefetchLru, TargetIds
<1>2. IsLoad(f, q) /\ f \in Plans /\ DOMAIN f = Missing(q)
  BY <1>1, LoadIsPlan DEF PipeLaunch, VictimChoices, IsLoad, PrefetchGuarded, PrefetchLru, IsVictimMap
<1>3. /\ ~EarlyPf /\ phase = "computed" /\ phase' = "launched" /\ layer' = layer /\ layer \in Int
      /\ pc' = pc /\ bytes' = bytes /\ hits' = hits /\ routes' = routes /\ inflight' = f /\ ~Routed
      /\ plan' = [plan EXCEPT ![PfBuffer(layer)] = f]
      /\ Enqueue("prefetch", Copy(PfBuffer(layer), layer + 1, f))
  BY DEF PipeLaunch, PrefetchGuarded, PrefetchLru, IInv, TypeOK, Layers, Routed
<1>4. \A o \in Streams : \A k \in 1 .. Len(queue[o]) : FALSE
  BY <1>3, QuietQueues DEF PipeInv, Streams
<1>5. "prefetch" \in Streams /\ PfBuffer(layer) \in Buffers /\ \A i \in DOMAIN f : i[1] = layer + 1
  BY <1>1, <1>2, <1>3, BufferIs DEF Streams, Missing
<1>6. QueuedUp("prefetch", Copy(PfBuffer(layer), layer + 1, f))
  BY <1>1, <1>2, <1>3, <1>4, <1>5, QueueingIs DEF PipeInv
<1>7. \A k \in 1 .. Len(queue'["copy"]) : FALSE
  BY <1>4, <1>6 DEF Streams, QueuedUp
<1>8. ASSUME NEW k \in 1 .. Len(queue'["prefetch"])
      PROVE  OnPrefetch(queue["prefetch"][k])'
  <2>1. queue'["prefetch"][k] = Copy(PfBuffer(layer), layer + 1, f)
    BY <1>4, <1>6 DEF Streams, QueuedUp
  <2>2. QED
    BY <1>3, <2>1 DEF OnPrefetch, IsAhead, Copy
<1>9. QED
  BY <1>3, <1>6, <1>7, <1>8 DEF PipeInv, QueueInv, RouteInv, Routed, QueuedUp

(* A step that leaves the plans and queues alone, or runs a copy, only has *)
(* to keep each copy's place in the layer.                                 *)
LEMMA CopyRunQueue ==
  ASSUME IInv, PipeInv, NEW st \in Streams, CopyBegin(st) \/ CopyEnd(st)
  PROVE  QueueInv' /\ RouteInv'
<1>1. /\ UNCHANGED <<vars, plan, hits, pc>> /\ queue[st] # <<>>
      /\ queue \in [Streams -> Seq(CopyOps)] /\ plan \in [Buffers -> Plans]
  BY DEF CopyBegin, CopyEnd, PipeInv, QueueInv
<1>2. Head(queue[st]).buf \in Buffers /\ 1 \in 1 .. Len(queue[st])
  <2>1. queue[st] \in Seq(CopyOps)
    BY <1>1
  <2>2. Head(queue[st]) \in CopyOps /\ Len(queue[st]) \in Nat \ {0}
    BY <1>1, <2>1, HeadTailProperties, EmptySeq
  <2>3. QED
    BY <2>2 DEF CopyOps
<1>3. \A s \in Range(plan[Head(queue[st]).buf]) :
        Loaded(plan[Head(queue[st]).buf], s) \in Ids
  <2>1. plan[Head(queue[st]).buf] \in Plans
    BY <1>1, <1>2
  <2>2. DOMAIN plan[Head(queue[st]).buf] \in SUBSET Ids
    BY <2>1 DEF Plans
  <2>3. QED
    BY <2>2 DEF Range, Loaded
<1>4. RouteInv'
  <2>1. bytes' \in [Slots -> Ids \cup {NoId, Torn}]
    <3>1. bytes \in [Slots -> Ids \cup {NoId, Torn}]
      BY DEF PipeInv, RouteInv
    <3>2. CASE CopyBegin(st)
      BY <3>1, <3>2 DEF CopyBegin
    <3>3. CASE CopyEnd(st)
      BY <1>3, <3>1, <3>3 DEF CopyEnd, Filled
    <3>4. QED
      BY <3>2, <3>3
  <2>2. QED
    BY <1>1, <2>1 DEF PipeInv, RouteInv, Routed, vars
<1>5. ASSUME /\ queue' \in [Streams -> Seq(CopyOps)]
             /\ \A o \in Streams : \A k \in 1 .. Len(queue'[o]) :
                  \E n \in 1 .. Len(queue[o]) :
                    /\ queue'[o][k].buf = queue[o][n].buf
                    /\ queue'[o][k].target = queue[o][n].target
                    /\ queue'[o][k].want = queue[o][n].want
      PROVE  QueueInv'
  <2>1. ASSUME NEW k \in 1 .. Len(queue'["copy"])
        PROVE  OnCopy(queue["copy"][k])'
    <3>1. PICK n \in 1 .. Len(queue["copy"]) :
            /\ queue'["copy"][k].buf = queue["copy"][n].buf
            /\ queue'["copy"][k].target = queue["copy"][n].target
            /\ queue'["copy"][k].want = queue["copy"][n].want
      BY <1>5 DEF Streams
    <3>2. OnCopy(queue["copy"][n])
      BY DEF PipeInv, QueueInv
    <3>3. QED
      BY <1>1, <3>1, <3>2 DEF OnCopy, IsDemand, IsLanding, IsAhead, Routed, vars
  <2>2. ASSUME NEW k \in 1 .. Len(queue'["prefetch"])
        PROVE  OnPrefetch(queue["prefetch"][k])'
    <3>1. PICK n \in 1 .. Len(queue["prefetch"]) :
            /\ queue'["prefetch"][k].buf = queue["prefetch"][n].buf
            /\ queue'["prefetch"][k].target = queue["prefetch"][n].target
            /\ queue'["prefetch"][k].want = queue["prefetch"][n].want
      BY <1>5 DEF Streams
    <3>2. OnPrefetch(queue["prefetch"][n])
      BY DEF PipeInv, QueueInv
    <3>3. QED
      BY <1>1, <3>1, <3>2 DEF OnPrefetch, IsLanding, IsAhead, Routed, vars
  <2>4. plan' \in [Buffers -> Plans]
    BY <1>1 DEF PipeInv, QueueInv
  <2>5. ASSUME NEW o \in Streams, NEW k \in 1 .. Len(queue'[o])
        PROVE  /\ plan'[queue'[o][k].buf] = queue'[o][k].want
               /\ \A i \in DOMAIN queue'[o][k].want : i[1] = queue'[o][k].target
    <3>1. PICK n \in 1 .. Len(queue[o]) :
            /\ queue'[o][k].buf = queue[o][n].buf
            /\ queue'[o][k].target = queue[o][n].target
            /\ queue'[o][k].want = queue[o][n].want
      BY <1>5
    <3>2. /\ plan[queue[o][n].buf] = queue[o][n].want
          /\ \A i \in DOMAIN queue[o][n].want : i[1] = queue[o][n].target
      BY DEF PipeInv, QueueInv
    <3>3. QED
      BY <1>1, <3>1, <3>2
  <2>3. QED
    BY <1>5, <2>1, <2>2, <2>4, <2>5 DEF QueueInv
<1>6. CASE CopyBegin(st)
  <2>1. queue' = [queue EXCEPT ![st][1].running = TRUE]
    BY <1>6 DEF CopyBegin
  <2>2. /\ queue' \in [Streams -> Seq(CopyOps)]
        /\ \A o \in Streams : Len(queue'[o]) = Len(queue[o])
        /\ \A o \in Streams : \A k \in 1 .. Len(queue[o]) :
             /\ queue'[o][k].buf = queue[o][k].buf
             /\ queue'[o][k].target = queue[o][k].target
             /\ queue'[o][k].want = queue[o][k].want
    BY <1>1, <2>1, StartIs
  <2>3. QED
    BY <1>4, <1>5, <2>2
<1>7. CASE CopyEnd(st)
  <2>1. queue' = [queue EXCEPT ![st] = Tail(@)]
    BY <1>7 DEF CopyEnd
  <2>2. /\ queue' \in [Streams -> Seq(CopyOps)]
        /\ Len(queue[st]) \in Nat \ {0} /\ Len(queue'[st]) = Len(queue[st]) - 1
        /\ \A k \in 1 .. Len(queue'[st]) : queue'[st][k] = queue[st][k + 1]
        /\ \A o \in Streams \ {st} : queue'[o] = queue[o]
    BY <1>1, <2>1, DequeueIs
  <2>3. \A o \in Streams : \A k \in 1 .. Len(queue'[o]) :
          \E n \in 1 .. Len(queue[o]) : queue'[o][k] = queue[o][n]
    <3>1. \A k \in 1 .. Len(queue'[st]) : k + 1 \in 1 .. Len(queue[st])
      BY <2>2
    <3>2. QED
      BY <2>2, <3>1
  <2>4. QED
    BY <1>4, <1>5, <2>2, <2>3
<1>8. QED
  BY <1>4, <1>6, <1>7

LEMMA GemmQueue ==
  ASSUME IInv, PipeInv, GemmA \/ GemmB \/ GemmDone
  PROVE  QueueInv' /\ RouteInv'
<1>1. /\ UNCHANGED <<bytes, plan, queue>> /\ layer' = layer /\ layer \in Layers
      /\ Routed /\ pc' \in {"none", "A", "B"}
  BY DEF GemmA, GemmB, GemmDone, Gemm, vars, IInv, TypeOK, Routed, PipeInv, RouteInv
<1>2. RouteInv'
  BY <1>1 DEF GemmA, GemmB, GemmDone, Gemm, NoMap, vars, Routed, PipeInv, RouteInv
<1>3. ASSUME NEW k \in 1 .. Len(queue["copy"])
      PROVE  OnCopy(queue["copy"][k])'
  <2>1. OnCopy(queue["copy"][k]) /\ queue["copy"][k].target \in Layers
    BY <1>3, OpTypes DEF PipeInv, QueueInv, Streams
  <2>2. queue["copy"][k] \in Queued("copy")
    BY <1>3 DEF Queued
  <2>3. CASE GemmA
    <3>1. ~IsLanding(queue["copy"][k])
      <4>1. PfBuffer(layer - 1) # Demand
        <5>1. layer \in Int
          BY <1>1 DEF Layers
        <5>2. QED
          BY <5>1, BufferIs
      <4>2. ~(queue["copy"][k].buf # Demand /\ queue["copy"][k].target = layer)
        BY <2>2, <2>3 DEF GemmA, PrefetchLanded, Streams
      <4>3. QED
        BY <4>1, <4>2 DEF IsLanding
    <3>2. QED
      BY <1>1, <2>1, <2>3, <3>1 DEF GemmA, OnCopy, IsDemand, IsLanding, IsAhead, Routed, vars
  <2>4. CASE GemmB
    <3>1. ~IsDemand(queue["copy"][k])
      BY <2>2, <2>4 DEF GemmB, DemandLanded, IsDemand
    <3>2. QED
      BY <1>1, <2>1, <2>4, <3>1 DEF GemmB, OnCopy, IsDemand, IsLanding, IsAhead, Routed, vars
  <2>5. CASE GemmDone
    <3>1. EarlyPf /\ IsAhead(queue["copy"][k]) /\ phase = "early"
      BY <1>1, <2>1, <2>5 DEF GemmDone, OnCopy, IsDemand, IsLanding, Routed
    <3>2. layer # NumLayers - 1
      BY <1>1, <2>1, <3>1 DEF IsAhead, Layers
    <3>3. phase' = "computed"
      BY <2>5, <3>2 DEF GemmDone, Gemm
    <3>4. QED
      BY <1>1, <3>1, <3>3 DEF OnCopy, IsAhead
  <2>6. QED
    BY <2>3, <2>4, <2>5
<1>4. ASSUME NEW k \in 1 .. Len(queue["prefetch"])
      PROVE  OnPrefetch(queue["prefetch"][k])'
  <2>1. ~EarlyPf /\ IsLanding(queue["prefetch"][k])
    BY <1>1, <1>4 DEF PipeInv, QueueInv, OnPrefetch, Routed
  <2>2. GemmA
    BY <2>1 DEF GemmB, GemmDone, IsLanding
  <2>3. queue["prefetch"][k] \in Queued("prefetch")
    BY <1>4 DEF Queued
  <2>4. FALSE
    <3>1. layer \in Int
      BY <1>1 DEF Layers
    <3>2. queue["prefetch"][k].buf # Demand /\ queue["prefetch"][k].target = layer
      BY <2>1, <3>1, BufferIs DEF IsLanding
    <3>3. PrefetchLanded(layer)
      BY <2>2 DEF GemmA
    <3>4. QED
      BY <2>3, <3>2, <3>3 DEF PrefetchLanded, Streams
  <2>5. QED
    BY <2>4
<1>5. QED
  BY <1>1, <1>2, <1>3, <1>4 DEF PipeInv, QueueInv

LEMMA IdleQueue ==
  ASSUME IInv, PipeInv, PipeElastic \/ \E b \in {0, 1} : PipeBorrow(b)
  PROVE  QueueInv' /\ RouteInv'
<1>1. /\ phase = "idle" /\ phase' = phase /\ UNCHANGED <<plan, queue, hits, pc, routes, layer>>
  BY DEF PipeElastic, ElasticStep, RetireTop, Restore, PipeBorrow, InvalidateBuffer
<1>2. \A o \in Streams : \A k \in 1 .. Len(queue[o]) : FALSE
  BY <1>1, QuietQueues DEF PipeInv, Streams, Routed
<1>3. bytes' \in [Slots -> Ids \cup {NoId, Torn}]
  BY DEF PipeElastic, PipeBorrow, BorrowedBytes, PipeInv, RouteInv
<1>4. QED
  BY <1>1, <1>2, <1>3 DEF PipeInv, QueueInv, RouteInv, Routed, Streams

LEMMA InitPipe == PipeInit => PipeInv
<1> SUFFICES ASSUME PipeInit PROVE PipeInv
  OBVIOUS
<1>1. Init /\ \A st \in Streams : queue[st] = <<>> /\ Len(queue[st]) = 0
  BY EmptySeq DEF PipeInit
<1>2. queue \in [Streams -> Seq(CopyOps)]
  BY EmptySeq DEF PipeInit
<1>3. NoMap \in Plans
  BY DEF NoMap, Plans, IsInjective
<1>4. plan \in [Buffers -> Plans]
  BY <1>3 DEF PipeInit
<1>5. QED
  BY <1>1, <1>2, <1>4 DEF PipeInit, PipeInv, QueueInv, RouteInv, Streams, Init, NoMap

LEMMA NextPipe == IInv /\ PipeInv /\ [PipeNext]_allVars => PipeInv'
<1> SUFFICES ASSUME IInv, PipeInv, [PipeNext]_allVars PROVE PipeInv'
  OBVIOUS
<1>1. CASE MainStep
  BY <1>1, EnsureQueue, EarlyQueue, LaunchQueue, GemmQueue DEF MainStep, PipeInv
<1>2. CASE CopyStep
  BY <1>2, CopyRunQueue DEF CopyStep, PipeInv
<1>3. CASE PipeElastic \/ \E b \in {0, 1} : PipeBorrow(b)
  BY <1>3, IdleQueue DEF PipeInv
<1>4. CASE UNCHANGED allVars
  BY <1>4 DEF allVars, vars, pipeVars, PipeInv, QueueInv, RouteInv, OnCopy, OnPrefetch,
              IsDemand, IsLanding, IsAhead, Routed
<1>5. QED
  BY <1>1, <1>2, <1>3, <1>4 DEF PipeNext

LEMMA PipeAlways == PipeSpec => [](IInv /\ PipeInv)
<1>1. PipeInit => IInv /\ PipeInv
  BY InitInv, InitPipe DEF PipeInit
<1>2. (IInv /\ PipeInv) /\ [PipeNext]_allVars => (IInv /\ PipeInv)'
  BY NextInv, NextPipe, PipeStepIs
<1>3. QED
  BY <1>1, <1>2, PTL DEF PipeSpec

(* The bytes, the GEMM's phases and the queued copies are type correct.    *)
THEOREM PipeTypeCorrect == PipeSpec => []PipeTypeOK
<1>1. IInv /\ PipeInv => PipeTypeOK
  BY OpTypes DEF PipeInv, RouteInv, PipeTypeOK, Queued
<1>2. QED
  BY <1>1, PipeAlways, PTL

(* The double buffering is enough for every number of layers and either    *)
(* launch: no plan is rewritten before the copy queued with it has read it.*)
THEOREM PlansIntact == PipeSpec => []PlanIntact
<1>1. IInv /\ PipeInv => PlanIntact
  BY DEF PipeInv, QueueInv, PlanIntact, Queued
<1>2. QED
  BY <1>1, PipeAlways, PTL

(* Between decode steps both streams are empty, whatever the copies' speed:*)
(* what a retire unmaps or a prefill borrows is under no copy.             *)
THEOREM IdleIsDrained == PipeSpec => []IdleDrained
<1>1. IInv /\ PipeInv => IdleDrained
  <2> SUFFICES ASSUME IInv, PipeInv, phase = "idle", NEW st \in Streams
               PROVE  queue[st] = <<>>
    BY DEF IdleDrained
  <2>1. Len(queue[st]) = 0
    BY QuietQueues DEF PipeInv, Routed, Streams
  <2>2. queue[st] \in Seq(CopyOps)
    BY DEF PipeInv, QueueInv
  <2>3. QED
    BY <2>1, <2>2, EmptySeq
<1>2. QED
  BY <1>1, PipeAlways, PTL

-----------------------------------------------------------------------------
(* What the copies write.                                                  *)

(* A post-GEMM prefetch guards its slots for the one ensure that runs      *)
(* before its copy is waited; an early one is on the demand stream itself. *)
LEMMA NextApart ==
  ASSUME PfGuard \/ EarlyPf, IInv, PipeInv, Apart, [PipeNext]_allVars
  PROVE  Apart'
<1>a. ASSUME \A o \in Streams : \A k \in 1 .. Len(queue'[o]) :
               \E n \in 1 .. Len(queue[o]) : queue'[o][k].want = queue[o][n].want
      PROVE  Apart'
  <2> SUFFICES ASSUME NEW k \in 1 .. Len(queue'["copy"]), NEW n \in 1 .. Len(queue'["prefetch"])
               PROVE  Range(queue'["copy"][k].want) \cap Range(queue'["prefetch"][n].want) = {}
    BY DEF Apart
  <2>1. PICK a \in 1 .. Len(queue["copy"]) : queue'["copy"][k].want = queue["copy"][a].want
    BY <1>a DEF Streams
  <2>2. PICK b \in 1 .. Len(queue["prefetch"]) :
          queue'["prefetch"][n].want = queue["prefetch"][b].want
    BY <1>a DEF Streams
  <2>3. QED
    BY <2>1, <2>2 DEF Apart
<1>1. ASSUME NEW l \in Layers, NEW q \in Queries(l), NEW r \in Ranked(l, q),
             NEW p \in Touches(q, r), NEW f \in VictimChoices(q), PipeEnsure(l, q, p, f)
      PROVE  Apart'
  <2>1. q \in SUBSET Ids /\ QueuedUp("copy", Copy(Demand, l, f))
    BY <1>1, EnsureQueue, LayerIdsSubset DEF Queries
  <2>2. ASSUME NEW n \in 1 .. Len(queue["prefetch"])
        PROVE  Range(f) \cap Range(queue["prefetch"][n].want) = {}
    <3>1. OnPrefetch(queue["prefetch"][n]) /\ ~Routed
      BY <1>1 DEF PipeInv, QueueInv, PipeEnsure, Ensure, NextLayer, Routed
    <3>2. PfGuard /\ phase = "launched" /\ queue["prefetch"][n].want = inflight
      BY <3>1 DEF OnPrefetch, IsLanding
    <3>3. \A i \in DOMAIN inflight : inflight[i] \in Slots /\ guard[inflight[i]] = step + 1
      BY <3>2 DEF IInv, Guarded
    <3>4. \A s \in Range(f) : s \in Slots /\ HitGuard(q)[s] # step + 1
      BY <1>1 DEF PipeEnsure, Ensure, IsVictimMap, Candidates
    <3>5. \A s \in Range(f) : guard[s] # step + 1
      BY <2>1, <3>4, HitGuardIs DEF IInv
    <3>6. QED
      BY <3>2, <3>3, <3>5 DEF Range
  <2>3. \A k \in 1 .. Len(queue'["copy"]) :
          \/ k \in 1 .. Len(queue["copy"]) /\ queue'["copy"][k] = queue["copy"][k]
          \/ queue'["copy"][k].want = f
    BY <2>1 DEF QueuedUp, Streams, Copy
  <2>4. \A n \in 1 .. Len(queue'["prefetch"]) :
          n \in 1 .. Len(queue["prefetch"]) /\ queue'["prefetch"][n] = queue["prefetch"][n]
    BY <2>1 DEF QueuedUp, Streams
  <2>5. QED
    BY <2>2, <2>3, <2>4 DEF Apart
<1>2. ASSUME NEW q \in Predictions, NEW f \in VictimChoices(q), PipeEarly(q, f)
      PROVE  Apart'
  <2>1. QueuedUp("copy", Copy(PfBuffer(layer), layer + 1, f)) /\ EarlyPf
    BY <1>2, EarlyQueue DEF PipeEarly, PrefetchEarly
  <2>2. \A n \in 1 .. Len(queue'["prefetch"]) : FALSE
    BY <2>1 DEF QueuedUp, Streams, PipeInv, QueueInv, OnPrefetch
  <2>3. QED
    BY <2>2 DEF Apart
<1>3. ASSUME NEW q \in Predictions, NEW f \in VictimChoices(q), PipeLaunch(q, f)
      PROVE  Apart'
  <2>1. /\ QueuedUp("prefetch", Copy(PfBuffer(layer), layer + 1, f))
        /\ ~EarlyPf /\ phase = "computed"
    BY <1>3, LaunchQueue DEF PipeLaunch, PrefetchGuarded, PrefetchLru
  <2>2. \A k \in 1 .. Len(queue["copy"]) : FALSE
    BY <2>1, QuietQueues DEF PipeInv, Routed
  <2>3. \A k \in 1 .. Len(queue'["copy"]) : FALSE
    BY <2>1, <2>2 DEF QueuedUp, Streams
  <2>4. QED
    BY <2>3 DEF Apart
<1>4. CASE GemmA \/ GemmB \/ GemmDone \/ PipeElastic \/ (\E b \in {0, 1} : PipeBorrow(b))
           \/ UNCHANGED allVars
  <2>1. queue' = queue
    BY <1>4 DEF GemmA, GemmB, GemmDone, PipeElastic, PipeBorrow, allVars, pipeVars
  <2>2. QED
    BY <2>1 DEF Apart
<1>5. ASSUME NEW st \in Streams, CopyBegin(st)
      PROVE  Apart'
  <2>1. /\ \A o \in Streams : Len(queue'[o]) = Len(queue[o])
        /\ \A o \in Streams : \A k \in 1 .. Len(queue[o]) :
             queue'[o][k].want = queue[o][k].want
    BY <1>5, StartIs DEF CopyBegin, PipeInv, QueueInv
  <2>2. QED
    BY <1>a, <2>1
<1>6. ASSUME NEW st \in Streams, CopyEnd(st)
      PROVE  Apart'
  <2>1. /\ Len(queue[st]) \in Nat \ {0} /\ Len(queue'[st]) = Len(queue[st]) - 1
        /\ \A k \in 1 .. Len(queue'[st]) : queue'[st][k] = queue[st][k + 1]
        /\ \A o \in Streams \ {st} : queue'[o] = queue[o]
    BY <1>6, DequeueIs DEF CopyEnd, PipeInv, QueueInv
  <2>2. ASSUME NEW o \in Streams, NEW k \in 1 .. Len(queue'[o])
        PROVE  \E n \in 1 .. Len(queue[o]) : queue'[o][k].want = queue[o][n].want
    <3>1. CASE o = st
      <4>1. k + 1 \in 1 .. Len(queue[o]) /\ queue'[o][k] = queue[o][k + 1]
        BY <2>1, <3>1
      <4>2. QED
        BY <4>1
    <3>2. CASE o # st
      BY <2>1, <3>2
    <3>3. QED
      BY <3>1, <3>2
  <2>3. QED
    BY <1>a, <2>2
<1>7. QED
  BY <1>1, <1>2, <1>3, <1>4, <1>5, <1>6 DEF PipeNext, MainStep, CopyStep

(* A mapped expert's copy is the last one queued for its slot.             *)
LEMMA InstallSlots ==
  ASSUME IInv, PipeInv, SlotsRight, NEW st \in Streams, NEW op, NEW q \in SUBSET Ids,
         IsLoad(op.want, q), Install(op.want), QueuedUp(st, op), bytes' = bytes
  PROVE  SlotsRight'
<1> DEFINE f == op.want
<1>1. ASSUME NEW s \in Slots, idOf'[s] # NoId, s \notin Range(f)
      PROVE  \/ bytes'[s] = idOf'[s] /\ Untouched(s)'
             \/ \E o \in Streams : \E k \in 1 .. Len(queue'[o]) : LastCopy(o, k, s)'
  <2>1. idOf'[s] = idOf[s]
    BY <1>1 DEF Install
  <2>2. \A o \in Streams : \A n \in 1 .. Len(queue'[o]) :
          \/ n \in 1 .. Len(queue[o]) /\ queue'[o][n] = queue[o][n]
          \/ s \notin Range(queue'[o][n].want)
    BY <1>1 DEF QueuedUp
  <2>3. CASE bytes[s] = idOf[s] /\ Untouched(s)
    BY <2>1, <2>2, <2>3 DEF Untouched
  <2>4. ASSUME NEW o \in Streams, NEW k \in 1 .. Len(queue[o]), LastCopy(o, k, s)
        PROVE  k \in 1 .. Len(queue'[o]) /\ LastCopy(o, k, s)'
    <3>1. k \in 1 .. Len(queue'[o]) /\ queue'[o][k] = queue[o][k]
      BY DEF QueuedUp
    <3>2. \A n \in (k + 1) .. Len(queue'[o]) : n \in 1 .. Len(queue'[o])
      OBVIOUS
    <3>3. \A n \in (k + 1) .. Len(queue'[o]) : s \notin Range(queue'[o][n].want)
      BY <2>2, <2>4, <3>2 DEF LastCopy
    <3>4. QED
      BY <2>1, <2>4, <3>1, <3>3 DEF LastCopy
  <2>5. QED
    BY <1>1, <2>1, <2>3, <2>4 DEF SlotsRight
<1>2. ASSUME NEW s \in Slots, s \in Range(f)
      PROVE  \E k \in 1 .. Len(queue'[st]) : LastCopy(st, k, s)'
  <2>1. idOf'[s] = Loaded(f, s) /\ Loaded(f, s) \in DOMAIN f /\ f[Loaded(f, s)] = s
    BY <1>2, LoadedInverse DEF Install, IsLoad
  <2>2. Len(queue'[st]) \in Nat \ {0} /\ queue'[st][Len(queue'[st])].want = f
    BY DEF QueuedUp
  <2>3. LastCopy(st, Len(queue[st]), s)'
    BY <2>1, <2>2 DEF LastCopy
  <2>4. QED
    BY <2>2, <2>3
<1>3. QED
  BY <1>1, <1>2 DEF SlotsRight

LEMMA BeginSlots ==
  ASSUME PipeInv, SlotsRight, NEW st \in Streams, CopyBegin(st)
  PROVE  SlotsRight'
<1>1. /\ idOf' = idOf /\ Head(queue[st]) = queue[st][1] /\ 1 \in 1 .. Len(queue[st])
      /\ plan[queue[st][1].buf] = queue[st][1].want
      /\ \A o \in Streams : Len(queue'[o]) = Len(queue[o])
      /\ \A o \in Streams : \A k \in 1 .. Len(queue[o]) :
           queue'[o][k].want = queue[o][k].want
  BY StartIs DEF CopyBegin, PipeInv, QueueInv, vars
<1>2. ASSUME NEW s \in Slots, idOf[s] # NoId
      PROVE  \/ bytes'[s] = idOf'[s] /\ Untouched(s)'
             \/ \E o \in Streams : \E k \in 1 .. Len(queue'[o]) : LastCopy(o, k, s)'
  <2>1. CASE bytes[s] = idOf[s] /\ Untouched(s)
    <3>1. s \notin Range(queue[st][1].want)
      BY <1>1, <2>1 DEF Untouched
    <3>2. bytes'[s] = bytes[s]
      BY <1>1, <3>1 DEF CopyBegin
    <3>3. QED
      BY <1>1, <2>1, <3>2 DEF Untouched
  <2>2. ASSUME NEW o \in Streams, NEW k \in 1 .. Len(queue[o]), LastCopy(o, k, s)
        PROVE  LastCopy(o, k, s)'
    <3>1. Len(queue[o]) \in Nat
      BY LenProperties DEF PipeInv, QueueInv
    <3>2. \A n \in (k + 1) .. Len(queue[o]) : n \in 1 .. Len(queue[o])
      BY <3>1
    <3>3. QED
      BY <1>1, <2>2, <3>2 DEF LastCopy
  <2>3. QED
    BY <1>1, <1>2, <2>1, <2>2 DEF SlotsRight
<1>3. QED
  BY <1>1, <1>2 DEF SlotsRight

(* A finished copy leaves the right bytes in every slot whose last queued  *)
(* copy it was; no other stream's copy can be the last one there.          *)
LEMMA EndSlots ==
  ASSUME IInv, PipeInv, Apart, SlotsRight, NEW st \in Streams, CopyEnd(st)
  PROVE  SlotsRight'
<1> DEFINE f == queue[st][1].want
<1>1. /\ idOf' = idOf /\ Head(queue[st]) = queue[st][1]
      /\ Len(queue[st]) \in Nat \ {0} /\ Len(queue'[st]) = Len(queue[st]) - 1
      /\ \A k \in 1 .. Len(queue'[st]) : queue'[st][k] = queue[st][k + 1]
      /\ \A o \in Streams \ {st} : queue'[o] = queue[o]
  BY DequeueIs DEF CopyEnd, PipeInv, QueueInv, vars
<1>2. 1 \in 1 .. Len(queue[st]) /\ plan[queue[st][1].buf] = f
  BY <1>1 DEF PipeInv, QueueInv
<1>3. IsInjective(f) /\ DOMAIN f \subseteq Ids
  <2>1. f \in Plans
    BY <1>2, OpTypes DEF PipeInv
  <2>2. QED
    BY <2>1 DEF Plans
<1>4. \A s \in Slots : bytes'[s] = IF s \in Range(f) THEN [i \in Ids |-> i][Loaded(f, s)]
                                  ELSE bytes[s]
  BY <1>1, <1>2 DEF CopyEnd, Filled
<1>5. ASSUME NEW s \in Slots, Untouched(s)
      PROVE  bytes'[s] = bytes[s] /\ Untouched(s)'
  <2>1. s \notin Range(f)
    BY <1>2, <1>5 DEF Untouched
  <2>2. \A o \in Streams : \A k \in 1 .. Len(queue'[o]) :
          \E n \in 1 .. Len(queue[o]) : queue'[o][k] = queue[o][n]
    <3>1. ASSUME NEW k \in 1 .. Len(queue'[st])
          PROVE  \E n \in 1 .. Len(queue[st]) : queue'[st][k] = queue[st][n]
      <4>1. k + 1 \in 1 .. Len(queue[st]) /\ queue'[st][k] = queue[st][k + 1]
        BY <1>1
      <4>2. QED
        BY <4>1
    <3>2. \A o \in Streams \ {st} : queue'[o] = queue[o]
      BY <1>1
    <3>3. QED
      BY <3>1, <3>2
  <2>3. bytes'[s] = bytes[s]
    BY <1>4, <2>1
  <2>4. QED
    BY <1>5, <2>2, <2>3 DEF Untouched
<1>6. ASSUME NEW s \in Slots, LastCopy(st, 1, s)
      PROVE  bytes'[s] = idOf'[s] /\ Untouched(s)'
  <2>1. idOf[s] \in DOMAIN f /\ f[idOf[s]] = s
    BY <1>6 DEF LastCopy
  <2>2. s \in Range(f) /\ Loaded(f, s) \in DOMAIN f /\ f[Loaded(f, s)] = s
    BY <2>1 DEF Range, Loaded
  <2>3. Loaded(f, s) = idOf[s]
    BY <1>3, <2>1, <2>2 DEF IsInjective
  <2>4. bytes'[s] = idOf'[s]
    BY <1>1, <1>3, <1>4, <2>1, <2>2, <2>3
  <2>5. \A k \in 1 .. Len(queue'[st]) : s \notin Range(queue'[st][k].want)
    <3>1. \A k \in 1 .. Len(queue'[st]) : k + 1 \in 2 .. Len(queue[st])
      BY <1>1
    <3>2. QED
      BY <1>1, <1>6, <3>1 DEF LastCopy
  <2>6. \A o \in Streams \ {st} : \A k \in 1 .. Len(queue[o]) : s \notin Range(queue[o][k].want)
    <3>1. CASE st = "copy"
      BY <1>2, <2>2, <3>1 DEF Apart, Streams
    <3>2. CASE st = "prefetch"
      BY <1>2, <2>2, <3>2 DEF Apart, Streams
    <3>3. QED
      BY <3>1, <3>2 DEF Streams
  <2>7. QED
    BY <1>1, <2>4, <2>5, <2>6 DEF Untouched
<1>7. ASSUME NEW s \in Slots, NEW k \in 2 .. Len(queue[st]), LastCopy(st, k, s)
      PROVE  k - 1 \in 1 .. Len(queue'[st]) /\ LastCopy(st, k - 1, s)'
  <2>1. k - 1 \in 1 .. Len(queue'[st]) /\ queue'[st][k - 1] = queue[st][k]
    BY <1>1
  <2>2. \A n \in k .. Len(queue'[st]) : /\ n + 1 \in (k + 1) .. Len(queue[st])
                                        /\ queue'[st][n] = queue[st][n + 1]
    BY <1>1
  <2>3. (k - 1) + 1 = k
    OBVIOUS
  <2>4. QED
    BY <1>1, <1>7, <2>1, <2>2, <2>3 DEF LastCopy
<1>8. ASSUME NEW s \in Slots, NEW o \in Streams \ {st}, NEW k \in 1 .. Len(queue[o]), LastCopy(o, k, s)
      PROVE  k \in 1 .. Len(queue'[o]) /\ LastCopy(o, k, s)'
  BY <1>1, <1>8 DEF LastCopy
<1>9. ASSUME NEW s \in Slots, idOf[s] # NoId
      PROVE  \/ bytes'[s] = idOf'[s] /\ Untouched(s)'
             \/ \E o \in Streams : \E k \in 1 .. Len(queue'[o]) : LastCopy(o, k, s)'
  <2>1. CASE bytes[s] = idOf[s] /\ Untouched(s)
    BY <1>1, <1>5, <2>1
  <2>2. ASSUME NEW o \in Streams, NEW k \in 1 .. Len(queue[o]), LastCopy(o, k, s)
        PROVE  \/ bytes'[s] = idOf'[s] /\ Untouched(s)'
               \/ \E z \in Streams : \E n \in 1 .. Len(queue'[z]) : LastCopy(z, n, s)'
    <3>1. CASE o # st
      BY <1>8, <2>2, <3>1
    <3>2. CASE o = st /\ k = 1
      BY <1>6, <2>2, <3>2
    <3>3. CASE o = st /\ k # 1
      <4>1. k \in 2 .. Len(queue[st])
        BY <1>1, <3>3
      <4>2. QED
        BY <1>7, <2>2, <3>3, <4>1
    <3>4. QED
      BY <3>1, <3>2, <3>3
  <2>3. QED
    BY <1>9, <2>1, <2>2 DEF SlotsRight
<1>10. QED
  BY <1>1, <1>9 DEF SlotsRight

LEMMA NextSlots ==
  ASSUME IInv, PipeInv, Apart, SlotsRight, [PipeNext]_allVars
  PROVE  SlotsRight'
<1>a. ASSUME queue' = queue, bytes' = bytes, idOf' = idOf
      PROVE  SlotsRight'
  <2>1. \A s \in Slots : Untouched(s) => Untouched(s)'
    BY <1>a DEF Untouched
  <2>2. \A s \in Slots, st \in Streams : \A k \in 1 .. Len(queue[st]) :
          LastCopy(st, k, s) => LastCopy(st, k, s)'
    BY <1>a DEF LastCopy
  <2>3. QED
    BY <1>a, <2>1, <2>2 DEF SlotsRight
<1>1. ASSUME NEW l \in Layers, NEW q \in Queries(l), NEW r \in Ranked(l, q),
             NEW p \in Touches(q, r), NEW f \in VictimChoices(q), PipeEnsure(l, q, p, f)
      PROVE  SlotsRight'
  <2>1. q \in SUBSET Ids /\ QueuedUp("copy", Copy(Demand, l, f)) /\ Copy(Demand, l, f).want = f
    BY <1>1, EnsureQueue, LayerIdsSubset DEF Queries, Copy
  <2>2. IsLoad(f, q) /\ Install(f) /\ bytes' = bytes
    BY <1>1 DEF PipeEnsure, VictimChoices, IsLoad, Ensure, IsVictimMap
  <2>3. QED
    BY <2>1, <2>2, InstallSlots DEF Streams
<1>2. ASSUME NEW q \in Predictions, NEW f \in VictimChoices(q), PipeEarly(q, f)
      PROVE  SlotsRight'
  <2>1. /\ q \in SUBSET Ids /\ QueuedUp("copy", Copy(PfBuffer(layer), layer + 1, f))
        /\ Copy(PfBuffer(layer), layer + 1, f).want = f
    BY <1>2, EarlyQueue, LayerIdsSubset DEF Predictions, Copy
  <2>2. IsLoad(f, q) /\ Install(f) /\ bytes' = bytes
    BY <1>2 DEF PipeEarly, VictimChoices, IsLoad, PrefetchEarly, IsVictimMap
  <2>3. QED
    BY <2>1, <2>2, InstallSlots DEF Streams
<1>3. ASSUME NEW q \in Predictions, NEW f \in VictimChoices(q), PipeLaunch(q, f)
      PROVE  SlotsRight'
  <2>1. /\ q \in SUBSET Ids /\ QueuedUp("prefetch", Copy(PfBuffer(layer), layer + 1, f))
        /\ Copy(PfBuffer(layer), layer + 1, f).want = f
    BY <1>3, LaunchQueue, LayerIdsSubset DEF Predictions, Copy
  <2>2. IsLoad(f, q) /\ Install(f) /\ bytes' = bytes
    BY <1>3 DEF PipeLaunch, VictimChoices, IsLoad, PrefetchGuarded, PrefetchLru, IsVictimMap
  <2>3. QED
    BY <2>1, <2>2, InstallSlots DEF Streams
<1>4. CASE GemmA \/ GemmB \/ GemmDone \/ UNCHANGED allVars
  BY <1>a, <1>4 DEF GemmA, GemmB, GemmDone, Gemm, allVars, vars, pipeVars
<1>5. ASSUME NEW st \in Streams, CopyBegin(st) \/ CopyEnd(st)
      PROVE  SlotsRight'
  BY <1>5, BeginSlots, EndSlots
<1>6. CASE PipeElastic
  <2>1. queue' = queue /\ RetiredPinned' /\ mapped' \in Nat
    <3>1. [Next]_vars
      BY <1>6 DEF PipeElastic, Next
    <3>2. IInv'
      BY <3>1, NextInv
    <3>3. QED
      BY <1>6, <3>2 DEF PipeElastic, IInv, TypeOK
  <2>2. ASSUME NEW s \in Slots, idOf'[s] # NoId
        PROVE  bytes'[s] = bytes[s] /\ idOf'[s] = idOf[s]
    <3>1. s < mapped' * Chunk
      BY <2>1, <2>2 DEF RetiredPinned, RetiredSlots, ActiveSlots
    <3>2. bytes'[s] = bytes[s]
      BY <1>6, <3>1 DEF PipeElastic
    <3>3. idOf'[s] = idOf[s]
      BY <1>6, <2>2 DEF PipeElastic, ElasticStep, RetireTop, Restore, Vacate, Marked
    <3>4. QED
      BY <3>2, <3>3
  <2>3. QED
    BY <2>1, <2>2 DEF SlotsRight, Untouched, LastCopy
<1>7. ASSUME NEW b \in {0, 1}, PipeBorrow(b)
      PROVE  SlotsRight'
  <2>1. ASSUME NEW s \in Slots, idOf'[s] # NoId
        PROVE  bytes'[s] = bytes[s] /\ idOf'[s] = idOf[s]
    BY <1>7, <2>1 DEF PipeBorrow, BorrowedBytes, InvalidateBuffer, Vacate, Marked
  <2>2. queue' = queue
    BY <1>7 DEF PipeBorrow
  <2>3. QED
    BY <2>1, <2>2 DEF SlotsRight, Untouched, LastCopy
<1>8. QED
  BY <1>1, <1>2, <1>3, <1>4, <1>5, <1>6, <1>7 DEF PipeNext, MainStep, CopyStep

LEMMA SlotsAlways ==
  ASSUME PfGuard \/ EarlyPf
  PROVE  PipeSpec => [](IInv /\ PipeInv /\ Apart /\ SlotsRight)
<1>1. PipeInit => IInv /\ PipeInv /\ Apart /\ SlotsRight
  <2> SUFFICES ASSUME PipeInit PROVE Apart /\ SlotsRight
    BY InitInv, InitPipe DEF PipeInit
  <2>1. Len(queue["copy"]) = 0
    BY EmptySeq DEF PipeInit, Streams
  <2>2. \A s \in Slots : idOf[s] = NoId
    BY DEF PipeInit, Init
  <2>3. QED
    BY <2>1, <2>2 DEF Apart, SlotsRight
<1>2. (IInv /\ PipeInv /\ Apart /\ SlotsRight) /\ [PipeNext]_allVars
        => (IInv /\ PipeInv /\ Apart /\ SlotsRight)'
  BY NextInv, NextPipe, PipeStepIs, NextApart, NextSlots
<1>3. QED
  BY <1>1, <1>2, PTL DEF PipeSpec

(* With a guarded or an early prefetch two copies never write one slot at  *)
(* a time.                                                                 *)
THEOREM OneWriterPerSlot ==
  ASSUME PfGuard \/ EarlyPf
  PROVE  PipeSpec => []OneWriter
<1>1. IInv /\ PipeInv /\ Apart => OneWriter
  <2> SUFFICES ASSUME PipeInv, Apart, NEW a \in Queued("copy"), NEW b \in Queued("prefetch")
               PROVE  Range(plan[a.buf]) \cap Range(plan[b.buf]) = {}
    BY DEF OneWriter
  <2>1. PICK k \in 1 .. Len(queue["copy"]) : a = queue["copy"][k]
    BY DEF Queued
  <2>2. PICK n \in 1 .. Len(queue["prefetch"]) : b = queue["prefetch"][n]
    BY DEF Queued
  <2>3. plan[a.buf] = a.want /\ plan[b.buf] = b.want
    BY <2>1, <2>2 DEF PipeInv, QueueInv, Streams
  <2>4. QED
    BY <2>1, <2>2, <2>3 DEF Apart
<1>2. QED
  BY <1>1, SlotsAlways, PTL

(* A cached expert is really in its slot, or its copy is queued.           *)
THEOREM MappedIsBacked ==
  ASSUME PfGuard \/ EarlyPf
  PROVE  PipeSpec => []MappedBacked
<1>1. IInv /\ SlotsRight => MappedBacked
  <2> SUFFICES ASSUME IInv, SlotsRight, NEW i \in Ids, slotOf[i] # NoSlot
               PROVE  \/ bytes[slotOf[i]] = i
                      \/ \E st \in Streams : \E op \in Queued(st) :
                           i \in DOMAIN op.want /\ op.want[i] = slotOf[i]
    BY DEF MappedBacked
  <2>1. slotOf[i] \in Slots /\ idOf[slotOf[i]] = i
    BY DEF IInv, TypeOK, MapInverse
  <2>2. i # NoId
    BY NoIdAssumption
  <2>3. QED
    BY <2>1, <2>2 DEF SlotsRight, LastCopy, Queued
<1>2. QED
  BY <1>1, SlotsAlways, PTL

(* The GEMM of every layer reads the weights of the experts it was routed  *)
(* to, in both phases, however the copies and the launches interleave.     *)
THEOREM GemmsReadRight ==
  ASSUME PfGuard \/ EarlyPf
  PROVE  PipeSpec => []GemmReadsRight
<1>1. IInv /\ PipeInv /\ SlotsRight => GemmReadsRight
  <2> SUFFICES ASSUME IInv, PipeInv, SlotsRight, pc # "none", NEW i \in DOMAIN routes,
                      pc = "A" => i \in hits
               PROVE  bytes[routes[i]] = i
    BY DEF GemmReadsRight, PipeInv, RouteInv
  <2>1. routes[i] \in Slots /\ idOf[routes[i]] = i /\ i # NoId /\ i[1] = layer
    BY NoIdAssumption DEF IInv, Guarded, RoutesKept, PipeInv, RouteInv
  <2>2. ASSUME NEW st \in Streams, NEW k \in 1 .. Len(queue[st]), LastCopy(st, k, routes[i])
        PROVE  FALSE
    <3>1. i \in DOMAIN queue[st][k].want /\ queue[st][k].target = layer
      BY <2>1, <2>2 DEF LastCopy, PipeInv, QueueInv
    <3>2. layer # layer + 1
      BY DEF IInv, TypeOK, Layers
    <3>3. CASE st = "copy"
      BY <3>1, <3>2, <3>3 DEF PipeInv, QueueInv, OnCopy, IsDemand, IsLanding, IsAhead
    <3>4. CASE st = "prefetch"
      BY <3>1, <3>2, <3>4 DEF PipeInv, QueueInv, OnPrefetch, IsLanding, IsAhead
    <3>5. QED
      BY <3>3, <3>4 DEF Streams
  <2>3. QED
    BY <2>1, <2>2 DEF SlotsRight
<1>2. QED
  BY <1>1, SlotsAlways, PTL
=============================================================================
