-------------------------- MODULE PrefetchPipeline --------------------------
(***************************************************************************)
(* The hit/miss split decode of OffloadMoELayer (_decode_split) around the *)
(* expert cache: the main stream runs the cache kernels and the GEMMs in   *)
(* program order, the demand copies and the early prefetch copies run on   *)
(* the copy stream, the post-GEMM prefetch copies on SpecPrefetch's own    *)
(* stream.  A copy reads its plan from a buffer that later calls reuse,    *)
(* and it leaves the bytes of a slot undefined from its start to its end.  *)
(*                                                                         *)
(* An action of ExpertCache is the main-stream part; what is added here is *)
(* the copy it queues, the bytes of the slots and the events the GEMM      *)
(* waits.  An event recorded behind a copy is done when no operation of    *)
(* that stream up to the copy is left in the queue.                        *)
(***************************************************************************)
EXTENDS ExpertCache, Sequences

CONSTANT Torn  (* the bytes of a slot a copy is writing, or that were unmapped *)
ASSUME TornAssumption == Torn \notin Ids \cup {NoId}

VARIABLES
  bytes,    (* the expert whose weights a slot's bytes are, or Torn        *)
  plan,     (* plan buffers: the demand plan and the double-buffered pf_*  *)
  queue,    (* stream -> the copies queued on it, in order                 *)
  hits,     (* the routes phase A computes: those resident at the ensure   *)
  pc        (* the current layer's GEMM: "none", "A" (hits), "B" (misses)  *)

pipeVars == <<bytes, plan, queue, hits, pc>>
allVars  == <<vars, pipeVars>>

Streams == {"copy", "prefetch"}
Demand  == 2          \* evict_slots / src_indices: one plan, whatever the layer
Buffers == {0, 1, Demand}

\* Mutant: one plan buffer for every source layer.
PfBuffer_Single(l) == 0
PfBuffer(l) == l % 2

(* A queued copy: the buffer it will read, the layer whose GEMM waits it,  *)
(* whether it runs, and (history) the plan its launch wrote.               *)
Copy(buf, target, want) ==
  [buf |-> buf, target |-> target, running |-> FALSE, want |-> want]
Enqueue(stream, op) == queue' = [queue EXCEPT ![stream] = Append(@, op)]
Queued(stream) == {queue[stream][k] : k \in 1 .. Len(queue[stream])}

(* wait_event: no copy of that kind is left for the layer.                 *)
DemandLanded(l)   == \A op \in Queued("copy") : ~(op.buf = Demand /\ op.target = l)
PrefetchLanded(l) == \A st \in Streams : \A op \in Queued(st) :
                       ~(op.buf # Demand /\ op.target = l)

-----------------------------------------------------------------------------
PipeInit ==
  /\ Init
  /\ bytes = [s \in Slots |-> NoId]
  /\ plan = [b \in Buffers |-> NoMap]
  /\ queue = [st \in Streams |-> <<>>]
  /\ hits = {}
  /\ pc = "none"

(* The ensure kernel writes the demand plan; copy_missing reads it on the  *)
(* copy stream.                                                            *)
PipeEnsure(l, q, p, f) ==
  /\ pc = "none"
  /\ Ensure(l, q, p, f)
  /\ plan' = [plan EXCEPT ![Demand] = f]
  /\ Enqueue("copy", Copy(Demand, l, f))
  /\ hits' = q \ Missing(q)
  /\ UNCHANGED <<bytes, pc>>

(* launch_early: the prefetch copy follows the demand copy on its stream.  *)
PipeEarly(q, f) ==
  /\ pc = "none"
  /\ PrefetchEarly(q, f)
  /\ plan' = [plan EXCEPT ![PfBuffer(layer)] = f]
  /\ Enqueue("copy", Copy(PfBuffer(layer), layer + 1, f))
  /\ UNCHANGED <<bytes, hits, pc>>

(* launch: after the GEMM, on the prefetch stream.                         *)
PipeLaunch(q, f) ==
  /\ PrefetchGuarded(q, f) \/ PrefetchLru(q, f)
  /\ plan' = [plan EXCEPT ![PfBuffer(layer)] = f]
  /\ Enqueue("prefetch", Copy(PfBuffer(layer), layer + 1, f))
  /\ UNCHANGED <<bytes, hits, pc>>

\* Mutants: the GEMM starts without before_gemm, phase B without copy_event.
GemmA_NoWait ==
  /\ phase \in {"routed", "early"}
  /\ pc = "none"
  /\ pc' = "A"
  /\ UNCHANGED <<vars, bytes, plan, queue, hits>>
GemmB_NoWait ==
  /\ pc = "A"
  /\ pc' = "B"
  /\ UNCHANGED <<vars, bytes, plan, queue, hits>>

(* Phase A of the split GEMM, after before_gemm waited the prefetch copies *)
(* aimed at this layer: the hits.                                          *)
GemmA ==
  /\ phase \in {"routed", "early"}
  /\ pc = "none"
  /\ PrefetchLanded(layer)
  /\ pc' = "A"
  /\ UNCHANGED <<vars, bytes, plan, queue, hits>>

(* Phase B, after copy_event: the misses.                                  *)
GemmB ==
  /\ pc = "A"
  /\ DemandLanded(layer)
  /\ pc' = "B"
  /\ UNCHANGED <<vars, bytes, plan, queue, hits>>

\* Mutant: the next layer starts with this layer's hit mask.
GemmDone_KeepHits ==
  /\ pc = "B"
  /\ Gemm
  /\ pc' = "none"
  /\ UNCHANGED <<bytes, plan, queue, hits>>
GemmDone ==
  /\ pc = "B"
  /\ Gemm
  /\ pc' = "none"
  /\ hits' = {}
  /\ UNCHANGED <<bytes, plan, queue>>

(* The copy engine: the head of a stream starts, reading its plan buffer,  *)
(* and ends.                                                               *)
CopyBegin(st) ==
  /\ queue[st] # <<>>
  /\ ~Head(queue[st]).running
  /\ queue' = [queue EXCEPT ![st][1].running = TRUE]
  /\ bytes' = [s \in Slots |->
                 IF s \in Range(plan[Head(queue[st]).buf]) THEN Torn ELSE bytes[s]]
  /\ UNCHANGED <<vars, plan, hits, pc>>

CopyEnd(st) ==
  /\ queue[st] # <<>>
  /\ Head(queue[st]).running
  /\ bytes' = Filled(plan[Head(queue[st]).buf], bytes, [i \in Ids |-> i])
  /\ queue' = [queue EXCEPT ![st] = Tail(@)]
  /\ UNCHANGED <<vars, plan, hits, pc>>

(* Between decode steps: the elastic retire and restore synchronize the    *)
(* device first; a prefill overwrites the bytes of the buffer it borrowed. *)
PipeElastic ==
  /\ ElasticStep
  /\ bytes' = [s \in Slots |-> IF s < mapped' * Chunk THEN bytes[s] ELSE Torn]
  /\ UNCHANGED <<plan, queue, hits, pc>>
BorrowedBytes(b) ==
  [s \in Slots |-> IF b * Cardinality(Experts) <= s /\ s < (b + 1) * Cardinality(Experts)
                   THEN Torn ELSE bytes[s]]
\* Mutant: the borrowed slots keep their ids.
PipeBorrow_NoInvalidate(b) ==
  /\ phase = "idle"
  /\ bytes' = BorrowedBytes(b)
  /\ UNCHANGED <<vars, plan, queue, hits, pc>>
PipeBorrow(b) ==
  /\ InvalidateBuffer(b)
  /\ bytes' = BorrowedBytes(b)
  /\ UNCHANGED <<plan, queue, hits, pc>>

MainStep ==
  \/ \E l \in Layers : \E q \in Queries(l) : \E r \in Ranked(l, q) :
       \E p \in Touches(q, r) : \E f \in VictimChoices(q) : PipeEnsure(l, q, p, f)
  \/ \E q \in Predictions : \E f \in VictimChoices(q) : PipeEarly(q, f) \/ PipeLaunch(q, f)
  \/ GemmA
  \/ GemmB
  \/ GemmDone
CopyStep == \E st \in Streams : CopyBegin(st) \/ CopyEnd(st)

PipeNext ==
  \/ MainStep
  \/ CopyStep
  \/ PipeElastic
  \/ \E b \in {0, 1} : PipeBorrow(b)

PipeSpec == PipeInit /\ [][PipeNext]_allVars

-----------------------------------------------------------------------------
(* Properties.                                                             *)

PipeTypeOK ==
  /\ bytes \in [Slots -> Ids \cup {NoId, Torn}]
  /\ pc \in {"none", "A", "B"}
  /\ hits \subseteq DOMAIN routes
  /\ \A st \in Streams : \A op \in Queued(st) : op.buf \in Buffers /\ op.target \in Layers

(* A GEMM phase reads the weights of the experts it was routed to: every   *)
(* slot it reads holds the right bytes for the whole phase, whatever copy  *)
(* runs beside it.                                                         *)
GemmReadsRight ==
  /\ pc = "A" => \A i \in hits : bytes[routes[i]] = i
  /\ pc = "B" => \A i \in DOMAIN routes : bytes[routes[i]] = i

(* The double-buffer proof of moe/spec_prefetch.py: no plan buffer is      *)
(* rewritten before the copy queued with it has read it.                   *)
PlanIntact ==
  \A st \in Streams : \A op \in Queued(st) : plan[op.buf] = op.want

(* Two copies never write one slot at a time.                              *)
OneWriter ==
  \A a \in Queued("copy"), b \in Queued("prefetch") :
    a.running /\ b.running => Range(plan[a.buf]) \cap Range(plan[b.buf]) = {}

(* Between decode steps no copy is left on any stream: a retired chunk is  *)
(* not unmapped, and a borrowed buffer not overwritten, under a copy.      *)
IdleDrained == phase = "idle" => \A st \in Streams : queue[st] = <<>>

(* A cached expert's slot holds its bytes, or a copy that will write them  *)
(* is queued: what the next decode step hits is real.                      *)
MappedBacked ==
  \A i \in Ids : slotOf[i] # NoSlot =>
    \/ bytes[slotOf[i]] = i
    \/ \E st \in Streams : \E op \in Queued(st) : i \in DOMAIN op.want /\ op.want[i] = slotOf[i]
=============================================================================
