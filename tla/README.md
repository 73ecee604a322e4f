# Verification of the FreeToken offload boost

TLA+ models, TLC checks and TLAPS proofs for the concurrent and stateful parts of
this repository: the expert slot cache and its prefetch pipeline, the KV page
allocator under the overlap scheduler, the elastic budget the two pools share, the
two self-speculative decoders, and the attention path of the Naive model with its pool
and its top-k kernels.

The repository is a plug-in for the FreeToken serving engine: new files under
`overlay/` and unified diffs under `patches/`. The engine those diffs apply to is
not part of the repository. What the patched code calls there (the radix tree,
the request object, the scheduler loop's bookkeeping, flashlib's `lru_ensure`) is
modelled from how the code here uses it and marked external in the map.

## 1. Inventory

### Parts that keep control state

**Expert slot cache** (`moe/soft_ensure.py`, `moe_offload_kernels.patch`,
`moe_offload_cache.patch`). State: `slot_for_id`, `id_of_slot`, the eviction key
`usage`, the CRF priority `soft_prio`, the stamp `soft_guard`, the counter `step`,
the mapped chunk count `_el_mapped`. Operations: `soft_ensure` (touch, look up,
evict, map), `soft_prefetch`, `soft_prefetch_guarded`, flashlib's `lru_ensure`,
`elastic_retire_until`, `elastic_restore`, `_invalidate_prefill_buffer`, `reset`.
Every decode layer calls an ensure; the prefetcher writes the same tables for the
next layer; the elastic budget takes slots away between steps. Hard: five writers of
two inverse tables, protection by a stamp equal to a counter that a reset rewinds,
an exclusion that is nothing but a large key. Right when the tables stay inverse,
the routes of the running layer and slots under a copy are never evicted, retired
slots are never chosen, a victim always exists, and the key is the priority.

**Speculative prefetch and split decode** (`moe/spec_prefetch.py`,
`layers_moe.patch`, `moe_fused_nvfp4.patch`). State: two prefetch plan buffers, one
demand plan, two side streams, one pending event per layer. `_decode_split` queues
the demand copy, optionally prefetches early behind it, runs the GEMM of the hits,
waits, runs the GEMM of the misses; `launch` prefetches after the GEMM on another
stream. Hard: three streams, buffers reused two layers later, an event waited only
by the target's GEMM. Right when a GEMM reads the bytes of the experts it was routed
to, no plan is rewritten before it was read, and no two copies write one slot.

**KV page allocation and prefix cache** (`scheduler_cache.patch`, `core.patch`).
State: the free list, the page table, the radix tree, per request `cached_len`,
`device_len`, `spec_alloc_len` and the locked handle. Operations: `match_req`,
`allocate_paged`, `_allocate`, `cache_req`, `_padded_tail`, `evict_tokens`. Hard: a
batch is launched before the previous batch's results are processed, pages are
shared between rows and the tree, duplicates are reclaimed at commit, speculative
decoding owns pages ahead of its length. Right when every computed position's page
holds its KV, the tree's pages hold what they are cached for, no page is lost or
handed out twice, and an admitted request is always served and ends.

**Elastic KV budget** (`engine/elastic.py`, `scheduler_scheduler.patch`). State: the
mapped steps, the stack of chunks retired per step, the timers. Operations: `grow`,
`shrink`, `_compact`, the idle and the busy shrink. It takes slots from the expert
cache and moves pages under the prefix cache. Hard: growth may fail after admission
counted on it; shrinking must see the batch in flight. Right when the pages in
circulation are exactly the mapped ones, the memory budget holds and each step
returns the chunks that paid for it.

**Speculative decoding** (`glm5_next/spec.py`, `deepseek_v4/spec.py`, `dspark.py`,
`comp_step.py`, `spec_chain.py`, `glm5_next/attention.py`). State: a key (uid, expected
length), the tokens left to pop, the draft, the verify graph and what is staged in it;
the recurrent and conv state of each KDA slot; the compressor registers of each window
page; the ring of hidden states and its owner. Operations: `try_step` chooses between
`_pop`, `_round` and the normal forward with `after_main`. A round absorbs several
tokens at once and must leave every piece of state at the last accepted one. Hard: four
kinds of state with four ways back, one slot of speculative state for all requests, and
tokens verified but not yet emitted. Right when the tokens emitted are those of greedy
decoding, one per step, within the budget and on pages the request owns.

**Naive pool, attention and top-k** (`kvcache/naive_pool.py`, `attention/naive.py`,
`kernel/triton/naive_attn.py`). State: rows of keys and values, index keys with scales
kept apart, window rows behind a full-to-window map, mapped steps; the state block,
histogram and selection of the radix top-k, reused by every layer. Operations: the prep
and store of a token, extend, sparse prefill, split decode, index scores, the top-k
launches, `elastic_map_step`, `elastic_move_tokens`, `elastic_unmap_step`. Right when
every query reads each key it may see once and no other, in spite of tiles, splits,
prefix reuse and compaction, and the top-k is exact whatever the order of its programs.

**Prefill admission** (`scheduler_prefill.patch`, `scheduler_utils.patch`). State:
the pass's token and pool budgets, pending chunked requests, the rejected list.
Right when a deferral or refusal leaves the pass as it was, chunks cover the prompt
and image rows follow their placeholders. Not modelled beyond one chunk per request.

**Linear state slots** (`scheduler_cache.patch` hybrid path,
`kvcache_linear_state_pool.patch`, `attention_linear.patch`). Slots move between a
live request and the tree by a private clone. Right when no slot is owned twice or
lost and a restored snapshot belongs to its prefix. What a slot holds is modelled
(`KdaState`), who owns it is not.

**Host banks** (`moe_host_banks.patch`, `moe_expert_banks.patch`). A background
thread pins or locks banks from a queue and surfaces the first failure. Not modelled.

**GPU selection** (`gpu_select.py`, `daemon_app.patch`). Published and bound GPU per
process. Not modelled.

### Parts without control state

Layers without state of their own, weights, vision, the other numeric kernels, server
APIs, tokenizer, benchmarks and installation. They are sequential tensor code, request
plumbing or scripts; `PROJECT.json` lists each with its reason.

## 2. Modules

| Module | Models | Built on |
|---|---|---|
| `ExpertCache` | the slot cache kernels, elastic chunks, borrow, reset | |
| `ExpertCacheProofs` | theorems about `ExpertCache` | `ExpertCache`, TLAPS |
| `PrefetchPipeline` | streams, plan buffers, bytes and GEMM phases around the cache | extends `ExpertCache` |
| `PrefetchPipelineProofs` | theorems about `PrefetchPipeline` | `PrefetchPipeline`, `ExpertCacheProofs` |
| `PagedAlloc` | page allocation, prefix cache, overlap loop, speculative watermark | |
| `PagedAllocProofs` | theorems about `PagedAlloc` | `PagedAlloc`, TLAPS |
| `ElasticKV` | growing, compacting and shrinking the pool of `PagedAlloc` | extends `PagedAlloc` |
| `ElasticKVProofs` | theorems about `ElasticKV` | `ElasticKV`, `PagedAllocProofs` |
| `GreedyDecode` | what a user is promised: greedy tokens, one per step, to the end | |
| `SpecEngine` | requests, horizon, speculative key, gates, pops, verify graph | instance of `GreedyDecode` |
| `KdaState` | recurrent and conv state of a KDA slot, the branches that advance it | |
| `MtpSpec` | MTP decoding of GLM5-Next | extends `SpecEngine`, `KdaState` |
| `Compressor` | the rolling register of a DeepSeek-V4 compressor, the chain kernel | |
| `DSpark` | DSpark decoding of DeepSeek-V4 | extends `SpecEngine`, `Compressor` |
| `SpecDecode` | the engine with one of the two decoders | extends `MtpSpec`, `DSpark` |
| `SpecDecodeProofs` | theorems about both decoders, any number of rows | `SpecDecode`, TLAPS |
| `GreedyProofs` | theorems about both decoders over one row | `SpecDecodeProofs` |
| `NaiveAttn` | the Naive attention kernels as the slots they read | |
| `DsaTopk` | the radix top-k, one step per program | extends `NaiveAttn` |
| `NaivePool` | what each slot of the Naive pool holds | |
| `NaiveServe` | a stream of Naive requests over pool, prefix cache and kernels | extends `DsaTopk`, `NaivePool` |
| `DsaTopkProofs` | the invariant of the radix top-k | `DsaTopk`, TLAPS |
| `NaiveServeProofs` | theorems about `NaiveServe` | `NaiveServe`, `DsaTopkProofs` |
| `MC...` | instances for TLC | |

### ExpertCache

One action per kernel; a kernel is atomic since it is one program on the main stream.
What is concurrent is recorded: `routes` are the slots the current layer's GEMM still
has to read, `inflight` the slots a prefetch copy may still be writing. `phase` follows
one layer: idle, routed (after the ensure), early (after an early prefetch), computed
(after the GEMM), launched (after the post-GEMM prefetch).

| Action | Code |
|---|---|
| `Ensure` | `_soft_ensure_kernel`: counter, touches of the ranked list, guards of the hits, eviction loop |
| `PrefetchEarly` | `launch_early` with `_soft_prefetch_kernel` |
| `PrefetchGuarded` | `launch` with `_soft_prefetch_guard_kernel` |
| `PrefetchLru` | `launch` with the guard off: `lru_ensure` and its raw stamp |
| `Gemm` | the layer's GEMM after `before_gemm` |
| `RetireTop`, `Restore` | `elastic_retire_until`, `elastic_restore` |
| `InvalidateBuffer` | `ondemand_staging`'s borrow of a prefill buffer |
| `Reset` | `reset_cache`; `soft_prio` and `soft_guard` survive it |

The eviction loop is stated by its result: an injective map from the misses to
candidates such that every candidate left alone comes after every victim in key order
(`IsVictimMap`). Which miss gets which victim is open. A CRF touch gives any priority
above `PNone`, because the logarithm's rounding and the exponent's clamp can move a
priority either way; the touch of a routed expert gives at least `SoftBase`, and only a
near miss of little weight can lie below it. `LruStamp` is the raw counter of
`lru_ensure` above `Fresh`: with the guard off it rises through a behaviour and, as in
the code, stays below every priority of a routed expert (`SoftBase` is above the last
stamp in the runs that use it). `Reset` needs `~Elastic`: an elastic server sets
`supports_runtime_rebuild` to false (`scheduler_cache.patch:58`). The flags `EarlyPf`
and `PfGuard` are the code's two switches.

### PrefetchPipeline

Adds to each action the copy it queues. A copy begins by reading its plan buffer (its
slots' bytes become `Torn`) and ends by writing them; between the two anything else may
run. `GemmA` waits the prefetch copies aimed at the layer, `GemmB` the demand copy. The
history field `want` keeps the plan each launch wrote, so that `PlanIntact` compares it
with what the copy will read. Recording an event and waiting it are modelled as "no
copy of that kind for that layer is still queued", which is what a stream's order gives.

### PagedAlloc

One turn of the overlap loop is a `Schedule` step (admit and prefill, or decode, or
nothing) followed by `Process` steps for the batch before it and `EndTurn`. The
prefix cache is the function from a cached prefix to the page of its last token; `kv`
says, for each page, which prefix's KV it really holds, so the properties compare the
tables with the bytes. Speculative decoding is `DecodeRound` (verify `Horizon` drafts,
accept any number) and `DecodePop` (hand out a verified token with no forward).

Abstractions: pages of one token; the lowest free pages are handed out first (the
elastic allocator sorts; without it the order is a queue, and no property depends on
it); a request ends at its budget (no end-of-sequence token, no abort); a prompt is
one chunk, as with `FREETOKEN_PREFILL_SPLIT_LAST=0` (by default its last token runs alone in
the next pass). Admission is evaluated with the match
locked, as the engine repeats the test after the lock. Where the `_allocate` assertion
would fail the process ends, so there is no step; `GrownServed` is a state predicate
over what the next batch would need, and does not depend on that.

### ElasticKV

`EPrefill` and `EDecode` are the same steps over a pool that first grows by
`GrowthFor` steps. `Grown` folds `grow` over the chunks. `Shrink` is compaction,
eviction if allowed, unmapping and restoring; `IdleShrink` and `BusyShrink` are its two
callers. The timers (`evict_after_s`, `idle_s`, 15 s between attempts) only delay a
shrink and are left open: it may come at any safe point.

### GreedyDecode, SpecEngine, MtpSpec, DSpark, SpecDecode

A token is named by its request and its place in the greedy continuation; `Bad` is any
other token. A main model predicts the greedy token exactly when everything a position
depends on is that of the true prefix: for GLM5-Next the KDA state and the paged keys,
for DeepSeek-V4 the paged keys and the compressed blocks. So a state rolled back too
far, not far enough or to another request shows as a wrong token. A draft is right or
`Bad`, freely.

| Action | Code |
|---|---|
| `Prefill` | a prompt through `PrefillBranch` or the compressors; for DSpark also the `after_main` of a prefill: ring, first block, key |
| `PlainStep`, `DsPlainStep` | `try_step` not eligible (two rows, or sampling): the normal forward |
| `BootStep`, `DsBootStep` | `try_step` sets pending; the normal forward; `after_main` drafts and keys |
| `PopStep`, `DsPopStep` | `_pop` |
| `RoundStep` | `_round` of `glm5_next/spec.py`: chain, verify (captured on its first use, or eager), accept, cap, recommit or KL replay, next draft |
| `DsRoundStep` | `_round` of `deepseek_v4/spec.py`: verify, accept, carry fix, ring write, next block |
| `Depart` | the scheduler frees the row: at the budget, or before it (stop token, abort) with tokens cached or not |

`Allocated` is `allocate_paged` as the decoders see it: each step may or may not find a
comfortable pool, and `spec_alloc_len` only rises. A row keeps what its previous request
left in it. The verify graph is captured once on the dummy slot or fails for good; a
replay writes where its staged buffers say, not where the request is.

The compressors of `DsRoundStep` look up their block rows as `decode_step` does. In the
repository `spec_decode_chain` reads the unbound name `dctx` there and every round raises
(finding 5); what runs and theorems say of a DSpark round is said of the round with that
name bound.

`Promise == INSTANCE GreedyDecode WITH over <- ...` maps the requests: `seq` is the
abstract `seq`, and a request that left before its budget is over there as well. A
round of the decoders is one abstract `Emit` of one token; everything it leaves cached
is invisible until popped. `Implements` is the abstract specification with its liveness.

Left out: the MTP layer's own KV and the three DSpark stages (they steer drafts only);
prefix reuse under the decoders; batches of more than two rows.
`wants_eager` of the MTP decoder has no caller in this repository, so a bootstrap may
draft from an older hidden state: a matter of draft quality only.

### NaiveAttn, DsaTopk, NaivePool, NaiveServe

The kernels of `NaiveAttn` are operators from a row of slots to the list of slots a
query reads, tile by tile and split by split. `DsaTopk` is a state machine: a launch
after another, the programs of a launch in any order, each adding its tile to the shared
histogram, counts or selection. A score is a float's sign and magnitude, both zeros
included, so that the order-preserving key matters. `NaivePool` says what each slot's
key and value row, index key, scale and window row hold; a slot nobody holds counts as
blank, so reading it is wrong.

| Action | Code |
|---|---|
| `Arrive` | a request takes the longest cached prefix of its text that is `Usable`: all but its last prompt token at most, with window slots for what the tokens behind it will read |
| `FreeWindow` | between passes, the tokens of the row or of a cached text that lie behind every window to come give back their window slots (`trim_head_swa`, and the engine's release) |
| `Prefill` | a chunk: allocation with eviction, `naive_prep`, then the window layers' extend and the selecting layers' dense or sparse prefill |
| `DecodeStart` | one token: store, index scores over the live keys, `_tk_init` |
| `DecodeTopk` | one program of `_tk_hist`, `_tk_select`, `_tk_count`, `_tk_scan`, `_tk_write` |
| `DecodeAttend` | split decode of both kinds of layer, with the sink |
| `Finish` | the row goes to the prefix cache (`Merged`: where the cached copy has lost its window slot, the cache may take the request's slot instead), spare slots are freed |
| `Grow`, `Shrink` | `ElasticKV.grow` and the idle `shrink` with the Naive pool's map, move and unmap |

Abstractions: one stream (the decode path asserts one query row); one layer of each
kind; slots lowest first; the window pool is smaller than the full one, as its sizing gives
(`naive_pool.py:244-272`, `--swa-num-tokens`), and a store finds a window slot per token
or does not happen; the release behind the window and the tree that remembers it
are the engine's, so `FreeWindow` gives back all it may at any moment between passes
(the code keeps a gap besides), and a request commits when it ends; the row chunks by which a
prefill bounds its score buffer are row-wise and left out.

## 3. Runs

| Run | What it asks | Bounds |
|---|---|---|
| `cache_elastic` | the guarded soft cache with chunks retired and restored | 2 layers, 2 experts, 6 slots in 6 chunks, floor 5, two decode steps |
| `cache_lru` | the lru stamp mixed with the soft policy, stale guards after a reset | 2 layers, 2 experts, 4 slots, no elastic, `PfGuard` false, one reset |
| `pipeline_post` | guarded prefetch on its own stream, retire and borrow in between | 2 layers, 2 routes a layer, 4 slots, two decode steps |
| `pipeline_early` | early prefetch between an ensure and its GEMM, both plan buffers reused | 4 layers, 4 slots, one decode step |
| `pipeline_lru` | the comment that a prefetched slot cannot be the next victim | violated; 4 layers, 4 slots |
| `paged_spec` | sharing, duplicates, overlap, horizon always allocated, liveness | 4 requests, horizon 2, 20 pages |
| `paged_tight` | "must never re-allocate below it" at the comfort threshold | violated; 11 pages, threshold 5 |
| `elastic_funded` | grow, compact, shrink with chunks to fund each step | 4 requests, 3 steps of 2 pages, 6 chunks |
| `elastic_unfunded` | "Eviction did not free enough space." when chunks run out | violated; chunk floor 3 |
| `spec_alone` | both decoders refine greedy decoding when requests do not overlap | 2 requests, one row, 6 tokens each, drafts of 2, page 4, block ratio 2, ring 3 |
| `spec_joined` | "Fallbacks are free" when a second request joins | violated; GLM5-Next, two rows |
| `naive` | reads, top-k and slot ownership of the Naive path | 2 texts, rows of 4, prompts to 3, chunks of 2, top-k 2, window 2, 3 window slots for 5 full ones, 2 tiles, 2 binary digits, 2 steps of 2 tokens, one scoring |

`MaxStep` bounds the ensures of a behaviour (no decode step starts at that count),
`MaxResets` the resets, `MaxQuery`, `MaxNear`, `MaxPred` the sizes of one call. They are enough for the cases the
properties are about: a victim needs one call to be filled, one to be chosen, and one
to be read; a guard is at most one step ahead of the counter; a plan buffer is reused
after two layers. In the page runs the four requests include one that repeats
another's prompt, one that parts from it and one that shares nothing, so sharing and
duplicates occur; in the elastic runs the pool is smaller than what they need together,
so eviction does too.
Slots, pages and chunks are numbers whose order the code uses; only experts and texts
are symmetric, and the runs that check a temporal property use no symmetry.

`cache_elastic` keeps as many slots as two calls can claim (the code's floor is two
whole layers plus 512, `elastic.py:124`), so that retiring down to the floor is where
victims become scarce. In the runs without a stamp a priority has two touched values
(any order of a victim and its rival, ties included) between untouched and `KMax`. In
the two runs with the lru stamp the touched values lie above the last stamp, as in the
code, and the slots never filled below the first: `pipeline_lru` reaches its race with
no tie, when neither those nor an older stamp are left. In `pipeline_post` a layer has up
to two routes, so hits and misses meet in one GEMM. Deadlock is
checked in every run: between decode steps the elastic and borrow steps, and in the
page runs an empty turn, are always possible; when the decoders have served every
request a stutter is; the Naive stream may always take another request.

In `spec_alone` six tokens hold a prompt, a bootstrap, a full round, its pops and a
round cut by the budget; a draft of two gives every outcome of an acceptance (none, part,
all); a page of four positions and a ratio of two put page and block borders inside and
between rounds; a ring of three is shorter than a request. The second request starts in
the row, slot, key and ring the first one left, also when that one was cut short. In
`naive` a row outgrows the top-k, the window, a tile, the mapped steps and the window
slots; the scoring has a negative first, a tie of both zeros, and one above them.

### Fairness

`Spec` of `PagedAlloc`: weak fairness of the
whole turn, since `run_forever` never stops taking turns; no fairness between requests
is assumed, because a decode batch takes all running requests. `Spec` of `SpecDecode`:
weak fairness of `Decode`, of each `Prefill` and of each finish at the budget, which are
the turns of the same loop; a waiting request may wait until the row is free, and then
is admitted, since no later one can take the row for ever (there are finitely many). No
fairness for a stop or an abort. The other runs check safety only.

### Findings

1. `pipeline_lru`: `spec_prefetch.py:172-177` says a just-touched slot cannot be the
   victim within a step. With the soft policy and the guard flag off, the raw stamp of
   `lru_ensure` is below every soft key (`spec_prefetch.py:32-38`). Once the prefetch has
   taken the last slot that was never filled and no older stamp is left, its slot is the
   smallest key, whatever the size of the cache: the target's ensure of another expert
   evicts it while its copy is queued, and the GEMM reads the wrong bytes.
2. `paged_tight`: `core.patch:20-23` says `allocate_paged` must never re-allocate
   below `spec_alloc_len`. The clamp is inside `if horizon:`
   (`scheduler_cache.patch:165-167`), so when the free list falls to the threshold
   while verified tokens are left to pop, their positions get new, unwritten pages.
3. `elastic_unfunded`: `available_size` counts tokens that `grow()` may refuse to map;
   an admitted request then meets the assertion in `_allocate`.
4. `spec_joined`: `glm5_next/spec.py:25-28` says a fallback is free because stale
   speculative state is dropped by its key. A round has absorbed its verified tokens into
   the KDA state; when another request joins before they are popped, the normal decode
   absorbs them a second time, and the row's later tokens are not the greedy ones.
   `deepseek_v4/spec.py:26` makes the same claim, and `MCSpecDecode_joined.cfg` with
   `Archs = {"deepseek_v4"}` is violated as well: the prefill of the second request
   drops the cache, and a register that the verify rolled past the end of a block pools
   that block with itself when its last position is rolled again.

5. No run is needed to see this one: `deepseek_v4/spec.py:12-18` says that a round verifies a block and emits
   its accepted tokens. The verify has two rows at least, so its compressors go through
   `spec_decode_chain` (`models_deepseek_v4_compress.patch:27-87`), which reads `dctx`
   (line 79), neither a parameter nor a local of it. It raises in the capture, which is
   caught, and again in the eager verify that follows, which is not: as the patch stands
   the first DSpark round ends the engine.

Seen while modelling, and not stated by a run: the draft block of `dspark.py:144` slices
the rope table past its end near the longest sequence. An error of the driver in the
middle of a step's maps (`naive_pool.py:153`) leaves that step partly mapped.

Speculative decoding and the elastic pool are not checked together: the free list of a
small elastic pool crosses the threshold before every growth, which is finding 2 again.

## 4. Proofs

Eight proof modules hold 41 theorems and their lemmas, for every value of the constants that satisfies the
named assumptions of the modules: no bound of section 3 enters a proof. The
assumptions are sizes in the naturals (positive where the code divides or indexes by
them), finite sets of requests and experts, the order of the key values, Boolean
flags, prompts over the texts of the requests, and for the elastic pool the chunk and
step sizes.

| Theorem | States |
|---|---|
| **`ExpertCacheProofs`** | |
| `TypeCorrect`, `MapsInverse`, `RetiredStayPinned`, `RoutesStay` | `TypeOK`, `MapInverse`, `RetiredPinned`, `RoutesKept` |
| `InFlightStays` | with `PfGuard`: `InFlightKept` |
| `KeysArePriorities` | with `PfGuard \/ EarlyPf`: `KeyIsPriority` |
| `VictimsEnough` | with `Roomy`: `VictimsSuffice` |
| **`PrefetchPipelineProofs`** | |
| `PipeImplementsCache` | `PipeSpec => Spec` of `ExpertCache` |
| `PipeTypeCorrect`, `PlansIntact`, `IdleIsDrained` | `PipeTypeOK`, `PlanIntact`, `IdleDrained` |
| `OneWriterPerSlot`, `MappedIsBacked`, `GemmsReadRight` | with `PfGuard \/ EarlyPf`: `OneWriter`, `MappedBacked`, `GemmReadsRight` |
| **`PagedAllocProofs`** | |
| `PoolInvariant`, `PoolTypesKept`, `OwnKv`, `CachedKv`, `NothingLeaks` | under `[]Steady`: `PoolInv`, `PaTypeOK`, `RowsRight`, `TreeRight`, `PoolAccounted` |
| `PlainPoolRight` | with no horizon: the four properties, with no temporal hypothesis |
| `AdmissionKept` | with no horizon: the promise of admission, `NextBatchServed`, over a pool that does not grow |
| **`ElasticKVProofs`** | |
| `SizesKept`, `BudgetHeld`, `StackHeld` | `SizesInv /\ StackInv`, `MemoryBudgetKept`, `StackMatches` |
| `PagesKept`, `NothingUnmapped`, `ElasticKvRight`, `ShrinksWhenUnpinned` | under `[]Steady`: `PagesInv /\ LoopInv`, `ElasticAccounted`, `RowsRight /\ TreeRight`, `ShrinkFeasible` |
| `ElasticRight` | with no horizon: the same, with no temporal hypothesis |
| `AdmittedServed` | with no horizon and with `Funded`: `GrownServed` |
| **`SpecDecodeProofs`** | |
| `SpecTypesKept`, `BudgetHolds`, `WritesAreOwned`, `DraftsInPlace` | `SpecTypeOK`, `BudgetKept`, `WritesOwned`, `DraftInPlace` |
| **`GreedyProofs`** | |
| `GreedyOnly`, `PrefixesInStep` | with `OneRow`: `EmitsGreedy`, `PrefixInStep` |
| `ImplementsGreedy` | with `OneRow`: `Spec => Promise!Spec`, the safety part of `Implements` |
| **`NaiveServeProofs`** | |
| `WindowSlotsOwned`, `SelectionsExact`, `QueriesAttendVisible` | `SwaOwned`, `SelectionExact`, `AttendsVisible` |
| **`DsaTopkProofs`** | |
| `TopkKeeps` | every program of the top-k kernels keeps `TopkInv` |

A hypothesis is there because the code needs it for the property; runs show the
property failing without four of them: `pipeline_lru` has neither `PfGuard` nor `EarlyPf`, `paged_tight` is
not `Steady`, `spec_joined` is not `OneRow`, `elastic_unfunded` is not `Funded`.

### The arguments

**Cache.** None of the properties is inductive alone. `IInv` joins the types;
`AllMapped` (a server that is not elastic has every chunk mapped, so a reset, which
rewrites every key, loses no pin); `Clock` (the counter stays in the bounds of its pass, so a
stamp is never the key of an excluded slot); `RetiredPinned`; `MapInverse`; `Guarded` (the slots of
the routes carry the current stamp, which keeps a prefetch off them) and `RoutesKept`.
`InFlightKept` and `KeyIsPriority` are inductive relative to it. A victim map is
injective and avoids the slots the query holds, so storing the new ids and clearing the
old ones keeps the two tables inverse.

`VictimsEnough` counts. `CountInv` bounds how many slots carry each stamp: an ensure
stamps at most its query (a hit's slot and a miss's victim are one slot per id,
`TakenSize`), a guarded launch its prediction for the next value, and each reset rewinds
the counter under the old stamps, so a value may collect `PerCall` once per pass. `Roomy`
asks that the live slots (`min_slots` on an elastic server, else the cache) exceed what
this leaves excluded. Without resets, as on an elastic server, this is two calls and a
prediction: the code keeps two whole layers plus 512 slots (`elastic.py:124`). Both
cache runs satisfy it with equality.

**Pipeline.** Each action is an action of the cache or leaves it alone
(`PipeStepIs`), so `IInv` carries over. `QueueInv` says, for each phase of a layer,
which copies can still be queued, on which stream, for which layer and with what plan;
`RouteInv` ties the hits to the phases of the GEMM; two queued copies then never share a
slot (`Apart`), and the last copy queued for a slot is of the expert that the tables name
(`SlotsRight`), so a slot whose copies are through holds its expert's bytes.

**Pages.** `PoolInv` partitions the pages in circulation: free, named by the prefix
cache, or at exactly one claimed place of a live row (`Claims`: from its handle to the end
of what it was allocated). `TreeClosed` makes the cache prefix-closed, `Shared` ties a
row's locked prefix to the cache's own pages, and `VerifiedRight` says that the KV is in
place not only up to the computed length but up to the last token verified ahead of it:
without that a pop, which computes nothing, would not be inductive. `KeyBehind` keeps a
speculative key from becoming valid again. `Steady` (no horizon, or the free list above
the comfort threshold when a batch is scheduled) is what makes every allocation cover
the watermark; TLC finds it true throughout `paged_spec`, the elastic
runs have no horizon, and in `paged_tight` it fails, which is finding 2. Nothing in the
code rules the crossing out, so with a horizon it stays a hypothesis.

**Elastic pool.** `Paid` is a history, shown to exist, of the chunks that were mapped at
each number of steps; the stack is its differences, so a shrink returns to the same
number. `Grown` is a fold whose closed form is proved one step at a time. `LoopInv` says
that whoever took its last step is in the batch in flight and that nothing else is when
a turn begins, so that a shrink finds every page it moves named by a row or the cache. Compaction gives
the kept pages their ranks below the top step; ranks of a finite set are an injection
into an initial segment. `ShrinkFeasible` follows by counting: what cannot be evicted is
claimed or locked, locked entries are pages of live rows, and no live row refers to
the top step, so the pages below hold the rest.

**Admission.** That a batch finds its pages is not inductive: a prefill takes pages that
earlier admissions counted on. `Promised(T)` is: what the running requests may still
take (`Owed`), what the rows own (`Claims`) and what they lock in the prefix cache come
to at most `T` pages, all the pool may ever have. A decode step turns an owed page into
an owned one; a prefill adds its prompt, its match and its output, which is what it was
admitted by; committing a prefix turns owned pages into locked ones, fewer where others
lock them too. By the partition the free, the unlocked, the locked and the claimed pages
are the pages in circulation (`PagesShared`), so what is owed is free, may be evicted or
can be mapped; all that is unlocked may be evicted at once (`LockedClosed`). For a pool that
grows this needs that the next step can always be paid for. The chunks of a step depend
on when it was grown, for the last chunk may be partial, and not on the requests: `Costs`
bounds every step on the stack by `a` chunks for the first and `b` for a later one, and
`Funded` says that there are enough above the floor at that rate. It is then kept by
every growth (`AffordIs`) and every shrink, so `GrowthFor` stops only when its pages
suffice or everything is mapped. `Funded` is a condition on the sizes that the code does
not check when it starts (finding 3); the horizon must be off because the reserved size does not count it.

**Decoders, any number of rows.** `EngineInv` has the bookkeeping both share: the budget
(the key, with its tokens to pop, stays within it), the writes, `KeyBehind` (a stale
key never becomes valid again) and `NoneCached` (a request that samples has nothing to
pop). `RingRight` places each
valid entry of the ring at its position modulo the window and names its request, which
gives `DraftsInPlace`. No assumption is made on what a model predicts.

**Decoders, one row.** `SharedRight` says that tokens, cached tokens and paged keys are
those of the greedy continuation; `RecRight` that the KDA state has absorbed exactly the
verified prefix, and `CompRight` (in `DsRight`) that the registers are the closed form of
the rolled prefix (`Chain`: the running block, the half kept of the one before, empty where nothing was
rolled).
Absorbing in parts is absorbing at once, rolling a rejected draft past a position and
carrying back gives the register of that position; so each of the round's branches
ends in the same state as the plain forward, whatever was accepted. The refinement then
needs one `Emit` per decode step and a stutter elsewhere. `OneRow` (the row is one, as
when requests do not overlap) is needed: finding 4.

**Naive pool.** `OwnInv` says who holds each slot (`Owned`: the held and the free slots
partition the backed ones, the map gives a window slot only to held ones, no two share
one, and the window slots not given are the free ones), that rows do not meet except
where the request shares the prefix of its own text, at the same positions
(`RowsApart`), and `NeedsKept`: the tokens the request's next queries read in a window
layer still have their window slots, whatever else was given back. The last is what a
release may break, from the row or from a cached text the row shares its prefix with, and
what `Usable` must give to a request that arrives behind a trimmed prefix. Each step is
an instance of one of four lemmas about `Owned`: slots are taken with what is evicted
for them (`OwnedTake`), given back (`OwnedDrop`), give back their window slots only
(`OwnedFree`), or are moved out of the step to be unmapped (`OwnedMove`); that the move
fits is counted in `RoomBelow`. Nothing is assumed of the size of the window pool: a
store that finds too few free window slots is not a step.

**Top-k.** `TopkInv` says what each launch has established of the keys of the score row.
During the select, the digits found so far are a prefix such that the keys whose prefix
is larger, with `rem` of those that share it, make the selection (`TkCut`); the histogram
counts the digits of the keys of the finished tiles that share the prefix. The next digit
is the largest at or above which enough keys lie, which is what the kernel's count of such
digits gives (`SelectIs`), so after the last digit the prefix is a key: the threshold.
`cnt` and `off` are the counts of a tile and of the tiles before it, hence every key above
the threshold has a place of its own and so have the keys at it, after them; the places
below `TopK` are then each written once, by the tile that owns the key (`PlacesFilled`). A
short row is copied. No order of the tiles is used: each writes only what is its own.
`ServeInv` adds what the caller owes: scores that are floats on every column of the row,
and a row that fits the width and names no slot twice (from `OwnInv`). The weight of a
digit is the recursive function `Power`, because the provers have no facts about `^`; of
the slots nothing is assumed but that the empty entry and the sink are none of them, and
of the tokens that the sink and an erased entry are none of them.

**Naive attention.** `AttendsVisible` relates what a pass has read to the texts, so it
needs what is stored and what is read. `ContentInv`: the slot of each position of each
live row holds the token of that position in all four tables, keys and values, index key,
scale and, through the map, the window copy. A store writes its own slots and leaves the
others (`StoreHas`); a release and the erasure of a grown step touch none that is held
(`ReleaseHas`, `GrowHolds`); a compaction moves the four together and renames the row's
slot with them (`ShrinkHas`), which is where a forgotten table would show. `ScoresInv`
ties the score of each column to the position it was computed for while the top-k runs.
A kernel's reads are a list: `Lists(reads, S, n)` says that it names each member of `S`
once and nothing else. The decode kernel's list is flattened from its splits and the sink
(`DecodeReadsList`, over the closed form `FlatList` of the fold), the extend kernel's is
cut by tiles and the mask (`ExtendReadsList`), the sparse one is the padded selection
(`SparseList`). Each is then the image of the positions it should see: the window of the
query (`WindowRight`) and a best choice of the columns up to it (`BestRight`), which for
decode is what `SelectionExact` says of the top-k (`DoneSelects`), for a short context
the whole prefix (`DenseBest`), and for a prefill the choice of `torch.topk` (`ChoiceBest`).
A row names no slot twice (`OwnInv`), so each position is attended to once.

Induction over data is done without the library's schema: the set of counterexamples
has a least element (`NatLeast`, from the well-foundedness of `<`), and the recursive
functions of the modules (`Chain`, the folds of `grow`) get their equations by
building the function one argument further.

### Only model-checked

- The liveness of `PagedAlloc` and `SpecDecode` (the liveness part
  of `Implements` with them): fairness and `ENABLED` are outside the installed provers.
  Every invariant of a passing run is stated by a theorem.

## 5. Not modelled

- Duplicate ids in one prediction at batch sizes above one, hop 2, the miss-cap and
  hybrid decode paths of the split decode.
- Budgets, chunks and the multimodal gate of prefill admission; aborts and vision intake
  in the scheduler loop; the hybrid commit of the prefix cache, and the SWA commit of a prefix before
  its request ends.
- Ownership of linear-state slots (donate, clone, restore, free).
- Start-up: host banks and their pin thread, the residency plan, CPU layers, GPU choice,
  weight loading. These run once, before requests.
- Pure numerics: the other kernels, the vision tower, image and video sampling; request
  parsing and field plumbing of the servers.

The uncovered hazards in `PROJECT.json` each name the part of this list they belong to.

## 6. Plan

1. Done: `ExpertCache` and its proofs, `PrefetchPipeline`, `PagedAlloc`, `ElasticKV`,
   `GreedyDecode` with the two decoders that refine it, the Naive path.
2. Done: the theorems of section 4, for every safety property the passing runs check.
3. If the model grows again: predictions with duplicates in `ExpertCache`, the snapshot
   slots around `KdaState`, prefill budgets in front of `PagedAlloc`.
