----------------------------- MODULE PagedAlloc -----------------------------
(***************************************************************************)
(* The KV pages of the scheduler: CacheManager hands pages of a free list  *)
(* to the rows of the page table (allocate_paged, _allocate), evicts the   *)
(* prefix cache when the list runs short, and inserts a request's pages    *)
(* into the prefix cache (cache_req), under the overlap loop: a batch is   *)
(* launched before the results of the one before it are processed.         *)
(* Speculative decoding allocates a horizon ahead of the request, writes   *)
(* it in one verify forward and then pops tokens without any forward.      *)
(*                                                                         *)
(* Abstractions: pages of one token; the lowest free pages are handed out  *)
(* first; the prefix cache is the map from a cached token prefix to the    *)
(* page of its last token; a request's tokens are the constant Key, and it *)
(* ends at its output budget.  The radix tree, the request object and the  *)
(* loop itself belong to the engine these files patch.                     *)
(***************************************************************************)
EXTENDS Integers, Sequences, FiniteSets, Functions

CONSTANTS
  NumReqs,     (* requests                                                 *)
  NumPages,    (* pages of the KV pool, the dummy page excluded            *)
  InitialFree, (* the pages in circulation at startup                      *)
  Key,         (* request -> the tokens of its prompt and its output       *)
  InLen,       (* request -> prompt length                                 *)
  OutLen,      (* request -> output budget                                 *)
  Width,       (* columns of the page table: max_seq_len                   *)
  Horizon,     (* spec_horizon, and the drafts of a round                  *)
  Comfort,     (* free tokens above which a horizon is allocated (1024)    *)
  Torn         (* the KV of a position that no accepted token wrote        *)

Reqs      == 1 .. NumReqs
Pages     == 0 .. NumPages - 1
NoPage    == -1
Positions == 0 .. Width - 1
Tok(r, n) == SubSeq(Key[r], 1, n)
MaxDeviceLen(r) == InLen[r] + OutLen[r]

ASSUME RequestAssumption ==
  /\ NumReqs \in Nat
  /\ NumPages \in Nat
  /\ Width \in Nat
  /\ Horizon \in Nat
  /\ Comfort \in Nat
  /\ InitialFree \subseteq Pages
  /\ \A r \in Reqs : /\ InLen[r] \in Nat \ {0}
                     /\ OutLen[r] \in Nat \ {0}
                     /\ MaxDeviceLen(r) <= Width
                     /\ Key[r] \in Seq(UNION {Range(Key[q]) : q \in Reqs})
                     /\ Len(Key[r]) = MaxDeviceLen(r)

VARIABLES
  free,      (* free_slots                                                 *)
  tree,      (* prefix_cache: token prefix -> page                         *)
  row,       (* page_table                                                 *)
  kv,        (* page -> the token prefix whose last KV it holds            *)
  st,        (* where the request is                                       *)
  cached,    (* cached_len: positions whose KV is computed                 *)
  dev,       (* device_len                                                 *)
  alloc,     (* spec_alloc_len                                             *)
  handle,    (* cached_len of the request's locked prefix-cache handle     *)
  spec,      (* MtpSpec: uid, expect_dl and the tokens left to pop         *)
  ongoing,   (* the batch launched this turn                               *)
  last,      (* the batch whose results come next                          *)
  turn       (* the overlap loop                                           *)

poolVars == <<free, tree, row, kv, alloc>>
reqVars  == <<st, cached, dev, handle>>
loopVars == <<spec, ongoing, last, turn>>
vars     == <<poolVars, reqVars, loopVars>>

NoBatch == [kind |-> "none", reqs |-> {}]
NoSpec  == [uid |-> 0, expect |-> 0, left |-> 0]
Live    == {r \in Reqs : st[r] \in {"running", "last"}}
Running == {r \in Reqs : st[r] = "running"}
Min2(a, b) == IF a < b THEN a ELSE b
Max2(a, b) == IF a < b THEN b ELSE a

-----------------------------------------------------------------------------
(* The prefix cache.                                                       *)

MatchLen(r, n) == CHOOSE m \in 0 .. n :
  /\ \A i \in 1 .. m : Tok(r, i) \in DOMAIN tree
  /\ m < n => Tok(r, m + 1) \notin DOMAIN tree

\* Mutant: a match is not locked.
Locked_None(R, hd) == {}
(* Prefixes some request's handle locks: hd gives the handles.             *)
Locked(R, hd) == {k \in DOMAIN tree : \E r \in R : \E i \in 1 .. hd[r] : Tok(r, i) = k}

Extends(k, j) == Len(j) < Len(k) /\ SubSeq(k, 1, Len(j)) = j

(* evict(n): unlocked leaves go first, at least n pages of them.           *)
Evictions(n, locked) ==
  IF n <= 0 THEN {{}}
  ELSE {E \in SUBSET (DOMAIN tree \ locked) :
          /\ Cardinality(E) >= n
          /\ \A j \in E : \A k \in DOMAIN tree : Extends(k, j) => k \in E}

-----------------------------------------------------------------------------
(* allocate_paged for the requests B, whose cached_len and device_len are  *)
(* c and d, out of the free pages f.                                       *)

HorizonNow == IF Cardinality(free) > Comfort THEN Horizon ELSE 0
\* Mutant: the spec watermark does not clamp the first page.
FirstPage_NoClamp(r, c) == c
FirstPage(r, c) == IF HorizonNow > 0 THEN Max2(c, alloc[r]) ELSE c
LastPage(r, d) == IF HorizonNow > 0 THEN Max2(d, Min2(d + HorizonNow, Width)) ELSE d
Needed(B, c, d) == {x \in B \X Positions : FirstPage(x[1], c[x[1]]) <= x[2]
                                           /\ x[2] < LastPage(x[1], d[x[1]])}

Precedes(x, y) == x[1] < y[1] \/ (x[1] = y[1] /\ x[2] < y[2])
Granted(S, f) ==
  [x \in S |-> CHOOSE p \in f :
     Cardinality({q \in f : q < p}) = Cardinality({y \in S : Precedes(y, x)})]

AllocatePaged(B, c, d, f, rows, E) ==
  LET S    == Needed(B, c, d)
      pool == f \cup {tree[k] : k \in E}
      page == Granted(S, pool)
  IN /\ free' = pool \ Range(page)
     /\ tree' = [k \in DOMAIN tree \ E |-> tree[k]]
     /\ row' = [r \in Reqs |-> [j \in Positions |->
                  IF <<r, j>> \in S THEN page[<<r, j>>] ELSE rows[r][j]]]
     /\ alloc' = [r \in Reqs |->
                    IF r \in B /\ HorizonNow > 0 THEN Max2(alloc[r], LastPage(r, d[r]))
                    ELSE alloc[r]]

(* A forward writes the KV of the positions W of a request.                *)
Written(r, W, ok) ==
  [p \in Pages |->
     IF \E j \in W : row'[r][j] = p
     THEN LET j == CHOOSE i \in W : row'[r][i] = p IN IF ok[j] THEN Tok(r, j + 1) ELSE Torn
     ELSE kv[p]]

\* Mutant: a request takes one step past its budget.
CompleteOne_Late(B, d) ==
  /\ cached' = [r \in Reqs |-> IF r \in B THEN d[r] ELSE cached[r]]
  /\ dev' = [r \in Reqs |-> IF r \in B THEN d[r] + 1 ELSE dev[r]]
  /\ st' = [r \in Reqs |-> IF r \notin B THEN st[r]
                           ELSE IF d[r] < MaxDeviceLen(r) THEN "running" ELSE "last"]
(* complete_one for the batch.                                             *)
CompleteOne(B, d) ==
  /\ cached' = [r \in Reqs |-> IF r \in B THEN d[r] ELSE cached[r]]
  /\ dev' = [r \in Reqs |-> IF r \in B THEN d[r] + 1 ELSE dev[r]]
  /\ st' = [r \in Reqs |-> IF r \notin B THEN st[r]
                           ELSE IF d[r] + 1 < MaxDeviceLen(r) THEN "running" ELSE "last"]

Launch(kind, B) ==
  /\ ongoing' = [kind |-> kind, reqs |-> B]
  /\ turn' = "process"
  /\ UNCHANGED last

-----------------------------------------------------------------------------
Init ==
  /\ free = InitialFree
  /\ tree = [k \in {} |-> NoPage]
  /\ row = [r \in Reqs |-> [j \in Positions |-> NoPage]]
  /\ kv = [p \in Pages |-> Torn]
  /\ st = [r \in Reqs |-> "new"]
  /\ cached = [r \in Reqs |-> 0]
  /\ dev = [r \in Reqs |-> 0]
  /\ alloc = [r \in Reqs |-> 0]
  /\ handle = [r \in Reqs |-> 0]
  /\ spec = NoSpec
  /\ ongoing = NoBatch
  /\ last = NoBatch
  /\ turn = "schedule"

(* What an admission promises: the request fits with all it and the        *)
(* running requests may still take, once its match is locked.              *)
MatchedRow(r) ==
  [row EXCEPT ![r] = [j \in Positions |->
     IF j < MatchLen(r, InLen[r] - 1) THEN tree[Tok(r, j + 1)] ELSE row[r][j]]]
PrefillHandle(r) == [handle EXCEPT ![r] = MatchLen(r, InLen[r] - 1)]
PrefillNeed(r) == Needed({r}, PrefillHandle(r), [dev EXCEPT ![r] = InLen[r]])

Estimate(r) == InLen[r] - MatchLen(r, InLen[r] - 1) + OutLen[r]
Reserved == LET left(r) == MaxDeviceLen(r) - dev[r]
            IN Cardinality({x \in Running \X (1 .. Width) : x[2] <= left(x[1])})
Available(growable, locked) ==                                       \* available_size
  Cardinality(free) + Cardinality(DOMAIN tree \ locked) + growable

Admits(r, growable) ==
  Estimate(r) + Reserved <= Available(growable, Locked(Live \cup {r}, PrefillHandle(r)))

(* One request is admitted, matched, locked and prefilled.                 *)
Prefill(r, f, growable, E) ==
  LET c == PrefillHandle(r)
      d == [dev EXCEPT ![r] = InLen[r]]
  IN /\ turn = "schedule"
     /\ st[r] = "new"
     /\ Admits(r, growable)
     /\ E \in Evictions(Cardinality(PrefillNeed(r)) - Cardinality(f), Locked(Live \cup {r}, c))
     /\ AllocatePaged({r}, c, d, f, MatchedRow(r), E)
     /\ handle' = c
     /\ kv' = Written(r, c[r] .. (InLen[r] - 1), [j \in Positions |-> TRUE])
     /\ CompleteOne({r}, d)
     /\ Launch("prefill", {r})
     /\ UNCHANGED spec

(* A decode step of all running requests.  DecodeNeed is what it takes     *)
(* from the pool whatever the forward then does.                           *)
DecodeNeed == Needed(Running, cached, dev)
DecodeAlloc(f, E) ==
  /\ turn = "schedule"
  /\ Running # {}
  /\ E \in Evictions(Cardinality(DecodeNeed) - Cardinality(f), Locked(Live, handle))
  /\ AllocatePaged(Running, cached, dev, f, row, E)
  /\ CompleteOne(Running, dev)
  /\ Launch("decode", Running)
  /\ UNCHANGED handle

(* MtpSpec.try_step serves a batch of one whose state is keyed to it.      *)
Alone(r) == Running = {r} /\ Horizon > 0
Keyed(r) == spec.uid = r /\ spec.expect = dev[r]
CanPop(r) == Keyed(r) /\ spec.left > 0
CanRound(r) == /\ Keyed(r)
               /\ spec.left = 0
               /\ alloc'[r] >= dev[r] + Horizon
               /\ dev[r] + Horizon <= Width

(* No forward: the next accepted token, whose KV the verify wrote.         *)
DecodePop(f, E) == \E r \in Reqs :
  /\ Alone(r)
  /\ DecodeAlloc(f, E)
  /\ CanPop(r)
  /\ spec' = [spec EXCEPT !.left = @ - 1, !.expect = @ + 1]
  /\ UNCHANGED kv

(* One verify forward over the token and its drafts, m of them accepted.   *)
DecodeRound(f, E) == \E r \in Reqs : \E m \in 0 .. Horizon :
  /\ Alone(r)
  /\ DecodeAlloc(f, E)
  /\ CanRound(r)
  /\ m <= MaxDeviceLen(r) - dev[r] - 1
  /\ kv' = Written(r, (dev[r] - 1) .. (dev[r] + Horizon - 1),
                   [j \in Positions |-> j < dev[r] + m])
  /\ spec' = [uid |-> r, expect |-> dev[r] + 1, left |-> m]

(* The normal forward; alone, it also boots the draft of the next step.    *)
DecodePlain(f, E) ==
  /\ DecodeAlloc(f, E)
  /\ \A r \in Reqs : Alone(r) => ~CanPop(r) /\ ~CanRound(r)
  /\ kv' = [p \in Pages |->
              IF \E r \in Running : row'[r][dev[r] - 1] = p
              THEN LET r == CHOOSE q \in Running : row'[q][dev[q] - 1] = p
                   IN Tok(r, dev[r])
              ELSE kv[p]]
  /\ spec' = IF \E r \in Reqs : Alone(r)
             THEN LET r == CHOOSE q \in Reqs : Alone(q)
                  IN [uid |-> r, expect |-> dev[r] + 1, left |-> 0]
             ELSE spec

ScheduleNone ==
  /\ turn = "schedule"
  /\ Running = {}
  /\ Launch("none", {})
  /\ UNCHANGED <<poolVars, reqVars, spec>>

-----------------------------------------------------------------------------
(* Processing the results of the previous batch: cache_req.                *)

\* Mutant: a request ends while its last batch is in flight, or not at all.
Finished_InFlight(r) == st[r] = "last" /\ r \in ongoing.reqs
Finished(r) == st[r] = "last" /\ r \notin ongoing.reqs
ToCommit == {r \in last.reqs : last.kind = "prefill" \/ Finished(r)}

\* Mutant: the newest token is inserted before its KV is computed.
Inserted_Ahead(r) ==
  LET n == MatchLen(r, cached[r])
      new == {Tok(r, i) : i \in (n + 1) .. dev[r]}
  IN [k \in DOMAIN tree \cup new |-> IF k \in DOMAIN tree THEN tree[k] ELSE row[r][Len(k) - 1]]
(* The prefix the request inserts, of which the tree had n tokens.         *)
Inserted(r) ==
  LET n == MatchLen(r, cached[r])
      new == {Tok(r, i) : i \in (n + 1) .. cached[r]}
  IN [k \in DOMAIN tree \cup new |-> IF k \in DOMAIN tree THEN tree[k] ELSE row[r][Len(k) - 1]]
RowPages(r, a, b) == {row[r][j] : j \in a .. (b - 1)}

Duplicates(r) == RowPages(r, handle[r], MatchLen(r, cached[r]))
\* Mutant: the padded tail ends at cached_len.
PaddedTail_NoHorizon(r) == {}
PaddedTail(r) == RowPages(r, cached[r], Max2(cached[r], alloc[r]))

CommitUnfinished(r) ==
  /\ ~Finished(r)
  /\ tree' = Inserted(r)
  /\ free' = free \cup Duplicates(r)
  /\ row' = [row EXCEPT ![r] = [j \in Positions |->
               IF j < MatchLen(r, cached[r]) THEN tree[Tok(r, j + 1)] ELSE row[r][j]]]
  /\ handle' = [handle EXCEPT ![r] = cached[r]]
  /\ UNCHANGED st
CommitFinished(r) ==
  /\ Finished(r)
  /\ tree' = Inserted(r)
  /\ free' = free \cup Duplicates(r) \cup PaddedTail(r)
  /\ handle' = [handle EXCEPT ![r] = 0]
  /\ st' = [st EXCEPT ![r] = "done"]
  /\ UNCHANGED row
Process(r) ==
  /\ turn = "process"
  /\ r \in ToCommit
  /\ CommitUnfinished(r) \/ CommitFinished(r)
  /\ last' = [last EXCEPT !.reqs = @ \ {r}]
  /\ UNCHANGED <<kv, alloc, cached, dev, spec, ongoing, turn>>

EndTurn ==
  /\ turn = "process"
  /\ ToCommit = {}
  /\ last' = ongoing
  /\ ongoing' = NoBatch
  /\ turn' = "schedule"
  /\ UNCHANGED <<poolVars, reqVars, spec>>

-----------------------------------------------------------------------------
(* Nothing to grow: the pool is the free list.  (Where the assertion of    *)
(* _allocate would fail the process ends and no step is taken.)            *)
Schedule ==
  \/ \E r \in Reqs : \E E \in SUBSET DOMAIN tree : Prefill(r, free, 0, E)
  \/ \E E \in SUBSET DOMAIN tree :
       DecodePop(free, E) \/ DecodeRound(free, E) \/ DecodePlain(free, E)
  \/ ScheduleNone
ProcessStep == (\E r \in Reqs : Process(r)) \/ EndTurn

Next == Schedule \/ ProcessStep

(* The scheduler loop never stops taking turns.                            *)
Spec == Init /\ [][Next]_vars /\ WF_vars(Next)

-----------------------------------------------------------------------------
(* Properties.                                                             *)

Statuses == {"new", "running", "last", "done"}
PaTypeOK ==
  /\ free \subseteq Pages
  /\ row \in [Reqs -> [Positions -> Pages \cup {NoPage}]]
  /\ \A k \in DOMAIN tree : tree[k] \in Pages
  /\ st \in [Reqs -> Statuses]
  /\ \A r \in Reqs : /\ handle[r] <= cached[r]
                     /\ cached[r] <= dev[r]
                     /\ dev[r] <= MaxDeviceLen(r)
                     /\ alloc[r] <= Width

(* The KV a request attends is its own: every computed position's row      *)
(* entry names a page that holds exactly that position of that prefix,     *)
(* through sharing, eviction, duplicates reclaimed and tokens popped.      *)
RowsRight ==
  \A r \in Live : \A j \in 0 .. (cached[r] - 1) :
    row[r][j] \in Pages /\ kv[row[r][j]] = Tok(r, j + 1)

(* A cached prefix still holds the KV of the tokens it is cached for.      *)
TreeRight == \A k \in DOMAIN tree : tree[k] \in Pages /\ kv[tree[k]] = k

(* The pages a live request holds and the prefix cache does not.           *)
Owned(r) == RowPages(r, handle[r], Max2(cached[r], alloc[r]))

(* Every page in circulation is free, cached or owned by one request, and  *)
(* only one of these: nothing leaks and nothing is handed out twice (the   *)
(* integrity check adds up free and cached pages when the server idles).   *)
PagesAccounted(circulating) ==
  /\ free \cup Range(tree) \cup UNION {Owned(r) : r \in Live} = circulating
  /\ free \cap Range(tree) = {}
  /\ IsInjective(tree)
  /\ \A r \in Live : /\ Owned(r) \cap (free \cup Range(tree)) = {}
                     /\ Cardinality(Owned(r)) = Max2(cached[r], alloc[r]) - handle[r]
                     /\ \A q \in Live \ {r} : Owned(r) \cap Owned(q) = {}
PoolAccounted == PagesAccounted(InitialFree)

(* Admission keeps the promise it makes: the next batch, be it a decode    *)
(* step or the prefill of a request that is admitted, never meets the      *)
(* assertion "Eviction did not free enough space" of _allocate.  decode    *)
(* and prefill(r) are the free pages each finds.                           *)
Served(need, f, locked) == Evictions(Cardinality(need) - Cardinality(f), locked) # {}
NextBatchServed(growable, decode, prefill(_)) ==
  turn = "schedule" =>
    /\ Running # {} => Served(DecodeNeed, decode, Locked(Live, handle))
    /\ \A r \in Reqs : st[r] = "new" /\ Admits(r, growable) =>
         Served(PrefillNeed(r), prefill(r), Locked(Live \cup {r}, PrefillHandle(r)))

(* A request that was admitted ends.                                       *)
AdmittedEnds == \A r \in Reqs : st[r] = "running" ~> st[r] = "done"
=============================================================================
