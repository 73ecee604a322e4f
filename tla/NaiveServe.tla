----------------------------- MODULE NaiveServe -----------------------------
(* One stream of Naive-N0.5 requests over the elastic pool: chunked prefill, *)
(* decode with the top-k kernels as separate steps, the prefix cache kept    *)
(* per text, growth under a live request and compaction when idle.  A layer  *)
(* of each kind stands for all of its kind.  A token is <<text, position>>.  *)
EXTENDS DsaTopk, NaivePool

CONSTANTS Texts,     \* what requests ask for
          MaxPrompt, \* longest prompt
          MaxChunk,  \* prompt tokens of a prefill pass
          Scorings   \* position -> index score, for one forward pass

ASSUME ServeAssumption ==
    /\ MaxPrompt \in 1..Width /\ MaxChunk \in Nat \ {0}
    /\ {NoSlot, Sink} \cap (FullSlots \cup SwaSlots) = {}
    /\ {Blank, Sink} \cap (Texts \X (0..(Width - 1))) = {}
    /\ Scorings \subseteq [0..(Width - 1) -> Floats]

VARIABLES req,            \* [phase, text, prompt, matched, row]: the request served
          cache,          \* text -> row kept by the prefix cache
          free, swaFree,  \* unallocated full and window slots
          pass,           \* [scoring, scores] of the decode pass under way
          seen            \* what the pass just finished read, per query
vars == <<poolVars, tk, req, cache, free, swaFree, pass, seen>>

Tokens == Texts \X (0..(Width - 1))
(* dec_scores is written whole by every pass, so none keeps the last one *)
NoPass == [scoring |-> <<>>, scores |-> <<>>]
NoReq == [phase |-> "none", text |-> Sink, prompt |-> 0, matched |-> 0, row |-> <<>>]
Idle == req.phase = "none"
Held(T) == UNION {Range(cache[t]) : t \in T}
LiveSlots == Held(Texts) \cup Range(req.row)

Init ==
    /\ PoolStart /\ tk = TkRest
    /\ req = NoReq
    /\ cache = [t \in Texts |-> <<>>]
    /\ free = InitialFree
    /\ swaFree = SwaSlots \ {0}
    /\ pass = NoPass
    /\ seen = <<>>

-----------------------------------------------------------------------------
(* slots: lowest first, evicting texts; what the request matched is locked *)
Lowest(S, n) == SubSeq(Ascending(S), 1, n)
Locked(t) == IF t = req.text THEN req.matched ELSE 0
Freed(T) == UNION {Range(SubSeq(cache[t], Locked(t) + 1, Len(cache[t]))) : t \in T}
Evictable == {t \in Texts : Len(cache[t]) > Locked(t)}
Victims(short) ==
    {T \in SUBSET Evictable :
        IF short <= 0 THEN T = {}
        ELSE /\ Cardinality(Freed(T)) >= short
             /\ \E t \in T : Cardinality(Freed(T \ {t})) < short}
Remaining(T) == [t \in Texts |-> IF t \in T THEN SubSeq(cache[t], 1, Locked(t)) ELSE cache[t]]
(* released full slots give back their window slots and lose the entry *)
Released(map, S) == [s \in FullSlots |-> IF s \in S THEN 0 ELSE map[s]]
SwaOf(S) == {swaMap[s] : s \in S} \ {0}

(* n slots for the live request once T is evicted, window slots behind them *)
Allocated(n, T) ==
    LET open == free \cup Freed(T)
        swaOpen == swaFree \cup SwaOf(Freed(T))
        slots == Lowest(open, n)
        swaNew == Lowest(swaOpen, n)
    IN [slots |-> slots, map |-> Put(Released(swaMap, Freed(T)), slots, swaNew),
        free |-> open \ Range(slots), swaFree |-> swaOpen \ Range(swaNew)]

(* store the next n tokens of the request; row is its page-table row after it *)
Extend(n, T, phase, a) ==
    LET prefix == Len(req.row)
        toks == [i \in 1..n |-> <<req.text, prefix + i - 1>>]
    IN /\ T \in Victims(n - Cardinality(free))
       /\ n <= Cardinality(swaFree \cup SwaOf(Freed(T)))
       /\ Store(a.slots, toks, a.map, LiveSlots \ Freed(T))
       /\ req' = [req EXCEPT !.row = @ \o a.slots, !.phase = phase]
       /\ free' = a.free /\ swaFree' = a.swaFree /\ cache' = Remaining(T)

-----------------------------------------------------------------------------
(* what a list of slots yields *)
At(table, reads) == [i \in DOMAIN reads |-> IF reads[i] = Sink THEN Sink ELSE table[reads[i]]]
(* the index score of a key; a blank one scores anything, here the most *)
Score(f, key) == IF key = Blank THEN [neg |-> FALSE, mag |-> Half - 1] ELSE f[key[2]]
RowScores(f, row, index, scale) == [j \in DOMAIN row |-> Score(f, IndexKey(index, scale, row[j]))]
Unscored == [neg |-> TRUE, mag |-> Half]

(* the slots whose window copies the request may still read: those of the    *)
(* last window of its row, one less while its next query is not yet stored   *)
Near(n, w) == {i \in 1..n : i > n - w}
Needs == {req.row[i] : i \in Near(Len(req.row), IF req.phase = "topk" THEN Window ELSE Window - 1)}
(* between passes, tokens that no query to come reads give back their window *)
(* slots: those behind the window of the row, or of a text in the cache      *)
FreeWindow(S) ==
    LET gone == {s \in S \ Needs : swaMap[s] # 0}
        map == Released(swaMap, gone)
    IN /\ req.phase # "topk" /\ gone # {}
       /\ swaMap' = map /\ swa' = OfHeldSwa(map)
       /\ swaFree' = swaFree \cup SwaOf(gone)
       /\ seen' = <<>>
       /\ UNCHANGED <<kv, idx, scl, mapped, tk, req, cache, free, pass>>

(* the prefixes a request may take: all but the last token of its prompt at   *)
(* most, with window slots for what the tokens behind it will read            *)
Usable(t, n) == {m \in 0..Smaller(Len(cache[t]), n - 1) :
                    \A i \in Near(m, Window - 1) : swaMap[cache[t][i]] # 0}
(* a request arrives and takes the cached prefix of its text *)
Arrive(t, n, m) ==
    /\ Idle
    /\ m \in Usable(t, n) /\ \A k \in Usable(t, n) : k <= m
    /\ req' = [phase |-> "prefill", text |-> t, prompt |-> n, matched |-> m,
               row |-> SubSeq(cache[t], 1, m)]
    /\ seen' = <<>>
    /\ UNCHANGED <<poolVars, tk, cache, free, swaFree, pass>>

(* _dsa_prefill: dense while the keys fit the top-k, else selected per query *)
PrefillReads(row, prefix, n, tok, S) ==
    IF Len(row) <= TopK THEN ExtendReads(row, prefix, n, tok, 0)
    ELSE SparseReads(Selection(row, S))
Prefill(T, f) ==
    LET prefix == Len(req.row)
        n == Smaller(MaxChunk, req.prompt - prefix)
        a == Allocated(n, T)
        row == req.row \o a.slots
        last == Len(row) = req.prompt
    IN /\ req.phase = "prefill"
       /\ Extend(n, T, IF last THEN "decode" ELSE "prefill", a)
       /\ LET keys == RowScores(f, row, idx', scl')
              Picks(tok) == TopChoices(keys, prefix + tok, Smaller(TopK, Len(row)))
          IN \E pick \in [0..(n - 1) -> UNION {Picks(tok) : tok \in 0..(n - 1)}] :
                /\ \A tok \in 0..(n - 1) : pick[tok] \in Picks(tok)
                /\ seen' = [q \in 1..n |->
                     [pos |-> prefix + q - 1, scoring |-> f,
                      swa |-> At(swa', ExtendReads(Translated(a.map, row), prefix, n, q - 1, Window)),
                      dsa |-> At(kv', PrefillReads(row, prefix, n, q - 1, pick[q - 1]))]]
       /\ UNCHANGED <<mapped, tk, pass>>

(* a decode pass: store the token, score every live key, start the top-k *)
DecodeStart(T, f) ==
    LET a == Allocated(1, T)
        row == req.row \o a.slots
    IN /\ req.phase = "decode" /\ Len(req.row) < Width
       /\ Extend(1, T, "topk", a)
       /\ LET live == RowScores(f, row, idx', scl')
          IN pass' = [scoring |-> f,
                      scores |-> [j \in 1..Width |-> IF j <= Len(row) THEN live[j] ELSE Unscored]]
       /\ tk' = TkStarted(Len(row))
       /\ seen' = <<>>
       /\ UNCHANGED mapped

DecodeTopk ==
    /\ req.phase = "topk"
    /\ TkStep(pass.scores, req.row)
    /\ UNCHANGED <<poolVars, req, cache, free, swaFree, pass, seen>>

(* both kinds of layer attend *)
DecodeAttend ==
    LET pos == Len(req.row) - 1
        window == WindowList(Translated(swaMap, req.row), pos)
    IN /\ req.phase = "topk" /\ tk.stage = "done"
       /\ seen' = << [pos |-> pos, scoring |-> pass.scoring,
                      swa |-> At(swa, DecodeReads(window, BlockN \div 2)),
                      dsa |-> At(kv, DecodeReads(tk.sel, BlockN))] >>
       /\ req' = [req EXCEPT !.phase = "decode"]
       /\ tk' = TkRest
       /\ pass' = NoPass
       /\ UNCHANGED <<poolVars, cache, free, swaFree>>

(* the cache keeps the slots it has, but takes the request's at J *)
Merged(old, new, J) ==
    [i \in 1..Larger(Len(old), Len(new)) |-> IF i \in DOMAIN old \ J THEN old[i] ELSE new[i]]
(* the row goes to the prefix cache; slots of tokens it already has are freed *)
Finish(J) ==
    LET old == cache[req.text]
        new == req.row
        merged == Merged(old, new, J)
        spare == (Range(old) \cup Range(new)) \ Range(merged)
    IN /\ req.phase = "decode"
       /\ J \subseteq {i \in DOMAIN old \cap DOMAIN new : swaMap[old[i]] = 0 /\ swaMap[new[i]] # 0}
       /\ req' = NoReq
       /\ cache' = [cache EXCEPT ![req.text] = merged]
       /\ free' = free \cup spare
       /\ swaFree' = swaFree \cup SwaOf(spare)
       /\ Release(Released(swaMap, spare), LiveSlots \ spare)
       /\ seen' = <<>>
       /\ UNCHANGED <<mapped, tk, pass>>

(* grow: the live request needs more than what is free and evictable *)
Wanted == IF req.phase = "prefill" THEN Smaller(MaxChunk, req.prompt - Len(req.row)) ELSE 1
Grow ==
    /\ \/ req.phase = "prefill"
       \/ req.phase = "decode" /\ Len(req.row) < Width
    /\ Wanted > Cardinality(free) + Cardinality(Freed(Evictable))
    /\ MapStep
    /\ free' = free \cup StepSlots(mapped)
    /\ seen' = <<>>
    /\ UNCHANGED <<tk, req, cache, swaFree, pass>>

(* shrink: move what the cache keeps in the top step below it, then unmap it; *)
(* texts are evicted first when it does not fit                              *)
Shrink(T) ==
    LET top == StepSlots(mapped - 1)
        short == Cardinality(Held(Texts) \cap top) - Cardinality(free \ top)
        kept == Remaining(T)
        olds == Ascending((Held(Texts) \ Held(T)) \cap top)
        low == (free \cup Held(T)) \ top
        news == Lowest(low, Len(olds))
        NewSlot(s) == IF s \in top THEN news[CHOOSE i \in DOMAIN olds : olds[i] = s] ELSE s
    IN /\ Idle /\ mapped > 1
       /\ T \in Victims(short)
       /\ UnmapStep(olds, news, Released(swaMap, Held(T)), ((Held(Texts) \ Held(T)) \ top) \cup Range(news))
       /\ cache' = [t \in Texts |-> [i \in DOMAIN kept[t] |-> NewSlot(kept[t][i])]]
       /\ free' = low \ Range(news)
       /\ swaFree' = swaFree \cup SwaOf(Held(T))
       /\ seen' = <<>>
       /\ UNCHANGED <<tk, req, pass>>

Next ==
    \/ \E t \in Texts, n \in 1..MaxPrompt : \E m \in 0..(n - 1) : Arrive(t, n, m)
    \/ \E T \in SUBSET Texts, f \in Scorings :
        Prefill(T, f) \/ DecodeStart(T, f)
    \/ DecodeTopk \/ DecodeAttend \/ Grow
    \/ \E J \in SUBSET (1..Width) : Finish(J)
    \/ FreeWindow(Range(req.row)) \/ \E t \in Texts : FreeWindow(Range(cache[t]))
    \/ \E T \in SUBSET Texts : Shrink(T)

Spec == Init /\ [][Next]_vars

-----------------------------------------------------------------------------
(* Every query of the pass just finished read each key it may see and no     *)
(* other, once, with the sink once: a window layer the last Window positions, *)
(* a selecting layer TopK of the positions so far (all, while they are       *)
(* fewer) with no higher-scoring one left out.  What the slots held were the *)
(* request's own tokens, through prefix reuse, eviction and compaction.      *)
OnceEach(reads, S) == Len(reads) = Cardinality(S) /\ Range(reads) = S
AttendsVisible ==
    \A i \in DOMAIN seen :
        LET q == seen[i]
            visible == {req.text} \X (0..q.pos)
            window == {tok \in visible : tok[2] > q.pos - Window}
            taken == Range(q.dsa) \ {Sink}
        IN /\ OnceEach(q.swa, window \cup {Sink})
           /\ OnceEach(q.dsa, taken \cup {Sink})
           /\ taken \subseteq visible
           /\ Cardinality(taken) = Smaller(TopK, q.pos + 1)
           /\ \A in \in taken, out \in visible \ taken :
                  AtLeastFloat(q.scoring[in[2]], q.scoring[out[2]])

(* The selection a decode's kernels build is the exact top-k of its scores,  *)
(* in whatever order the programs of a launch run.                           *)
SelectionExact == req.phase = "topk" => TopkExact(pass.scores, req.row)

(* A held slot is backed and free nowhere, and what the queries to come of   *)
(* the request read in the window layers has a window slot.  No two slots    *)
(* share one, one nobody holds has none, and none is lost or free twice over. *)
SwaOwned ==
    LET given == {s \in FullSlots : swaMap[s] # 0}
    IN /\ Needs \subseteq given /\ given \subseteq LiveSlots
       /\ \A r, s \in given : swaMap[r] = swaMap[s] => r = s
       /\ SwaOf(given) \cup swaFree = SwaSlots \ {0}
       /\ SwaOf(given) \cap swaFree = {}
       /\ LiveSlots \cup free = (UNION {StepSlots(s) : s \in 0..(mapped - 1)})
                                \cup (InitialFree \ StepSlots(0))
       /\ LiveSlots \cap free = {}
=============================================================================
