------------------------------ MODULE NaivePool ------------------------------
(* The KV pool of Naive-N0.5 (NaiveKVCache): what each slot holds.  A full   *)
(* slot has a K/V row, an index key and the key's scale; a window slot has a *)
(* K/V row and is reached through the full-to-window map, entry 0 standing   *)
(* for none, as for a token out of every window.  K/V and index keys live in *)
(* reserved address ranges of which only mapped steps are backed; scale, map *)
(* and window rows always are.  Every layer and every slab of a step is      *)
(* mapped alike: one stands for all.                                         *)
EXTENDS Integers, Sequences, FiniteSets, SequencesExt

CONSTANTS StepLen, TailLen, StepsMax, \* elastic geometry, in tokens
          SwaTokens,            \* window slots, slot 0 included
          Blank                 \* no token: zeros, unwritten or unbacked bytes

ASSUME PoolAssumption == \A c \in {StepLen, TailLen, StepsMax, SwaTokens} : c \in Nat \ {0}

VARIABLES kv, idx, scl,  \* full slot -> token
          swa,           \* window slot -> token
          swaMap,        \* full slot -> window slot
          mapped         \* steps with memory behind them, in order
poolVars == <<kv, idx, scl, swa, swaMap, mapped>>

TotalTokens == StepsMax * StepLen + TailLen
FullSlots == 0..(TotalTokens - 1)
DummySlot == TotalTokens - 1
SwaSlots == 0..(SwaTokens - 1)
StepSlots(s) == (s * StepLen)..((s + 1) * StepLen - 1)
(* allocatable at startup: step 0 and the tail without the dummy slot *)
InitialFree == StepSlots(0) \cup ((StepsMax * StepLen)..(DummySlot - 1))

PoolStart ==
    /\ kv = [s \in FullSlots |-> Blank]
    /\ idx = [s \in FullSlots |-> Blank]
    /\ scl = [s \in FullSlots |-> Blank]
    /\ swa = [s \in SwaSlots |-> Blank]
    /\ swaMap = [s \in FullSlots |-> 0]
    /\ mapped = 1

(* store_kv and store_index of one token per slot of a row, through a map    *)
Put(table, slots, toks) ==
    [s \in DOMAIN table |->
        IF \E i \in DOMAIN slots : slots[i] = s
        THEN toks[CHOOSE i \in DOMAIN slots : slots[i] = s] ELSE table[s]]
Translated(map, slots) == [i \in DOMAIN slots |-> map[slots[i]]]
(* what a slot nobody holds contains is wrong to read, so it counts as blank *)
OfHeld(table, held) == [s \in FullSlots |-> IF s \in held THEN table[s] ELSE Blank]
OfHeldSwa(map) == [w \in SwaSlots |-> IF \E s \in FullSlots : map[s] = w THEN swa[w] ELSE Blank]
Store(slots, toks, map, held) ==
    /\ kv' = Put(OfHeld(kv, held), slots, toks)
    /\ idx' = Put(OfHeld(idx, held), slots, toks)
    /\ scl' = Put(OfHeld(scl, held), slots, toks)
    /\ swa' = Put(OfHeldSwa(map), Translated(map, slots), toks)
    /\ swaMap' = map
Release(map, held) ==
    /\ kv' = OfHeld(kv, held) /\ idx' = OfHeld(idx, held) /\ scl' = OfHeld(scl, held)
    /\ swa' = OfHeldSwa(map)
    /\ swaMap' = map

(* what a kernel finds behind a slot; a key counts only with its own scale *)
IndexKey(index, scale, s) == IF index[s] = scale[s] THEN index[s] ELSE Blank

(* a step's rows lose what they held when it is unmapped; a new one is zeroed *)
Erased(table, s) == [x \in FullSlots |-> IF x \in StepSlots(s) THEN Blank ELSE table[x]]
MapStep ==
    /\ mapped < StepsMax
    /\ mapped' = mapped + 1
    /\ kv' = Erased(kv, mapped)
    /\ idx' = Erased(idx, mapped)
    /\ UNCHANGED <<scl, swa, swaMap>>

(* elastic_move_tokens, then elastic_unmap_step of the top step *)
Moved(table, old, new) == Put(table, new, Translated(table, old))
\* Mutant: the scale stays behind.
MovedScale_Kept(old, new) == scl
MovedScale(old, new) == Moved(scl, old, new)
\* Mutant: the old entries stay.
MovedMap_Kept(map, old, new) == Moved(map, old, new)
MovedMap(map, old, new) ==
    Put(Moved(map, old, new), old, [i \in DOMAIN old |-> 0])
UnmapStep(old, new, map, held) ==
    LET after == MovedMap(map, old, new)
    IN /\ mapped' = mapped - 1
       /\ kv' = OfHeld(Erased(Moved(kv, old, new), mapped - 1), held)
       /\ idx' = OfHeld(Erased(Moved(idx, old, new), mapped - 1), held)
       /\ scl' = OfHeld(MovedScale(old, new), held)
       /\ swaMap' = after
       /\ swa' = OfHeldSwa(after)
=============================================================================
