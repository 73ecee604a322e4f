---------------------------- MODULE GreedyDecode ----------------------------
(* What speculative decoding promises its users: every request receives the *)
(* tokens greedy decoding would give it, in order, and in the end all of    *)
(* them.  A token is named by its request and its place, so that the greedy *)
(* continuation of a prefix is the token of the next place: Tok(r, i).      *)
(* One engine step serves a batch, one token per request of it.             *)
EXTENDS Naturals, Sequences

CONSTANTS Reqs,        \* the requests
          PromptLen,   \* tokens of a prompt
          MaxLen       \* max_device_len: prompt and output budget together

VARIABLES seq,         \* per request: prompt and tokens emitted so far
          over         \* requests that were aborted or met a stop token

Tok(r, i) == <<r, i>>
Truth(r, n) == [i \in 1..n |-> Tok(r, i)]

Init == seq = [r \in Reqs |-> Truth(r, PromptLen)] /\ over = {}

Open(r) == r \notin over /\ Len(seq[r]) < MaxLen

Emit(S) ==
    /\ \A r \in S : Open(r)
    /\ seq' = [r \in Reqs |-> IF r \in S THEN Append(seq[r], Tok(r, Len(seq[r]) + 1))
                                        ELSE seq[r]]
    /\ UNCHANGED over

Cancel(r) == Open(r) /\ over' = over \cup {r} /\ UNCHANGED seq

Next == \/ \E S \in SUBSET Reqs : S # {} /\ Emit(S)
        \/ \E r \in Reqs : Cancel(r)

Spec == Init /\ [][Next]_<<seq, over>>

(* and it promises them in finite time *)
Served == \A r \in Reqs : <>(~ Open(r))
LiveSpec == Spec /\ Served
=============================================================================
