----------------------------- MODULE SpecDecode -----------------------------
(* The engine with either speculative decoder: Engine picks Glm5MtpSpec or   *)
(* DsparkSpec by the model it serves, and forward_batch consults it before   *)
(* every decode step.  Both share SpecEngine's requests, pages and keys.     *)
EXTENDS MtpSpec, DSpark

CONSTANT Archs      \* the models served: "glm5_next", "deepseek_v4"

VARIABLE arch

vars == <<arch, engineVars, mtpVars, dsVars>>

Init == arch \in Archs /\ MtpInit /\ DsInit /\ (klMode => arch = "glm5_next")

Glm == arch = "glm5_next" /\ UNCHANGED <<arch, dsVars>>
Dsv == arch = "deepseek_v4" /\ UNCHANGED <<arch, mtpVars>>

Prefill(r) == (Glm /\ MtpPrefill(r)) \/ (Dsv /\ DsPrefill(r))
Decode == (Glm /\ MtpDecode) \/ (Dsv /\ DsDecode)
Depart(r) == (Glm /\ MtpDepart(r)) \/ (Dsv /\ DsDepart(r))

Next == \/ \E r \in Reqs : Prefill(r) \/ Depart(r)
        \/ Decode
        \/ AllOver /\ UNCHANGED vars

(* The scheduler's loop admits a waiting request when a row is free, decodes  *)
(* whenever a request is runnable, and finishes a request at its budget.      *)
Fairness == /\ WF_vars(Decode)
            /\ \A r \in Reqs : WF_vars(Prefill(r)) /\ WF_vars(Finish(r) /\ Depart(r))
Spec == Init /\ [][Next]_vars /\ Fairness

-----------------------------------------------------------------------------
SpecTypeOK ==
    /\ phase \in [Reqs -> {"waiting", "running", "over"}]
    /\ table \in [Reqs -> Slots \cup {None}]
    /\ sp.uid \in Reqs \cup {None} /\ Len(sp.cache) <= K /\ sp.pos \in 0..Len(sp.cache)
    /\ graph.state \in {"none", "captured", "failed"}
    /\ ring.valid \in 0..Win

(* What the recurrent layers, the compressors and the paged keys hold of a   *)
(* running request is its verified prefix.                                   *)
PrefixInStep == IF arch = "glm5_next" THEN StateInStep ELSE CarryInStep

(* The block a DSpark round will verify was drafted from its own request's   *)
(* hidden states, up to the last verified position and with none missing.    *)
DraftInPlace == arch = "deepseek_v4" => RingBehindDraft
=============================================================================
