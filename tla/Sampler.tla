------------------------------- MODULE Sampler -------------------------------
(***************************************************************************)
(* flux/engine/sampler.py and the stop ids of flux/engine/tokenizer.py:    *)
(* which tokens a request may be given next.                               *)
(*                                                                         *)
(* A distribution w maps every token to its probability at the temperature *)
(* of the request, in whole units: the logits behind it and the draw of    *)
(* torch.multinomial are left out.  The sampling parameters p of a request *)
(* have the fields greedy (temperature <= 0), topP (in the same units),    *)
(* stop and ignoreEos.                                                     *)
(***************************************************************************)
EXTENDS Integers, SequencesExt, FiniteSetsExt

Mass(w, S) == MapThenSumSet(LAMBDA t : w[t], S)

(* torch.sort, descending; equal probabilities in either order.            *)
Rankings(w) ==
    {r \in SetToSeqs(DOMAIN w) : \A i, j \in DOMAIN r : i < j => w[r[i]] >= w[r[j]]}

(* The cumulative sum exceeds top_p at place i of the ranking r.           *)
Exceeds(w, r, i, topP) == Mass(w, {r[j] : j \in 1 .. i}) > topP

(* Mutant: the mask is not shifted.                                        *)
KeptUnshifted(w, r, topP) == {r[i] : i \in {j \in DOMAIN r : ~Exceeds(w, r, j, topP)}}

(* _nucleus_mask_row: the mask is shifted by one place, so the token that  *)
(* crosses the threshold is kept, and the first one always.                *)
Kept(w, r, topP) ==
    {r[i] : i \in {j \in DOMAIN r : j = 1 \/ ~Exceeds(w, r, j - 1, topP)}}

(* sample_logits.  multinomial never draws what has no probability.        *)
SampleLogits(w, p) ==
    LET possible == {t \in DOMAIN w : w[t] > 0}
    IN  IF p.greedy
        THEN {t \in DOMAIN w : \A u \in DOMAIN w : w[u] <= w[t]}
        ELSE IF 0 < p.topP /\ p.topP < Mass(w, DOMAIN w)
        THEN possible \cap UNION {Kept(w, r, p.topP) : r \in Rankings(w)}
        ELSE possible

(* combined_stop_ids, when eos are the stop tokens of the tokenizer.       *)
StopIds(p, eos) == p.stop \cup IF p.ignoreEos THEN {} ELSE eos
=============================================================================
