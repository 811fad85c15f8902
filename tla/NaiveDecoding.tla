---------------------------- MODULE NaiveDecoding -----------------------------
(***************************************************************************)
(* What generation promises: flux/engine/naive_engine.py, which reads the  *)
(* whole text again for every token and keeps nothing in between.  Every   *)
(* request is a text of its own that grows by a likely token at a time     *)
(* until a stop token or max_tokens, or until it is aborted.               *)
(***************************************************************************)
EXTENDS Sampler

CONSTANTS
    Seqs, PromptOf, MaxTokensOf,
    SamplingOf,      \* the sampling parameters of each request, see Sampler
    StopTokens,      \* stop_token_ids of the tokenizer
    Prob(_, _)       \* for a request, the next token's distribution after a text

VARIABLES
    output,      \* output_ids of each request
    outcome      \* "none" while it generates, then its finish_reason or "abort"

vars == <<output, outcome>>

Init == /\ output = [s \in Seqs |-> << >>]
        /\ outcome = [s \in Seqs |-> "none"]

(* The smallest sets of most probable tokens with more than topP of the    *)
(* mass: a token is in one of them when the tokens that are more probable  *)
(* have no more than topP together.                                        *)
Nucleus(w, topP) ==
    {t \in DOMAIN w : w[t] > 0 /\ Mass(w, {u \in DOMAIN w : w[u] > w[t]}) <= topP}

Likely(w, p) ==
    IF p.greedy THEN {t \in DOMAIN w : \A u \in DOMAIN w : w[u] <= w[t]}
                ELSE Nucleus(w, p.topP)

Reason(s, ids) ==
    IF Last(ids) \in StopIds(SamplingOf[s], StopTokens) THEN "stop"
    ELSE IF Len(ids) >= MaxTokensOf[s] THEN "length" ELSE "none"

(* An iteration of generate_ids; the serving loop may abort the request    *)
(* right after it.                                                         *)
Generate(s) ==
    /\ outcome[s] = "none"
    /\ \E t \in Likely(Prob(s, PromptOf[s] \o output[s]), SamplingOf[s]) :
          /\ output' = [output EXCEPT ![s] = Append(@, t)]
          /\ \E o \in {Reason(s, output'[s]), "abort"} :
                outcome' = [outcome EXCEPT ![s] = o]

Abort(s) ==
    /\ outcome[s] = "none"
    /\ outcome' = [outcome EXCEPT ![s] = "abort"]
    /\ UNCHANGED output

Next == \E s \in Seqs : Generate(s) \/ Abort(s)

Spec == Init /\ [][Next]_vars
=============================================================================
