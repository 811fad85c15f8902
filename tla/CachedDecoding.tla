---------------------------- MODULE CachedDecoding ----------------------------
(***************************************************************************)
(* flux/engine/cached_engine.py as the workers and the routes drive it:    *)
(* what is in the KV caches.  A prompt is prefilled alone, from nothing or *)
(* from a stored prefix, and then decoded alone or in a batch whose        *)
(* members come and go.  The prefix cache of PrefixCache gets contents.    *)
(*                                                                         *)
(* The order of admissions, prefills and decode steps is left open, except *)
(* that one call of the engine runs at a time and that a batch waits for   *)
(* the prefills of those admitted before it.  Refused admissions are those *)
(* of KvAccounting, errors those of the workers.                           *)
(***************************************************************************)
EXTENDS SequenceKv, KvTensors, Sampler

CONSTANTS
    SamplingOf, StopTokens, Prob(_, _),      \* see NaiveDecoding
    MaxBatch

(* The texts a request may come to have.                                   *)
Texts(s) ==
    UNION {[1 .. n -> Tokens] : n \in 1 .. Len(PromptOf[s]) + MaxTokensOf[s]}

(* encode refuses an empty prompt, and the schemas a top_p that is not     *)
(* positive; a model gives every token a probability after every text.     *)
ASSUME TextAssumption == \A s \in Seqs : PromptOf[s] # << >>
ASSUME SamplingAssumption == \A s \in Seqs : SamplingOf[s].topP \in Nat \ {0}
ASSUME TokensAssumption == IsFiniteSet(Tokens)
ASSUME ProbAssumption ==
    \A s \in Seqs : \A text \in Texts(s) : Prob(s, text) \in [Tokens -> Nat]

VARIABLES
    engine,      \* serve_engine: who drives the engine
    kv,          \* the pool and the prefix cache, see PrefixCache
    content,     \* kv_cache and last_logits of each entry
    held,        \* sequences that are admitted and not released
    bound,       \* prefix_kv and prefix_logits of each sequence
    cache,       \* Sequence.kv_cache
    output,      \* Sequence.output_ids
    outcome,     \* "none", finish_reason at the end, or "abort"
    pc,          \* "idle", or inside a call: "store" or "rows"
    cands,       \* candidate lengths PrefixCache.insert has not reached yet
    todo,        \* the sequences of the call whose token is still to be drawn
    fresh        \* the caches and logits the engine returned for them

vars == <<engine, kv, content, held, bound, cache, output, outcome, pc, cands, todo, fresh>>

(* A cache with the logits after it; no logits are those after no text.    *)
NoLogits == << >>
Tensors(cells, logits) == [cells |-> cells, logits |-> logits]
NoTensors == Tensors(<< >>, NoLogits)

Init ==
    /\ engine \in {"cached", "queued", "continuous"}
    /\ kv = InitKv
    /\ content = [k \in Keys |-> NoTensors]
    /\ held = {}
    /\ bound = [s \in Seqs |-> NoTensors]
    /\ cache = [s \in Seqs |-> << >>]
    /\ output = [s \in Seqs |-> << >>]
    /\ outcome = [s \in Seqs |-> "none"]
    /\ pc = "idle" /\ cands = {} /\ todo = {}
    /\ fresh = [s \in Seqs |-> NoTensors]

-----------------------------------------------------------------------------
(* CachedEngine.                                                           *)
Returned(cells) == Tensors(cells, Last(cells))

Prefill(prompt) == Returned(Forward(<< >>, 0, prompt))

PrefillFromPrefix(suffix, prefix) == Returned(Forward(prefix, Len(prefix), suffix))

Decode(token, cells) == Returned(Forward(cells, Len(cells), <<token>>))

DecodeBatch(tokens, caches) ==
    LET stacked == StackCaches(caches)
        Row(s)  == Append(stacked[s],
                          NewCell(stacked[s], Attended(Len(caches[s]), MaxPast(caches)),
                                  Len(caches[s]), tokens[s]))
    IN  [s \in DOMAIN caches |-> Tensors(ExtractRow(Row(s), Len(caches[s])), Last(Row(s)))]

-----------------------------------------------------------------------------
(* Admission and prefill.                                                  *)

(* peek and lookup: the entry's cache, and its logits if it is the whole   *)
(* prompt.                                                                 *)
HitOn(k, s) ==
    Tensors(content[k].cells, IF Len(k) = Len(PromptOf[s]) THEN content[k].logits ELSE NoLogits)

BindTo(k, s) ==
    bound' = IF k = NoKey THEN bound ELSE [bound EXCEPT ![s] = HitOn(k, s)]

Room == (IF engine = "queued" THEN 1 ELSE MaxBatch) - Cardinality(held)

(* Scheduler._try_allocate that succeeds.                                  *)
Admit(s) ==
    /\ pc = "idle" /\ engine # "cached" /\ Room > 0
    /\ s \notin held /\ outcome[s] = "none"
    /\ kv' \in Admitted(kv, s)
    /\ BindTo(kv'.key[s], s)
    /\ held' = held \cup {s}
    /\ UNCHANGED <<engine, content, cache, output, outcome, pc, cands, todo, fresh>>

(* Mutant: a prefix that is the whole prompt is taken for an exact hit     *)
(* when it has no logits, too.                                             *)
PrefilledTrusting(s, b) ==
    IF Len(b.cells) >= Len(PromptOf[s])
    THEN Tensors(SliceCache(b.cells, Len(b.cells)), b.logits)
    ELSE IF b.cells = << >> THEN Prefill(PromptOf[s])
    ELSE PrefillFromPrefix(SubSeq(PromptOf[s], Len(b.cells) + 1, Len(PromptOf[s])), b.cells)

(* _prefill_with_reuse, with the prefix b the sequence is bound to: an     *)
(* exact hit, the suffix of a prefix, or the whole prompt.                 *)
Prefilled(s, b) ==
    LET prefix == SliceCache(b.cells, Len(b.cells))
        suffix == SubSeq(PromptOf[s], Len(prefix) + 1, Len(PromptOf[s]))
    IN  IF b.logits # NoLogits /\ Len(prefix) >= Len(PromptOf[s])
        THEN Tensors(prefix, b.logits)
        ELSE IF prefix # << >> /\ suffix # << >>
        THEN PrefillFromPrefix(suffix, prefix)
        ELSE Prefill(PromptOf[s])

Waiting == {s \in held : cache[s] = << >>}

(* The late hit, if there is one, and the forward pass.                    *)
PrefillOne(s) ==
    /\ pc = "idle" /\ engine # "cached"
    /\ s \in Waiting
    /\ kv' \in LateBind(kv, s)
    /\ BindTo(IF kv.key[s] = NoKey THEN kv'.key[s] ELSE NoKey, s)
    /\ fresh' = [fresh EXCEPT ![s] = Prefilled(s, bound'[s])]
    /\ todo' = {s} /\ cands' = CandidateLengths(s)
    /\ pc' = "store"
    /\ UNCHANGED <<engine, content, held, cache, output, outcome>>

(* The entry insert makes of the first n tokens.                           *)
StoredTensors(s, n) ==
    Tensors(SliceCache(fresh[s].cells, n),
            IF n = Len(PromptOf[s]) THEN fresh[s].logits ELSE NoLogits)

(* insert, from the longest candidate down: an entry that is there stays.  *)
StoreNext(s) ==
    /\ pc = "store" /\ s \in todo
    /\ \E n \in cands :
          /\ \A m \in cands : m <= n
          /\ cands' = cands \ {n}
          /\ kv' \in Insert(kv, s, n)
          /\ content' = [k \in Keys |->
                IF k \notin kv'.stored THEN NoTensors
                ELSE IF k \notin kv.stored THEN StoredTensors(s, n)
                ELSE content[k]]
    /\ UNCHANGED <<engine, held, bound, cache, output, outcome, pc, todo, fresh>>

AdoptEntry(s) ==
    /\ pc = "store" /\ s \in todo /\ cands = {}
    /\ kv' \in Adopt(kv, s)
    /\ pc' = "rows"
    /\ UNCHANGED <<engine, content, held, bound, cache, output, outcome, cands, todo, fresh>>

-----------------------------------------------------------------------------
(* Tokens.                                                                 *)

(* Logits of no text might be anything, and so the token.                  *)
Draws(s) ==
    IF fresh[s].logits = Nothing THEN Tokens
    ELSE SampleLogits(Prob(s, fresh[s].logits), SamplingOf[s])

(* _note_token.                                                            *)
Reason(s, ids) ==
    IF Last(ids) \in StopIds(SamplingOf[s], StopTokens) THEN "stop"
    ELSE IF Len(ids) >= MaxTokensOf[s] THEN "length" ELSE "none"

Leave(s) ==
    /\ kv' = ReleaseSeq(kv, s)
    /\ held' = held \ {s}
    /\ bound' = [bound EXCEPT ![s] = NoTensors]
    /\ cache' = [cache EXCEPT ![s] = << >>]

CallDone(s) ==
    /\ todo' = todo \ {s}
    /\ fresh' = [fresh EXCEPT ![s] = NoTensors]
    /\ pc' = IF todo' = {} THEN "idle" ELSE pc

(* A row of the result: the token and, unless it was the last, the cache.  *)
(* The workers look for an abort after the first token only.               *)
TakeToken(s) ==
    /\ pc = "rows" /\ s \in todo
    /\ \E t \in Draws(s) : output' = [output EXCEPT ![s] = Append(@, t)]
    /\ \E o \in {Reason(s, output'[s])}
                  \cup IF engine # "cached" /\ output[s] = << >> THEN {"abort"} ELSE {} :
          /\ outcome' = [outcome EXCEPT ![s] = o]
          /\ IF o = "none"
             THEN cache' = [cache EXCEPT ![s] = fresh[s].cells] /\ UNCHANGED <<kv, held, bound>>
             ELSE Leave(s)
    /\ CallDone(s)
    /\ UNCHANGED <<engine, content, cands>>

(* _decode_one_step of the continuous worker.                              *)
Decoding == held \ Waiting

DecodeAll ==
    /\ pc = "idle" /\ engine = "continuous"
    /\ Waiting = {} /\ Decoding # {}
    /\ LET rows == DecodeBatch([s \in Decoding |-> Last(output[s])],
                               [s \in Decoding |-> cache[s]])
       IN  fresh' = [s \in Seqs |-> IF s \in Decoding THEN rows[s] ELSE NoTensors]
    /\ todo' = Decoding
    /\ pc' = "rows"
    /\ UNCHANGED <<engine, kv, content, held, bound, cache, output, outcome, cands>>

(* The loops of the queued worker and of CachedEngine.generate_ids.        *)
DecodeAlone(s) ==
    /\ pc = "idle" /\ engine # "continuous"
    /\ s \in Decoding
    /\ fresh' = [fresh EXCEPT ![s] = Decode(Last(output[s]), cache[s])]
    /\ todo' = {s}
    /\ pc' = "rows"
    /\ UNCHANGED <<engine, kv, content, held, bound, cache, output, outcome, cands>>

(* CachedEngine.generate_ids up to the first token, one at a time under    *)
(* the lock of the routes; it has no scheduler and no prefix cache.        *)
GenerateIds(s) ==
    /\ pc = "idle" /\ engine = "cached"
    /\ held = {} /\ outcome[s] = "none"
    /\ held' = {s} /\ todo' = {s}
    /\ fresh' = [fresh EXCEPT ![s] = Prefill(PromptOf[s])]
    /\ pc' = "rows"
    /\ UNCHANGED <<engine, kv, content, bound, cache, output, outcome, cands>>

(* Mutant: the row of the aborted sequence is still to be taken.           *)
AbortOneKeepingRow(s) ==
    /\ engine # "cached" /\ s \in held
    /\ s \in todo => engine = "continuous" /\ output[s] # << >>
    /\ pc # "store"
    /\ outcome' = [outcome EXCEPT ![s] = "abort"]
    /\ Leave(s)
    /\ UNCHANGED <<engine, content, output, cands, todo, fresh, pc>>

(* _abort_one of an admitted sequence, between two calls or, in the        *)
(* continuous worker, when its row is reached.                             *)
AbortOne(s) ==
    /\ engine # "cached" /\ s \in held
    /\ s \in todo => engine = "continuous" /\ output[s] # << >>
    /\ pc # "store"
    /\ outcome' = [outcome EXCEPT ![s] = "abort"]
    /\ Leave(s)
    /\ IF s \in todo THEN CallDone(s) ELSE UNCHANGED <<todo, fresh, pc>>
    /\ UNCHANGED <<engine, content, output, cands>>

Next ==
    \/ DecodeAll
    \/ \E s \in Seqs :
          \/ Admit(s) \/ PrefillOne(s) \/ StoreNext(s) \/ AdoptEntry(s)
          \/ TakeToken(s) \/ DecodeAlone(s) \/ GenerateIds(s) \/ AbortOne(s)

Spec == Init /\ [][Next]_vars

-----------------------------------------------------------------------------
(* Type correctness.                                                       *)
TensorType == [cells : Seq(Seq(Tokens)), logits : Seq(Tokens)]

TypeOK ==
    /\ engine \in {"cached", "queued", "continuous"}
    /\ kv \in KvType
    /\ content \in [Keys -> TensorType]
    /\ held \subseteq Seqs /\ todo \subseteq held
    /\ bound \in [Seqs -> TensorType]
    /\ cache \in [Seqs -> Seq(Seq(Tokens))]
    /\ output \in [Seqs -> Seq(Tokens)]
    /\ outcome \in [Seqs -> {"none", "stop", "length", "abort"}]
    /\ pc \in {"idle", "store", "rows"}
    /\ cands \subseteq Nat
    /\ fresh \in [Seqs -> TensorType]

(* Whatever prefix it was built on and whichever batches it went through,  *)
(* next to shorter and longer ones, the cache of a sequence holds its own  *)
(* prompt and output, without the last token, and nothing else.  An entry  *)
(* of the prefix cache encodes its key, also one that was cut out of a     *)
(* longer prompt's cache, and its logits are those after the key.          *)
CacheHoldsText ==
    /\ \A s \in Decoding : cache[s] = CellsOf(PromptOf[s] \o Front(output[s]))
    /\ \A k \in kv.stored : /\ content[k].cells = CellsOf(k)
                            /\ content[k].logits \in {NoLogits, k}

(* With reuse, padding and batching every request gets tokens that the     *)
(* engine without any of these could have given it, for the same reasons   *)
(* to stop: see NaiveDecoding.                                             *)
Naive == INSTANCE NaiveDecoding

NaiveSpec == Naive!Spec

(* And it could be any of those tokens: where a token is about to be drawn *)
(* the candidates are exactly the likely tokens after the sequence's own   *)
(* text.  A nucleus that is too small, or empty, breaks this.              *)
DrawsTheLikely ==
    pc = "rows" => \A s \in todo :
        Draws(s) = Naive!Likely(Prob(s, PromptOf[s] \o output[s]), SamplingOf[s])
=============================================================================
