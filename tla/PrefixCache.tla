----------------------------- MODULE PrefixCache -----------------------------
(***************************************************************************)
(* flux/engine/prefix_cache.py: reuse of the KV of identical leading       *)
(* tokens.  A stored entry accounts for pool blocks only while some live   *)
(* sequence holds a reference to it; several holders pin the same blocks.  *)
(*                                                                         *)
(* The state "kv" extends the pool's record: it is all the accounting the  *)
(* scheduler and the worker change together.                               *)
(*    free, alloc   the BlockPool                                          *)
(*    stored        the keys of _entries                                   *)
(*    blocks, refs  block_ids and refs of each entry                       *)
(*    pins          _block_pins, 0 for a block the dict does not have      *)
(*    older         <<j, k>>: entry j was last used before entry k         *)
(*    key           prefix_key of each sequence                            *)
(* Left out: the tensors, and the hit and miss counters.                   *)
(***************************************************************************)
EXTENDS BlockPool, Sequences, SequencesExt

CONSTANTS
    Tokens,
    PromptOf,        \* the prompt token ids of each sequence
    MaxTokensOf,     \* sampling.max_tokens of each sequence
    MinTokens,       \* min_tokens: no shorter prefix is stored or looked up
    MaxEntries,      \* max_entries
    EnableCache      \* FLUX_ENABLE_PREFIX_CACHE

ASSUME PromptAssumption  == PromptOf \in [Seqs -> Seq(Tokens)]
ASSUME LengthAssumption  == MaxTokensOf \in [Seqs -> Nat \ {0}]
ASSUME MinAssumption     == MinTokens \in Nat \ {0}
ASSUME EntriesAssumption == MaxEntries \in Nat \ {0}
ASSUME CacheAssumption   == EnableCache \in BOOLEAN

NoKey == << >>

PrefixOf(s, n) == SubSeq(PromptOf[s], 1, n)

Keys == UNION {{PrefixOf(s, n) : n \in MinTokens .. Len(PromptOf[s])} : s \in Seqs}

(* Mutant: the tokens still to be generated are forgotten.                 *)
PromptTokensOnly(s) == Len(PromptOf[s])

(* Sequence.reservation_tokens: the worst case length.                     *)
ReservationTokens(s) == Len(PromptOf[s]) + MaxTokensOf[s]

InitKv == [free   |-> Blocks,
           alloc  |-> [s \in Seqs |-> {}],
           stored |-> {},
           blocks |-> [k \in Keys |-> {}],
           refs   |-> [k \in Keys |-> 0],
           pins   |-> [b \in Blocks |-> 0],
           older  |-> {},
           key    |-> [s \in Seqs |-> NoKey]]

KvType == [free   : SUBSET Blocks,
           alloc  : [Seqs -> SUBSET Blocks],
           stored : SUBSET Keys,
           blocks : [Keys -> SUBSET Blocks],
           refs   : [Keys -> Nat],
           pins   : [Blocks -> Nat],
           older  : SUBSET (Keys \X Keys),
           key    : [Seqs -> Keys \cup {NoKey}]]

-----------------------------------------------------------------------------
(* candidate_lengths: the whole prompt and every block-aligned prefix, no  *)
(* shorter than MinTokens.                                                 *)
CandidateLengths(s) ==
    {n \in MinTokens .. Len(PromptOf[s]) :
        n = Len(PromptOf[s]) \/ n % BlockSize = 0}

(* peek: the longest stored prefix of the prompt, as a set that is empty   *)
(* on a miss.                                                              *)
Hits(kv, s) ==
    LET matches == {k \in kv.stored : IsPrefix(k, PromptOf[s])}
    IN  {k \in matches : \A j \in matches : Len(j) <= Len(k)}

(* _pin and _unpin: an unpinned block goes back to the pool with its last  *)
(* pin.                                                                    *)
Pin(kv, ids) ==
    [kv EXCEPT !.pins = [b \in Blocks |-> IF b \in ids THEN @[b] + 1 ELSE @[b]]]

(* Mutant: the blocks are freed whoever else has pinned them.              *)
UnpinForAll(kv, ids) ==
    Release([kv EXCEPT !.pins = [b \in Blocks |-> IF b \in ids THEN 0 ELSE @[b]]], ids)

Unpin(kv, ids) ==
    LET freed == {b \in ids : kv.pins[b] <= 1}
    IN  Release([kv EXCEPT !.pins =
                   [b \in Blocks |-> IF b \in freed THEN 0
                                     ELSE IF b \in ids THEN @[b] - 1 ELSE @[b]]],
                freed)

(* Mutant: the reference is counted and the blocks are not pinned.         *)
AddRefUnpinned(kv, k, ids) == [kv EXCEPT !.refs[k] = @ + 1, !.blocks[k] = ids]

(* A reference to entry k that accounts for the blocks ids.                *)
AddRef(kv, k, ids) ==
    [Pin(kv, ids) EXCEPT !.refs[k] = @ + 1, !.blocks[k] = ids]

(* _share_from_live: another referenced entry, with blocks, that extends   *)
(* k.  The code takes the first one in dict order; here any of them.       *)
Donors(kv, k) ==
    {d \in kv.stored : kv.refs[d] > 0 /\ kv.blocks[d] # {} /\ IsPrefix(k, d)}

Shares(kv, k) ==
    UNION {kSubset(AtMost(BlocksNeeded(Len(k)), Cardinality(kv.blocks[d])),
                   kv.blocks[d]) : d \in Donors(kv, k)}

(* _acquire_blocks.  The last case is a reference that holds no blocks:    *)
(* the pool could not reserve them, and the hit is granted all the same.   *)
Acquire(kv, k) ==
    IF kv.refs[k] > 0
    THEN {AddRef(kv, k, kv.blocks[k])}
    ELSE IF Donors(kv, k) # {}
    THEN {AddRef(kv, k, ids) : ids \in Shares(kv, k)}
    ELSE IF Reservations(kv, Len(k)) # {}
    THEN {AddRef(Reserve(kv, ids), k, ids) : ids \in Reservations(kv, Len(k))}
    ELSE {AddRef(kv, k, {})}

(* last_used = time.time(): k is now the most recently used entry.         *)
Touch(kv, k) ==
    [kv EXCEPT !.older = {p \in @ : p[1] # k /\ p[2] # k}
                           \cup {<<j, k>> : j \in kv.stored \ {k}}]

(* lookup of a hit on k, for sequence s to hold (_apply_hit).              *)
Lookup(kv, s, k) ==
    {[Touch(kv2, k) EXCEPT !.key[s] = k] : kv2 \in Acquire(kv, k)}

(* Mutant: the entry still lists its blocks after its last reference.      *)
ReleaseKeyKeepingList(kv, k) ==
    IF k \in kv.stored /\ kv.refs[k] > 0
    THEN [Unpin(kv, kv.blocks[k]) EXCEPT !.refs[k] = @ - 1]
    ELSE kv

(* release(prefix_key): the last reference gives the blocks up.            *)
ReleaseKey(kv, k) ==
    IF k \in kv.stored /\ kv.refs[k] > 0
    THEN [Unpin(kv, kv.blocks[k]) EXCEPT
            !.refs[k]   = @ - 1,
            !.blocks[k] = IF kv.refs[k] = 1 THEN {} ELSE @]
    ELSE kv

-----------------------------------------------------------------------------
(* _evict: the least recently used entry nobody references.  The code      *)
(* loops while the cache is full; insert adds one entry at a time, so one  *)
(* eviction always ends the loop.                                          *)
Unused(kv) == {k \in kv.stored : kv.refs[k] = 0}

Victims(kv) == {v \in Unused(kv) : \A u \in Unused(kv) : <<u, v>> \notin kv.older}

Full(kv) == Cardinality(kv.stored) >= MaxEntries

DropEntry(kv, v) ==
    [Unpin(kv, kv.blocks[v]) EXCEPT
        !.stored = @ \ {v}, !.blocks[v] = {},
        !.older  = {p \in @ : p[1] # v /\ p[2] # v}]

AddEntry(kv, k) == Touch([kv EXCEPT !.stored = @ \cup {k}], k)

(* insert, for one candidate length n of sequence s's prompt.              *)
Insert(kv, s, n) ==
    LET k == PrefixOf(s, n)
    IN  IF ~EnableCache \/ k \in kv.stored
        THEN {kv}
        ELSE IF ~Full(kv)
        THEN {AddEntry(kv, k)}
        ELSE IF Unused(kv) = {}
        THEN {kv}
        ELSE {AddEntry(DropEntry(kv, v), k) : v \in Victims(kv)}

(* adopt: after a miss, the entry of the sequence's own prompt takes over  *)
(* the first of its blocks, and the sequence becomes its holder.           *)
Adopt(kv, s) ==
    LET k == PromptOf[s]
    IN  IF kv.key[s] # NoKey \/ k \notin kv.stored
        THEN {kv}
        ELSE IF kv.refs[k] > 0
        THEN {[kv2 EXCEPT !.key[s] = k] : kv2 \in Acquire(kv, k)}
        ELSE {[Touch(AddRef(Detach(kv, s, ids), k, ids), k) EXCEPT !.key[s] = k]
                : ids \in Detachable(kv, s, BlocksNeeded(Len(k)))}
=============================================================================
