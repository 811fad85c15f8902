---------------------------- MODULE KvAccounting -----------------------------
(***************************************************************************)
(* The block pool and the prefix cache under the most general use that the *)
(* scheduler and the workers make of them.  A sequence is admitted at most *)
(* once and released once; in between it may bind a prefix late, store     *)
(* prefixes of its prompt and adopt the entry of its prompt, in any order. *)
(* Every operation is atomic: in the serving process they run one after    *)
(* the other, in the worker's thread or on the loop that waits for it.     *)
(***************************************************************************)
EXTENDS SequenceKv

VARIABLES
    kv,      \* the pool and the cache, see PrefixCache
    held,    \* sequences that are admitted and not yet released
    done     \* sequences that are over

vars == <<kv, held, done>>

Init == /\ kv = InitKv
        /\ held = {}
        /\ done = {}

(* Scheduler._try_allocate that succeeds.                                  *)
Admit(s) ==
    /\ s \notin held \cup done
    /\ kv' \in Admitted(kv, s)
    /\ held' = held \cup {s}
    /\ UNCHANGED done

(* Scheduler._try_allocate that fails: the sequence keeps waiting.         *)
Refuse(s) ==
    /\ s \notin held \cup done
    /\ kv' \in Refused(kv, s)
    /\ UNCHANGED <<held, done>>

Bind(s) ==
    /\ s \in held
    /\ kv' \in LateBind(kv, s)
    /\ UNCHANGED <<held, done>>

(* One iteration of the loop of PrefixCache.insert.                        *)
Store(s) ==
    /\ s \in held
    /\ \E n \in CandidateLengths(s) : kv' \in Insert(kv, s, n)
    /\ UNCHANGED <<held, done>>

AdoptEntry(s) ==
    /\ s \in held
    /\ kv' \in Adopt(kv, s)
    /\ UNCHANGED <<held, done>>

(* worker._release, on finish, abort and error alike.  A sequence aborted  *)
(* in the waiting queue is released too, with nothing to give back.        *)
Retire(s) ==
    /\ s \notin done
    /\ kv' = ReleaseSeq(kv, s)
    /\ held' = held \ {s}
    /\ done' = done \cup {s}

Next == \E s \in Seqs :
    Admit(s) \/ Refuse(s) \/ Bind(s) \/ Store(s) \/ AdoptEntry(s) \/ Retire(s)

Spec == Init /\ [][Next]_vars

-----------------------------------------------------------------------------
(* Type correctness.                                                       *)
TypeOK == /\ kv \in KvType
          /\ held \subseteq Seqs
          /\ done \subseteq Seqs \ held

Pinned == {b \in Blocks : kv.pins[b] > 0}

(* When H are the admitted sequences, the holders of entry k, and those    *)
(* whose entry accounts for block b.                                       *)
HoldersOf(K, H, k) == {s \in H : K.key[s] = k}
SharersOf(K, H, b) == {s \in H : K.key[s] # NoKey /\ b \in K.blocks[K.key[s]]}

(* No block has two kinds of owner: it is free, or private to one          *)
(* sequence, or pinned by the prefix cache.  A block handed out twice, or  *)
(* freed while somebody counts on it, breaks this.                         *)
NoDoubleUse ==
    /\ \A s \in Seqs : kv.alloc[s] \cap kv.free = {}
    /\ \A s, t \in Seqs : s # t => kv.alloc[s] \cap kv.alloc[t] = {}
    /\ Pinned \cap kv.free = {}
    /\ \A s \in Seqs : kv.alloc[s] \cap Pinned = {}

(* No block leaks: one that is not free is private to an admitted sequence *)
(* or pinned, and the pins of a block are exactly the sequences that hold  *)
(* the entries listing it.  So a pool without admitted sequences is        *)
(* entirely free, whatever sequence of hits, adoptions, evictions and      *)
(* releases came before.                                                   *)
PinsExact == \A b \in Blocks : kv.pins[b] = Cardinality(SharersOf(kv, held, b))

NoLeak ==
    /\ \A b \in Blocks : b \in kv.free \/ b \in Pinned \/ \E s \in held : b \in kv.alloc[s]
    /\ held = {} => kv.free = Blocks

(* The reference count of an entry is the number of admitted sequences     *)
(* that hold it: an entry in use is never evicted (evict looks at refs     *)
(* alone), and an entry nobody holds can be.                               *)
RefsExact ==
    /\ \A k \in Keys : kv.refs[k] = Cardinality(HoldersOf(kv, held, k))
    /\ \A s \in held : kv.key[s] # NoKey => kv.key[s] \in kv.stored
    /\ Cardinality(kv.stored) <= MaxEntries

(* The inductive invariant behind the properties above.  Good(K, H) speaks *)
(* of any accounting K in which H are the admitted sequences, so that the  *)
(* operations an action is made of can be taken one at a time.             *)
Owners(K, H) ==
    /\ \A s \in Seqs : \A b \in K.alloc[s] :
          /\ s \in H
          /\ b \notin K.free /\ K.pins[b] = 0
          /\ \A t \in Seqs \ {s} : b \notin K.alloc[t]
    /\ \A b \in K.free : K.pins[b] = 0
    /\ \A b \in Blocks : K.pins[b] > 0 \/ b \in K.free \/ \E s \in Seqs : b \in K.alloc[s]

Counts(K, H) ==
    /\ \A b \in Blocks : K.pins[b] = Cardinality(SharersOf(K, H, b))
    /\ \A k \in Keys : K.refs[k] = Cardinality(HoldersOf(K, H, k))

Entries(K, H) ==
    /\ \A s \in H : K.key[s] # NoKey => K.key[s] \in K.stored
    /\ \A k \in Keys : K.refs[k] = 0 => K.blocks[k] = {}
    /\ IsFiniteSet(K.stored) /\ Cardinality(K.stored) <= MaxEntries

Good(K, H) == /\ K \in KvType
              /\ H \subseteq Seqs
              /\ Owners(K, H)
              /\ Counts(K, H)
              /\ Entries(K, H)

(* Every step keeps the accounting good, and a sequence that has not been  *)
(* admitted holds no entry.                                                *)
Inv == /\ Good(kv, held)
       /\ done \subseteq Seqs \ held
       /\ \A s \in Seqs : s \notin held \cup done => kv.key[s] = NoKey

(* What the pool and the cache implement: see BlockLedger.                 *)
Claims == [b \in Blocks |-> {s \in held : b \in kv.alloc[s]} \cup SharersOf(kv, held, b)]

Ledger == INSTANCE BlockLedger WITH free <- kv.free, claims <- Claims, shared <- Pinned

LedgerSpec == Ledger!Spec
=============================================================================
