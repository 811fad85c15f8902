------------------------- MODULE KvAccountingProofs --------------------------
(***************************************************************************)
(* Proofs about KvAccounting: its type invariant and its safety properties *)
(* follow from the inductive invariant Inv, for any number of blocks,      *)
(* sequences, prompts and cache entries.                                   *)
(*                                                                         *)
(* An action is a composition of operators of BlockPool, PrefixCache and   *)
(* SequenceKv.  Each elementary change (a reference taken or given back,   *)
(* blocks allocated or freed, an entry added or dropped) has a lemma that  *)
(* it keeps Good; the lemmas say what the change does to the fields of the *)
(* accounting, and the operators are shown to do just that.                *)
(***************************************************************************)
EXTENDS KvAccounting, FiniteSetTheorems, TLAPS

(* The empty key is no entry: entries have at least MinTokens tokens.      *)
LEMMA NoKeyIsNoEntry == NoKey \notin Keys
<1>1. ASSUME NEW s \in Seqs, NEW n \in MinTokens .. Len(PromptOf[s]),
             PrefixOf(s, n) = NoKey
      PROVE  FALSE
  <2>1. PromptOf[s] \in Seq(Tokens) /\ n \in Nat /\ n >= 1 /\ n <= Len(PromptOf[s])
    BY <1>1, PromptAssumption, MinAssumption
  <2>2. Len(SubSeq(PromptOf[s], 1, n)) = n
    BY <2>1
  <2> QED BY <1>1, <2>1, <2>2 DEF PrefixOf, NoKey
<1> QED BY <1>1 DEF Keys

(* The parts of an accounting have the types KvType gives them.            *)
LEMMA FieldTypes ==
    ASSUME NEW K \in KvType
    PROVE  /\ K.free \subseteq Blocks
           /\ K.alloc \in [Seqs -> SUBSET Blocks]
           /\ K.stored \subseteq Keys
           /\ K.blocks \in [Keys -> SUBSET Blocks]
           /\ K.refs \in [Keys -> Nat]
           /\ K.pins \in [Blocks -> Nat]
           /\ K.older \in SUBSET (Keys \X Keys)
           /\ K.key \in [Seqs -> Keys \cup {NoKey}]
BY DEF KvType

(* The sets that are counted are finite.                                   *)
LEMMA FiniteCounts ==
    ASSUME NEW K, NEW H \in SUBSET Seqs, NEW k, NEW b
    PROVE  /\ IsFiniteSet(HoldersOf(K, H, k))
           /\ IsFiniteSet(SharersOf(K, H, b))
<1>1. IsFiniteSet(H)
  BY SeqsAssumption, FS_Subset
<1>2. HoldersOf(K, H, k) \in SUBSET H /\ SharersOf(K, H, b) \in SUBSET H
  BY DEF HoldersOf, SharersOf
<1> QED BY <1>1, <1>2, FS_Subset

(* An entry without references has no holder, one with references has one. *)
LEMMA UnusedHasNoHolder ==
    ASSUME NEW K, NEW H, Good(K, H), NEW k \in Keys
    PROVE  K.refs[k] = 0 <=> \A s \in H : K.key[s] # k
<1>1. IsFiniteSet(HoldersOf(K, H, k))
  BY FiniteCounts DEF Good
<1>2. K.refs[k] = Cardinality(HoldersOf(K, H, k))
  BY DEF Good, Counts
<1> QED BY <1>1, <1>2, FS_EmptySet DEF HoldersOf

(* A block that an entry with a holder lists is pinned.                    *)
LEMMA HeldIsPinned ==
    ASSUME NEW K, NEW H, Good(K, H), NEW s \in H, NEW b \in Blocks,
           K.key[s] # NoKey, b \in K.blocks[K.key[s]]
    PROVE  K.pins[b] > 0
<1>1. s \in SharersOf(K, H, b) /\ IsFiniteSet(SharersOf(K, H, b))
  BY FiniteCounts DEF Good, SharersOf
<1>2. Cardinality(SharersOf(K, H, b)) # 0 /\ Cardinality(SharersOf(K, H, b)) \in Nat
  BY <1>1, FS_EmptySet, FS_CardinalityType
<1> QED BY <1>2 DEF Good, Counts

-----------------------------------------------------------------------------
(* Sequence s takes a reference to the entry k, which it did not have, and *)
(* the entry accounts for the blocks ids: the ones it accounts for already *)
(* if it is in use, and otherwise blocks that are free, pinned by another  *)
(* entry, or private to s.                                                 *)
MayTake(K, s, k, ids) ==
    /\ K.key[s] = NoKey /\ k \in K.stored /\ ids \in SUBSET Blocks
    /\ \A b \in ids : b \in K.free \/ K.pins[b] > 0 \/ b \in K.alloc[s]
    /\ K.refs[k] > 0 => ids = K.blocks[k]

TakesOwned(K, L, s, ids) ==
    /\ \A b \in Blocks : b \in L.free <=> b \in K.free /\ b \notin ids
    /\ \A t \in Seqs \ {s} : L.alloc[t] = K.alloc[t]
    /\ \A b \in Blocks : b \in L.alloc[s] <=> b \in K.alloc[s] /\ b \notin ids

TakesPins(K, L, ids) ==
    \A b \in Blocks : L.pins[b] = IF b \in ids THEN K.pins[b] + 1 ELSE K.pins[b]

TakesEntry(K, L, s, k, ids) ==
    /\ L.stored = K.stored
    /\ L.blocks[k] = ids /\ \A j \in Keys \ {k} : L.blocks[j] = K.blocks[j]
    /\ L.refs[k] = K.refs[k] + 1 /\ \A j \in Keys \ {k} : L.refs[j] = K.refs[j]
    /\ L.key[s] = k /\ \A t \in Seqs \ {s} : L.key[t] = K.key[t]

(* A reference taken, on whichever way _acquire_blocks found the blocks,   *)
(* keeps the accounting good.                                              *)
LEMMA TakeReference ==
    ASSUME NEW K, NEW H, Good(K, H), NEW s \in H, NEW k, NEW ids, MayTake(K, s, k, ids),
           NEW L \in KvType,
           TakesOwned(K, L, s, ids), TakesPins(K, L, ids), TakesEntry(K, L, s, k, ids)
    PROVE  Good(L, H)
<1>0. /\ H \subseteq Seqs /\ s \in Seqs /\ k \in Keys /\ k # NoKey /\ K.key[s] = NoKey
      /\ Owners(K, H) /\ Counts(K, H) /\ Entries(K, H) /\ K \in KvType
  BY NoKeyIsNoEntry, FieldTypes DEF Good, MayTake
<1>k. /\ K.free \subseteq Blocks /\ K.alloc \in [Seqs -> SUBSET Blocks]
      /\ K.stored \subseteq Keys /\ K.blocks \in [Keys -> SUBSET Blocks]
      /\ K.refs \in [Keys -> Nat] /\ K.pins \in [Blocks -> Nat]
      /\ K.key \in [Seqs -> Keys \cup {NoKey}]
  BY <1>0, FieldTypes
<1>l. L.free \subseteq Blocks /\ L.alloc \in [Seqs -> SUBSET Blocks]
  BY FieldTypes
<1>1. Owners(L, H)
  <2>1. ASSUME NEW t \in Seqs, NEW b \in L.alloc[t]
        PROVE  /\ t \in H
               /\ b \notin L.free /\ L.pins[b] = 0
               /\ \A u \in Seqs \ {t} : b \notin L.alloc[u]
    <3>1. b \in Blocks /\ b \in K.alloc[t]
      BY <1>0, <1>l DEF TakesOwned
    <3>2. /\ t \in H /\ b \notin K.free /\ K.pins[b] = 0
          /\ \A u \in Seqs \ {t} : b \notin K.alloc[u]
      BY <1>0, <3>1 DEF Owners
    <3>3. b \notin ids
      BY <1>0, <3>1, <3>2 DEF TakesOwned, MayTake
    <3> QED BY <1>0, <3>1, <3>2, <3>3 DEF TakesOwned, TakesPins
  <2>2. ASSUME NEW b \in L.free
        PROVE  L.pins[b] = 0
    <3>1. b \in Blocks /\ b \in K.free /\ b \notin ids
      BY <1>l DEF TakesOwned
    <3> QED BY <1>0, <3>1 DEF Owners, TakesPins
  <2>3. ASSUME NEW b \in Blocks
        PROVE  L.pins[b] > 0 \/ b \in L.free \/ \E t \in Seqs : b \in L.alloc[t]
    <3>1. CASE b \in ids
      BY <1>k, <3>1 DEF TakesPins
    <3>2. CASE b \notin ids
      <4>1. K.pins[b] > 0 \/ b \in K.free \/ \E t \in Seqs : b \in K.alloc[t]
        BY <1>0 DEF Owners
      <4> QED BY <1>0, <3>2, <4>1 DEF TakesPins, TakesOwned
    <3> QED BY <3>1, <3>2
  <2> QED BY <2>1, <2>2, <2>3 DEF Owners
<1>2. ASSUME NEW b \in Blocks
      PROVE  L.pins[b] = Cardinality(SharersOf(L, H, b))
  <2>1. s \notin SharersOf(K, H, b) /\ IsFiniteSet(SharersOf(K, H, b))
    <3>1. IsFiniteSet(SharersOf(K, H, b))
      BY <1>0, FiniteCounts
    <3> QED BY <1>0, <3>1 DEF SharersOf
  <2>2. K.pins[b] = Cardinality(SharersOf(K, H, b))
    BY <1>0 DEF Counts
  <2>3. ASSUME NEW t \in H, t # s
        PROVE  t \in SharersOf(L, H, b) <=> t \in SharersOf(K, H, b)
    <3>1. L.key[t] = K.key[t] /\ K.key[t] \in Keys \cup {NoKey}
      BY <1>0, <1>k, <2>3 DEF TakesEntry
    <3>2. CASE K.key[t] = k
      <4>1. K.refs[k] > 0
        BY <1>0, <1>k, <3>2, UnusedHasNoHolder
      <4>2. L.blocks[k] = K.blocks[k]
        BY <4>1 DEF MayTake, TakesEntry
      <4> QED BY <3>1, <3>2, <4>2 DEF SharersOf
    <3>3. CASE K.key[t] # k
      BY <3>1, <3>3 DEF SharersOf, TakesEntry
    <3> QED BY <3>2, <3>3
  <2>4. s \in SharersOf(L, H, b) <=> b \in ids
    BY <1>0 DEF SharersOf, TakesEntry
  <2>5. SharersOf(L, H, b) \subseteq H /\ SharersOf(K, H, b) \subseteq H
    BY DEF SharersOf
  <2>6. CASE b \in ids
    <3>1. SharersOf(L, H, b) = SharersOf(K, H, b) \cup {s}
      BY <2>3, <2>4, <2>5, <2>6
    <3>2. Cardinality(SharersOf(K, H, b) \cup {s}) = Cardinality(SharersOf(K, H, b)) + 1
      BY <2>1, FS_AddElement
    <3> QED BY <2>2, <2>6, <3>1, <3>2 DEF TakesPins
  <2>7. CASE b \notin ids
    <3>1. SharersOf(L, H, b) = SharersOf(K, H, b)
      BY <2>1, <2>3, <2>4, <2>5, <2>7
    <3> QED BY <2>2, <2>7, <3>1 DEF TakesPins
  <2> QED BY <2>6, <2>7
<1>3. ASSUME NEW j \in Keys
      PROVE  L.refs[j] = Cardinality(HoldersOf(L, H, j))
  <2>1. s \notin HoldersOf(K, H, j) /\ IsFiniteSet(HoldersOf(K, H, j))
    <3>1. IsFiniteSet(HoldersOf(K, H, j))
      BY <1>0, FiniteCounts
    <3> QED BY <1>0, <3>1, NoKeyIsNoEntry DEF HoldersOf
  <2>2. K.refs[j] = Cardinality(HoldersOf(K, H, j))
    BY <1>0 DEF Counts
  <2>3. \A t \in H : t # s => L.key[t] = K.key[t]
    BY <1>0 DEF TakesEntry
  <2>4. CASE j = k
    <3>1. HoldersOf(L, H, j) = HoldersOf(K, H, j) \cup {s}
      BY <2>3, <2>4 DEF HoldersOf, TakesEntry
    <3>2. Cardinality(HoldersOf(K, H, j) \cup {s}) = Cardinality(HoldersOf(K, H, j)) + 1
      BY <2>1, FS_AddElement
    <3> QED BY <2>2, <2>4, <3>1, <3>2 DEF TakesEntry
  <2>5. CASE j # k
    <3>1. HoldersOf(L, H, j) = HoldersOf(K, H, j)
      BY <2>1, <2>3, <2>5 DEF HoldersOf, TakesEntry
    <3> QED BY <2>2, <2>5, <3>1 DEF TakesEntry
  <2> QED BY <2>4, <2>5
<1>4. Entries(L, H)
  <2>1. \A t \in H : L.key[t] # NoKey => L.key[t] \in L.stored
    BY <1>0 DEF Entries, TakesEntry, MayTake
  <2>2. \A j \in Keys : L.refs[j] = 0 => L.blocks[j] = {}
    BY <1>0, <1>k DEF Entries, TakesEntry
  <2>3. IsFiniteSet(L.stored) /\ Cardinality(L.stored) <= MaxEntries
    BY <1>0 DEF Entries, TakesEntry
  <2> QED BY <2>1, <2>2, <2>3 DEF Entries
<1>5. Counts(L, H)
  BY <1>2, <1>3 DEF Counts
<1> QED BY <1>0, <1>1, <1>4, <1>5 DEF Good

(* Sequence s gives its reference to the entry k back.                     *)
GivesOwned(K, L, k) ==
    /\ \A b \in Blocks : b \in L.free <=>
          b \in K.free \/ (b \in K.blocks[k] /\ K.pins[b] <= 1)
    /\ L.alloc = K.alloc

GivesPins(K, L, k) ==
    \A b \in Blocks : L.pins[b] = IF b \notin K.blocks[k] THEN K.pins[b]
                                  ELSE IF K.pins[b] <= 1 THEN 0 ELSE K.pins[b] - 1

GivesEntry(K, L, s, k) ==
    /\ L.stored = K.stored
    /\ L.blocks[k] = IF K.refs[k] = 1 THEN {} ELSE K.blocks[k]
    /\ \A j \in Keys \ {k} : L.blocks[j] = K.blocks[j]
    /\ L.refs[k] = K.refs[k] - 1 /\ \A j \in Keys \ {k} : L.refs[j] = K.refs[j]
    /\ L.key[s] = NoKey /\ \A t \in Seqs \ {s} : L.key[t] = K.key[t]

(* A reference given back keeps the accounting good: blocks whose last pin *)
(* it was become free, the others stay pinned.                             *)
LEMMA GiveReference ==
    ASSUME NEW K, NEW H, Good(K, H), NEW s \in H, NEW k, k = K.key[s], k # NoKey,
           NEW L \in KvType,
           GivesOwned(K, L, k), GivesPins(K, L, k), GivesEntry(K, L, s, k)
    PROVE  Good(L, H)
<1>0. /\ H \subseteq Seqs /\ s \in Seqs /\ k \in Keys
      /\ Owners(K, H) /\ Counts(K, H) /\ Entries(K, H) /\ K \in KvType
  BY FieldTypes DEF Good
<1>k. /\ K.free \subseteq Blocks /\ K.alloc \in [Seqs -> SUBSET Blocks]
      /\ K.stored \subseteq Keys /\ K.blocks \in [Keys -> SUBSET Blocks]
      /\ K.refs \in [Keys -> Nat] /\ K.pins \in [Blocks -> Nat]
      /\ K.key \in [Seqs -> Keys \cup {NoKey}]
  BY <1>0, FieldTypes
<1>l. L.free \subseteq Blocks /\ L.alloc \in [Seqs -> SUBSET Blocks]
  BY FieldTypes
<1>p. \A b \in K.blocks[k] : K.pins[b] > 0
  BY <1>0, <1>k, HeldIsPinned
<1>q. \A b \in Blocks : L.pins[b] = IF b \in K.blocks[k] THEN K.pins[b] - 1 ELSE K.pins[b]
  BY <1>k, <1>p DEF GivesPins
<1>r. /\ K.refs[k] > 0
      /\ \A t \in H : t # s /\ K.key[t] = k => K.refs[k] # 1
  <2>1. s \in HoldersOf(K, H, k) /\ IsFiniteSet(HoldersOf(K, H, k))
    <3>1. IsFiniteSet(HoldersOf(K, H, k))
      BY <1>0, FiniteCounts
    <3> QED BY <3>1 DEF HoldersOf
  <2>2. K.refs[k] = Cardinality(HoldersOf(K, H, k)) /\ K.refs[k] \in Nat
    BY <1>0, <1>k DEF Counts
  <2>3. K.refs[k] # 0
    BY <2>1, <2>2, FS_EmptySet
  <2>4. ASSUME NEW t \in H, t # s, K.key[t] = k, K.refs[k] = 1
        PROVE  FALSE
    <3>1. t \in HoldersOf(K, H, k)
      BY <2>4 DEF HoldersOf
    <3>2. PICK x : HoldersOf(K, H, k) = {x}
      BY <2>1, <2>2, <2>4, FS_Singleton
    <3> QED BY <2>1, <2>4, <3>1, <3>2
  <2> QED BY <2>2, <2>3, <2>4
<1>1. Owners(L, H)
  <2>1. ASSUME NEW t \in Seqs, NEW b \in L.alloc[t]
        PROVE  /\ t \in H
               /\ b \notin L.free /\ L.pins[b] = 0
               /\ \A u \in Seqs \ {t} : b \notin L.alloc[u]
    <3>1. b \in Blocks /\ b \in K.alloc[t]
      BY <1>l DEF GivesOwned
    <3>2. /\ t \in H /\ b \notin K.free /\ K.pins[b] = 0
          /\ \A u \in Seqs \ {t} : b \notin K.alloc[u]
      BY <1>0, <3>1 DEF Owners
    <3>3. b \notin K.blocks[k]
      BY <1>p, <3>2
    <3> QED BY <1>q, <3>1, <3>2, <3>3 DEF GivesOwned
  <2>2. ASSUME NEW b \in L.free
        PROVE  L.pins[b] = 0
    <3>1. b \in Blocks /\ K.pins[b] \in Nat
      BY <1>k, <1>l
    <3>2. CASE b \in K.free
      <4>1. K.pins[b] = 0 /\ b \notin K.blocks[k]
        BY <1>0, <1>p, <3>2 DEF Owners
      <4> QED BY <1>q, <3>1, <4>1
    <3>3. CASE b \in K.blocks[k] /\ K.pins[b] <= 1
      BY <1>p, <1>q, <3>1, <3>3
    <3> QED BY <3>1, <3>2, <3>3 DEF GivesOwned
  <2>3. ASSUME NEW b \in Blocks
        PROVE  L.pins[b] > 0 \/ b \in L.free \/ \E t \in Seqs : b \in L.alloc[t]
    <3>1. K.pins[b] > 0 \/ b \in K.free \/ \E t \in Seqs : b \in K.alloc[t]
      BY <1>0 DEF Owners
    <3>2. CASE K.pins[b] > 0
      BY <1>k, <1>q, <3>2 DEF GivesOwned
    <3> QED BY <3>1, <3>2 DEF GivesOwned
  <2> QED BY <2>1, <2>2, <2>3 DEF Owners
<1>2. ASSUME NEW b \in Blocks
      PROVE  L.pins[b] = Cardinality(SharersOf(L, H, b))
  <2>1. IsFiniteSet(SharersOf(K, H, b))
    BY <1>0, FiniteCounts
  <2>2. K.pins[b] = Cardinality(SharersOf(K, H, b)) /\ K.pins[b] \in Nat
    BY <1>0, <1>k DEF Counts
  <2>3. ASSUME NEW t \in H, t # s
        PROVE  t \in SharersOf(L, H, b) <=> t \in SharersOf(K, H, b)
    <3>1. L.key[t] = K.key[t] /\ K.key[t] \in Keys \cup {NoKey}
      BY <1>0, <1>k, <2>3 DEF GivesEntry
    <3>2. CASE K.key[t] = k
      <4>1. L.blocks[k] = K.blocks[k]
        BY <1>r, <2>3, <3>2 DEF GivesEntry
      <4> QED BY <3>1, <3>2, <4>1 DEF SharersOf
    <3>3. CASE K.key[t] # k
      BY <3>1, <3>3 DEF SharersOf, GivesEntry
    <3> QED BY <3>2, <3>3
  <2>4. s \notin SharersOf(L, H, b) /\ (s \in SharersOf(K, H, b) <=> b \in K.blocks[k])
    BY <1>0 DEF SharersOf, GivesEntry
  <2>5. SharersOf(L, H, b) \subseteq H /\ SharersOf(K, H, b) \subseteq H
    BY DEF SharersOf
  <2>6. SharersOf(L, H, b) = SharersOf(K, H, b) \ {s}
    BY <2>3, <2>4, <2>5
  <2>7. Cardinality(SharersOf(K, H, b) \ {s}) =
           IF s \in SharersOf(K, H, b) THEN Cardinality(SharersOf(K, H, b)) - 1
                                       ELSE Cardinality(SharersOf(K, H, b))
    BY <2>1, FS_RemoveElement
  <2> QED BY <1>q, <2>2, <2>4, <2>6, <2>7
<1>3. ASSUME NEW j \in Keys
      PROVE  L.refs[j] = Cardinality(HoldersOf(L, H, j))
  <2>1. IsFiniteSet(HoldersOf(K, H, j))
    BY <1>0, FiniteCounts
  <2>2. K.refs[j] = Cardinality(HoldersOf(K, H, j))
    BY <1>0 DEF Counts
  <2>3. HoldersOf(L, H, j) = HoldersOf(K, H, j) \ {s}
    BY <1>0, NoKeyIsNoEntry DEF HoldersOf, GivesEntry
  <2>4. s \in HoldersOf(K, H, j) <=> j = k
    BY DEF HoldersOf
  <2>5. Cardinality(HoldersOf(K, H, j) \ {s}) =
           IF s \in HoldersOf(K, H, j) THEN Cardinality(HoldersOf(K, H, j)) - 1
                                       ELSE Cardinality(HoldersOf(K, H, j))
    BY <2>1, FS_RemoveElement
  <2> QED BY <2>2, <2>3, <2>4, <2>5 DEF GivesEntry
<1>4. Entries(L, H)
  <2>1. \A t \in H : L.key[t] # NoKey => L.key[t] \in L.stored
    BY <1>0 DEF Entries, GivesEntry
  <2>2. \A j \in Keys : L.refs[j] = 0 => L.blocks[j] = {}
    BY <1>0, <1>k DEF Entries, GivesEntry
  <2>3. IsFiniteSet(L.stored) /\ Cardinality(L.stored) <= MaxEntries
    BY <1>0 DEF Entries, GivesEntry
  <2> QED BY <2>1, <2>2, <2>3 DEF Entries
<1>5. Counts(L, H)
  BY <1>2, <1>3 DEF Counts
<1> QED BY <1>0, <1>1, <1>4, <1>5 DEF Good

-----------------------------------------------------------------------------
(* What K and L have in common when only the private blocks differ.        *)
SameEntries(K, L, H) ==
    /\ L.stored = K.stored /\ L.blocks = K.blocks /\ L.refs = K.refs /\ L.pins = K.pins
    /\ \A s \in H : L.key[s] = K.key[s]

(* An operation on the pool alone leaves the counts exact.                 *)
LEMMA SameEntriesSameCounts ==
    ASSUME NEW K, NEW L, NEW H, Counts(K, H), Entries(K, H), SameEntries(K, L, H)
    PROVE  Counts(L, H) /\ Entries(L, H)
<1>1. \A b \in Blocks : SharersOf(L, H, b) = SharersOf(K, H, b)
  BY DEF SharersOf, SameEntries
<1>2. \A k \in Keys : HoldersOf(L, H, k) = HoldersOf(K, H, k)
  BY DEF HoldersOf, SameEntries
<1>3. Counts(L, H)
  BY <1>1, <1>2 DEF Counts, SameEntries
<1>4. Entries(L, H)
  BY DEF Entries, SameEntries
<1> QED BY <1>3, <1>4

(* The recency of the entries and the prefix_key of sequences that are not *)
(* admitted do not matter.                                                 *)
LEMMA OnlyRecencyChanges ==
    ASSUME NEW K, NEW H, Good(K, H), NEW L \in KvType,
           SameEntries(K, L, H), L.free = K.free, L.alloc = K.alloc
    PROVE  Good(L, H)
<1>1. Owners(L, H)
  BY DEF Good, Owners, SameEntries
<1> QED BY <1>1, SameEntriesSameCounts DEF Good

(* An admitted sequence without private blocks gets some of the free ones. *)
LEMMA AllocateBlocks ==
    ASSUME NEW K, NEW H, Good(K, H), NEW s \in H, K.alloc[s] = {},
           NEW ids \in SUBSET K.free,
           NEW L \in KvType, SameEntries(K, L, H),
           L.free = K.free \ ids, L.alloc[s] = ids,
           \A t \in Seqs \ {s} : L.alloc[t] = K.alloc[t]
    PROVE  Good(L, H)
<1>0. /\ H \subseteq Seqs /\ s \in Seqs /\ K \in KvType
      /\ Owners(K, H) /\ Counts(K, H) /\ Entries(K, H)
  BY DEF Good
<1>1. K.free \subseteq Blocks /\ L.alloc \in [Seqs -> SUBSET Blocks] /\ L.pins = K.pins
  BY <1>0, FieldTypes DEF SameEntries
<1>2. ASSUME NEW t \in Seqs, NEW b \in L.alloc[t]
      PROVE  /\ t \in H
             /\ b \notin L.free /\ L.pins[b] = 0
             /\ \A u \in Seqs \ {t} : b \notin L.alloc[u]
  <2>1. CASE t = s
    BY <1>0, <1>1, <1>2, <2>1 DEF Owners
  <2>2. CASE t # s
    BY <1>0, <1>1, <1>2, <2>2 DEF Owners
  <2> QED BY <2>1, <2>2
<1>3. \A b \in L.free : L.pins[b] = 0
  BY <1>0, <1>1 DEF Owners
<1>4. ASSUME NEW b \in Blocks
      PROVE  L.pins[b] > 0 \/ b \in L.free \/ \E t \in Seqs : b \in L.alloc[t]
  <2>1. K.pins[b] > 0 \/ b \in K.free \/ \E t \in Seqs : b \in K.alloc[t]
    BY <1>0 DEF Owners
  <2> QED BY <1>0, <1>1, <2>1
<1>5. Owners(L, H)
  BY <1>2, <1>3, <1>4 DEF Owners
<1> QED BY <1>0, <1>5, SameEntriesSameCounts DEF Good

(* An admitted sequence gives some of its private blocks back.             *)
LEMMA FreeBlocks ==
    ASSUME NEW K, NEW H, Good(K, H), NEW s \in H, NEW ids \in SUBSET K.alloc[s],
           NEW L \in KvType, SameEntries(K, L, H),
           L.free = K.free \cup ids, L.alloc[s] = K.alloc[s] \ ids,
           \A t \in Seqs \ {s} : L.alloc[t] = K.alloc[t]
    PROVE  Good(L, H)
<1>0. /\ H \subseteq Seqs /\ s \in Seqs /\ K \in KvType
      /\ Owners(K, H) /\ Counts(K, H) /\ Entries(K, H)
  BY DEF Good
<1>1. /\ K.free \subseteq Blocks /\ L.alloc \in [Seqs -> SUBSET Blocks]
      /\ K.alloc \in [Seqs -> SUBSET Blocks] /\ L.pins = K.pins
  BY <1>0, FieldTypes DEF SameEntries
<1>2. ASSUME NEW t \in Seqs, NEW b \in L.alloc[t]
      PROVE  /\ t \in H
             /\ b \notin L.free /\ L.pins[b] = 0
             /\ \A u \in Seqs \ {t} : b \notin L.alloc[u]
  <2>1. \A u \in Seqs : L.alloc[u] \subseteq K.alloc[u]
    BY <1>0
  <2>2. /\ t \in H /\ b \notin K.free /\ K.pins[b] = 0
        /\ \A u \in Seqs \ {t} : b \notin K.alloc[u]
    BY <1>0, <1>2, <2>1 DEF Owners
  <2>3. b \notin ids
    BY <1>0, <1>2, <2>2
  <2> QED BY <1>1, <2>1, <2>2, <2>3
<1>3. \A b \in L.free : L.pins[b] = 0
  BY <1>0, <1>1 DEF Owners
<1>4. ASSUME NEW b \in Blocks
      PROVE  L.pins[b] > 0 \/ b \in L.free \/ \E t \in Seqs : b \in L.alloc[t]
  <2>1. K.pins[b] > 0 \/ b \in K.free \/ \E t \in Seqs : b \in K.alloc[t]
    BY <1>0 DEF Owners
  <2> QED BY <1>0, <1>1, <2>1
<1>5. Owners(L, H)
  BY <1>2, <1>3, <1>4 DEF Owners
<1> QED BY <1>0, <1>5, SameEntriesSameCounts DEF Good

(* A sequence that holds no entry and no blocks may be counted among the   *)
(* admitted ones, or not.                                                  *)
LEMMA JoinOrLeave ==
    ASSUME NEW K, NEW G \in SUBSET Seqs, NEW H \in SUBSET Seqs, Good(K, G),
           NEW s \in Seqs, K.key[s] = NoKey, K.alloc[s] = {}, G \ {s} = H \ {s}
    PROVE  Good(K, H)
<1>1. \A b \in Blocks : SharersOf(K, H, b) = SharersOf(K, G, b)
  BY DEF SharersOf
<1>2. \A k \in Keys : HoldersOf(K, H, k) = HoldersOf(K, G, k)
  BY NoKeyIsNoEntry DEF HoldersOf
<1>3. Counts(K, H)
  BY <1>1, <1>2 DEF Good, Counts
<1>4. Entries(K, H)
  BY DEF Good, Entries
<1>5. Owners(K, H)
  BY DEF Good, Owners
<1> QED BY <1>3, <1>4, <1>5 DEF Good

(* The set of entries changes by one that nobody holds.                    *)
LEMMA EntrySetChanges ==
    ASSUME NEW K, NEW H, Good(K, H), NEW L \in KvType, NEW v \in Keys, K.refs[v] = 0,
           K.stored \ {v} = L.stored \ {v}, Cardinality(L.stored) <= MaxEntries,
           IsFiniteSet(L.stored),
           L.free = K.free, L.alloc = K.alloc, L.blocks = K.blocks,
           L.refs = K.refs, L.pins = K.pins, L.key = K.key
    PROVE  Good(L, H)
<1>1. Owners(L, H)
  BY DEF Good, Owners
<1>2. Counts(L, H)
  BY DEF Good, Counts, SharersOf, HoldersOf
<1>3. \A s \in H : K.key[s] # v
  BY UnusedHasNoHolder
<1>4. Entries(L, H)
  BY <1>3 DEF Good, Entries
<1> QED BY <1>1, <1>2, <1>4 DEF Good

-----------------------------------------------------------------------------
(* What the operators of the pool and the cache do to the fields.          *)
LEMMA AddRefFields ==
    ASSUME NEW K \in KvType, NEW k \in Keys, NEW ids \in SUBSET Blocks
    PROVE  LET L == AddRef(K, k, ids)
           IN  /\ L \in KvType
               /\ L.free = K.free /\ L.alloc = K.alloc /\ L.stored = K.stored
               /\ L.older = K.older /\ L.key = K.key
               /\ L.blocks = [K.blocks EXCEPT ![k] = ids]
               /\ L.refs = [K.refs EXCEPT ![k] = @ + 1]
               /\ TakesPins(K, L, ids)
<1> DEFINE pins == [b \in Blocks |-> IF b \in ids THEN K.pins[b] + 1 ELSE K.pins[b]]
           refs == [K.refs EXCEPT ![k] = @ + 1]
           blocks == [K.blocks EXCEPT ![k] = ids]
<1>1. pins \in [Blocks -> Nat] /\ refs \in [Keys -> Nat] /\ blocks \in [Keys -> SUBSET Blocks]
  BY FieldTypes
<1>2. AddRef(K, k, ids) = [K EXCEPT !.pins = pins, !.refs = refs, !.blocks = blocks]
  BY DEF AddRef, Pin, KvType
<1>3. \A b \in Blocks : pins[b] = IF b \in ids THEN K.pins[b] + 1 ELSE K.pins[b]
  OBVIOUS
<1> HIDE DEF pins, refs, blocks
<1>4. LET L == AddRef(K, k, ids)
      IN  /\ L \in KvType
          /\ L.free = K.free /\ L.alloc = K.alloc /\ L.stored = K.stored
          /\ L.older = K.older /\ L.key = K.key
          /\ L.blocks = blocks /\ L.refs = refs /\ L.pins = pins
  BY <1>1, <1>2 DEF KvType
<1> QED BY <1>3, <1>4 DEF TakesPins, refs, blocks

(* touch changes the order of use only.                                    *)
LEMMA TouchFields ==
    ASSUME NEW K \in KvType, NEW k \in Keys
    PROVE  LET L == Touch(K, k)
           IN  /\ L \in KvType
               /\ L.free = K.free /\ L.alloc = K.alloc /\ L.stored = K.stored
               /\ L.blocks = K.blocks /\ L.refs = K.refs /\ L.pins = K.pins
               /\ L.key = K.key
<1> DEFINE older == {p \in K.older : p[1] # k /\ p[2] # k}
                      \cup {<<j, k>> : j \in K.stored \ {k}}
<1>1. older \in SUBSET (Keys \X Keys)
  BY FieldTypes
<1>2. Touch(K, k) = [K EXCEPT !.older = older]
  BY DEF Touch, KvType
<1> QED BY <1>1, <1>2 DEF KvType

(* Setting the prefix_key of a sequence.                                   *)
LEMMA KeyFields ==
    ASSUME NEW K \in KvType, NEW s \in Seqs, NEW k \in Keys \cup {NoKey}
    PROVE  LET L == [K EXCEPT !.key[s] = k]
           IN  /\ L \in KvType
               /\ L.free = K.free /\ L.alloc = K.alloc /\ L.stored = K.stored
               /\ L.blocks = K.blocks /\ L.refs = K.refs /\ L.pins = K.pins
               /\ L.key[s] = k /\ \A t \in Seqs \ {s} : L.key[t] = K.key[t]
BY DEF KvType

(* Acquire takes a reference and nothing else, for blocks that are free or *)
(* pinned, whichever of its four cases applies.                            *)
Acquired(K, L, k, ids) ==
    /\ ids \in SUBSET Blocks
    /\ \A b \in ids : b \in K.free \/ K.pins[b] > 0
    /\ K.refs[k] > 0 => ids = K.blocks[k]
    /\ L \in KvType
    /\ L.free = K.free \ ids /\ L.alloc = K.alloc /\ L.stored = K.stored /\ L.key = K.key
    /\ L.blocks = [K.blocks EXCEPT ![k] = ids]
    /\ L.refs = [K.refs EXCEPT ![k] = @ + 1]
    /\ TakesPins(K, L, ids)

(* The blocks of an entry in use are pinned, and none of them is free.     *)
LEMMA UsedBlocksArePinned ==
    ASSUME NEW K, NEW H, Good(K, H), NEW k \in Keys, K.refs[k] > 0
    PROVE  K.blocks[k] \subseteq Blocks /\ \A b \in K.blocks[k] : K.pins[b] > 0 /\ b \notin K.free
<1>0. K \in KvType
  BY DEF Good
<1>1. K.blocks[k] \subseteq Blocks
  BY <1>0, FieldTypes
<1>2. PICK s \in H : K.key[s] = k
  BY UnusedHasNoHolder
<1>3. \A b \in K.blocks[k] : K.pins[b] > 0
  BY <1>1, <1>2, HeldIsPinned, NoKeyIsNoEntry
<1> QED BY <1>1, <1>3 DEF Good, Owners

(* _acquire_blocks in all its cases: blocks of the entry itself, of a live *)
(* donor, fresh ones, or none.                                             *)
LEMMA AcquireTakes ==
    ASSUME NEW K, NEW H, Good(K, H), NEW k \in K.stored, NEW L \in Acquire(K, k)
    PROVE  \E ids : Acquired(K, L, k, ids)
<1>0. K \in KvType /\ k \in Keys
  BY FieldTypes DEF Good
<1>1. ASSUME NEW ids \in SUBSET Blocks, L = AddRef(K, k, ids),
             \A b \in ids : K.pins[b] > 0 /\ b \notin K.free,
             K.refs[k] > 0 => ids = K.blocks[k]
      PROVE  Acquired(K, L, k, ids)
  <2>1. K.free = K.free \ ids
    BY <1>1
  <2> QED BY <1>0, <1>1, <2>1, AddRefFields DEF Acquired
<1>2. CASE K.refs[k] > 0
  <2>1. L = AddRef(K, k, K.blocks[k])
    BY <1>2 DEF Acquire
  <2> QED BY <1>0, <1>1, <1>2, <2>1, UsedBlocksArePinned
<1>3. CASE ~(K.refs[k] > 0) /\ Donors(K, k) # {}
  <2>1. PICK ids \in Shares(K, k) : L = AddRef(K, k, ids)
    BY <1>3 DEF Acquire
  <2>2. PICK d \in Donors(K, k) : ids \in SUBSET K.blocks[d]
    BY <2>1 DEF Shares, kSubset
  <2>3. d \in Keys /\ K.refs[d] > 0
    BY <1>0, <2>2, FieldTypes DEF Donors
  <2> QED BY <1>1, <1>3, <2>1, <2>2, <2>3, UsedBlocksArePinned
<1>4. CASE ~(K.refs[k] > 0) /\ \E ids \in Reservations(K, Len(k)) :
              L = AddRef(Reserve(K, ids), k, ids)
  <2>1. PICK ids \in SUBSET K.free : L = AddRef(Reserve(K, ids), k, ids)
    BY <1>4 DEF Reservations, kSubset
  <2>2. ids \in SUBSET Blocks
    BY <1>0, FieldTypes
  <2>3. LET R == Reserve(K, ids)
        IN  /\ R \in KvType /\ R.free = K.free \ ids /\ R.alloc = K.alloc
            /\ R.stored = K.stored /\ R.key = K.key /\ R.blocks = K.blocks
            /\ R.refs = K.refs /\ R.pins = K.pins
    BY <1>0 DEF Reserve, KvType
  <2>4. LET R == Reserve(K, ids)
        IN  /\ L \in KvType /\ L.free = R.free /\ L.alloc = R.alloc
            /\ L.stored = R.stored /\ L.key = R.key
            /\ L.blocks = [R.blocks EXCEPT ![k] = ids]
            /\ L.refs = [R.refs EXCEPT ![k] = @ + 1]
            /\ TakesPins(R, L, ids)
    BY <1>0, <2>1, <2>2, <2>3, AddRefFields
  <2>5. TakesPins(K, L, ids)
    BY <2>3, <2>4 DEF TakesPins
  <2>6. Acquired(K, L, k, ids)
    BY <1>4, <2>1, <2>2, <2>3, <2>4, <2>5 DEF Acquired
  <2> QED BY <2>6
<1>5. CASE ~(K.refs[k] > 0) /\ L = AddRef(K, k, {})
  BY <1>1, <1>5
<1> QED BY <1>2, <1>3, <1>4, <1>5 DEF Acquire

-----------------------------------------------------------------------------
(* The operations of the cache and the scheduler keep the accounting good. *)

(* An operation on behalf of s leaves the blocks and the entries the other *)
(* sequences of H count on as they are, and takes for s free blocks, pinned*)
(* ones or its own.                                                        *)
OnBehalfOf(K, L, H, s) ==
    /\ \A t \in Seqs \ {s} : L.alloc[t] = K.alloc[t] /\ L.key[t] = K.key[t]
    /\ \A t \in H \ {s} : K.key[t] \in Keys => L.blocks[K.key[t]] = K.blocks[K.key[t]]
    /\ \A b \in L.alloc[s] : b \in K.alloc[s] \/ b \in K.free
    /\ L.key[s] # NoKey => \A b \in L.blocks[L.key[s]] :
                              b \in K.free \/ K.pins[b] > 0 \/ b \in K.alloc[s]

(* What a successful lookup gives a sequence: the reference, and nothing   *)
(* else of its own.                                                        *)
LEMMA AcquireGood ==
    ASSUME NEW K, NEW H, Good(K, H), NEW s \in H, K.key[s] = NoKey,
           NEW k \in K.stored, NEW A \in Acquire(K, k), NEW L \in KvType,
           L.free = A.free, L.alloc = A.alloc, L.stored = A.stored, L.blocks = A.blocks,
           L.refs = A.refs, L.pins = A.pins,
           L.key[s] = k, \A t \in Seqs \ {s} : L.key[t] = A.key[t]
    PROVE  Good(L, H) /\ OnBehalfOf(K, L, H, s) /\ L.free \subseteq K.free
<1>0. K \in KvType /\ k \in Keys /\ s \in Seqs /\ Owners(K, H)
  BY FieldTypes DEF Good
<1>1. PICK ids : Acquired(K, A, k, ids)
  BY AcquireTakes
<1>2. MayTake(K, s, k, ids)
  BY <1>1 DEF MayTake, Acquired
<1>3. \A b \in K.alloc[s] : b \notin ids
  BY <1>0, <1>1 DEF Acquired, Owners
<1>4. L.free \subseteq Blocks /\ K.free \subseteq Blocks
  BY <1>0, FieldTypes
<1>5. TakesOwned(K, L, s, ids)
  BY <1>0, <1>1, <1>3, <1>4 DEF TakesOwned, Acquired
<1>6. TakesPins(K, L, ids)
  BY <1>1 DEF TakesPins, Acquired
<1>7. K.blocks \in [Keys -> SUBSET Blocks] /\ K.refs \in [Keys -> Nat]
  BY <1>0, FieldTypes
<1>8. TakesEntry(K, L, s, k, ids)
  BY <1>0, <1>1, <1>7 DEF TakesEntry, Acquired
<1>9. Good(L, H)
  BY <1>2, <1>5, <1>6, <1>8, TakeReference
<1>10. ASSUME NEW t \in H \ {s}, K.key[t] \in Keys
       PROVE  L.blocks[K.key[t]] = K.blocks[K.key[t]]
  <2>1. CASE K.key[t] = k
    <3>1. K.refs[k] # 0 /\ K.refs[k] \in Nat
      BY <1>0, <1>7, <2>1, UnusedHasNoHolder
    <3> QED BY <1>2, <1>8, <2>1, <3>1 DEF MayTake, TakesEntry
  <2>2. CASE K.key[t] # k
    BY <1>8, <1>10, <2>2 DEF TakesEntry
  <2> QED BY <2>1, <2>2
<1>11. L.free \subseteq K.free /\ L.alloc = K.alloc
  BY <1>1 DEF Acquired
<1>12. OnBehalfOf(K, L, H, s)
  BY <1>0, <1>1, <1>8, <1>10, <1>11 DEF OnBehalfOf, TakesEntry, Acquired
<1> QED BY <1>9, <1>11, <1>12

(* A lookup, hit or miss, keeps the accounting good and allocates no       *)
(* private block.                                                          *)
LEMMA LookedUpGood ==
    ASSUME NEW K, NEW H, Good(K, H), NEW s \in H, K.key[s] = NoKey,
           NEW L \in LookedUp(K, s)
    PROVE  /\ Good(L, H)
           /\ L.alloc = K.alloc /\ L.free \subseteq K.free
           /\ \A t \in Seqs \ {s} : L.key[t] = K.key[t]
           /\ OnBehalfOf(K, L, H, s)
<1>0. K \in KvType /\ s \in Seqs
  BY DEF Good
<1>1. CASE L = K
  BY <1>1 DEF OnBehalfOf
<1>2. CASE \E k \in Hits(K, s) : L \in Lookup(K, s, k)
  <2>1. PICK k \in K.stored : L \in Lookup(K, s, k)
    BY <1>2 DEF Hits
  <2>2. PICK A \in Acquire(K, k) : L = [Touch(A, k) EXCEPT !.key[s] = k]
    BY <2>1 DEF Lookup
  <2>3. PICK ids : Acquired(K, A, k, ids)
    BY AcquireTakes
  <2>4. k \in Keys /\ A \in KvType /\ A.alloc = K.alloc /\ A.key = K.key
    BY <1>0, <2>3, FieldTypes DEF Acquired
  <2> DEFINE T == Touch(A, k)
  <2>5. /\ T \in KvType /\ T.free = A.free /\ T.alloc = A.alloc
        /\ T.stored = A.stored /\ T.blocks = A.blocks /\ T.refs = A.refs
        /\ T.pins = A.pins /\ T.key = A.key
    BY <2>4, TouchFields
  <2> HIDE DEF T
  <2>6. /\ L \in KvType /\ L.free = T.free /\ L.alloc = T.alloc
        /\ L.stored = T.stored /\ L.blocks = T.blocks /\ L.refs = T.refs
        /\ L.pins = T.pins
        /\ L.key[s] = k /\ \A t \in Seqs \ {s} : L.key[t] = T.key[t]
    BY <1>0, <2>2, <2>4, <2>5, KeyFields DEF T
  <2>7. Good(L, H) /\ OnBehalfOf(K, L, H, s) /\ L.free \subseteq K.free
    BY <2>5, <2>6, AcquireGood
  <2> QED BY <2>4, <2>5, <2>6, <2>7
<1> QED BY <1>1, <1>2 DEF LookedUp

(* Private blocks: allocated to s, and given back by it.                   *)
SameCache(K, L) == /\ L.stored = K.stored /\ L.blocks = K.blocks /\ L.refs = K.refs
                   /\ L.pins = K.pins /\ L.key = K.key

(* Scheduler._try_allocate's private blocks come out of the free ones.     *)
LEMMA AllocateFields ==
    ASSUME NEW K \in KvType, NEW s \in Seqs, NEW ids \in SUBSET Blocks,
           NEW L, L = Allocate(K, s, ids)
    PROVE  /\ L \in KvType /\ SameCache(K, L) /\ L.free = K.free \ ids
           /\ L.alloc[s] = ids /\ \A t \in Seqs \ {s} : L.alloc[t] = K.alloc[t]
<1>1. /\ K.free \ ids \in SUBSET Blocks
      /\ [K.alloc EXCEPT ![s] = ids] \in [Seqs -> SUBSET Blocks]
  BY FieldTypes
<1>2. L = [K EXCEPT !.free = K.free \ ids, !.alloc = [K.alloc EXCEPT ![s] = ids]]
  BY DEF Allocate, KvType
<1> QED BY <1>1, <1>2 DEF KvType, SameCache

(* detach takes blocks from the sequence without freeing them.             *)
LEMMA DetachFields ==
    ASSUME NEW K \in KvType, NEW s \in Seqs, NEW ids \in SUBSET Blocks,
           NEW L, L = Detach(K, s, ids)
    PROVE  /\ L \in KvType /\ SameCache(K, L) /\ L.free = K.free
           /\ L.alloc[s] = K.alloc[s] \ ids /\ \A t \in Seqs \ {s} : L.alloc[t] = K.alloc[t]
<1>1. [K.alloc EXCEPT ![s] = @ \ ids] \in [Seqs -> SUBSET Blocks]
  BY FieldTypes
<1>2. L = [K EXCEPT !.alloc = [K.alloc EXCEPT ![s] = @ \ ids]]
  BY DEF Detach, KvType
<1> QED BY <1>1, <1>2 DEF KvType, SameCache

(* release frees the blocks it is given.                                   *)
LEMMA ReleaseFields ==
    ASSUME NEW K \in KvType, NEW ids \in SUBSET Blocks, NEW L, L = Release(K, ids)
    PROVE  /\ L \in KvType /\ SameCache(K, L) /\ L.free = K.free \cup ids
           /\ L.alloc = K.alloc
BY FieldTypes DEF Release, KvType, SameCache

(* free gives every private block of the sequence back.                    *)
LEMMA FreeFields ==
    ASSUME NEW K \in KvType, NEW s \in Seqs, NEW L, L = Free(K, s)
    PROVE  /\ L \in KvType /\ SameCache(K, L) /\ L.free = K.free \cup K.alloc[s]
           /\ L.alloc[s] = {} /\ \A t \in Seqs \ {s} : L.alloc[t] = K.alloc[t]
<1>1. /\ K.free \cup K.alloc[s] \in SUBSET Blocks
      /\ [K.alloc EXCEPT ![s] = {}] \in [Seqs -> SUBSET Blocks]
  BY FieldTypes
<1>2. L = [K EXCEPT !.free = K.free \cup K.alloc[s], !.alloc = [K.alloc EXCEPT ![s] = {}]]
  BY DEF Free, KvType
<1> QED BY <1>1, <1>2 DEF KvType, SameCache

(* _unpin frees the blocks whose last pin it takes.                        *)
LEMMA UnpinFields ==
    ASSUME NEW K \in KvType, NEW ids \in SUBSET Blocks
    PROVE  LET L == Unpin(K, ids)
           IN  /\ L \in KvType
               /\ L.free = K.free \cup {b \in ids : K.pins[b] <= 1}
               /\ L.alloc = K.alloc /\ L.stored = K.stored /\ L.blocks = K.blocks
               /\ L.refs = K.refs /\ L.key = K.key
               /\ \A b \in Blocks : L.pins[b] = IF b \notin ids THEN K.pins[b]
                                                ELSE IF K.pins[b] <= 1 THEN 0 ELSE K.pins[b] - 1
<1> DEFINE freed == {b \in ids : K.pins[b] <= 1}
           pins == [b \in Blocks |-> IF b \in freed THEN 0
                                    ELSE IF b \in ids THEN K.pins[b] - 1 ELSE K.pins[b]]
<1>1. freed \in SUBSET Blocks /\ K.free \cup freed \in SUBSET Blocks
  BY FieldTypes
<1>2. pins \in [Blocks -> Nat]
  BY FieldTypes
<1>3. Unpin(K, ids) = [K EXCEPT !.pins = pins, !.free = K.free \cup freed]
  BY DEF Unpin, Release, KvType
<1>4. \A b \in Blocks : pins[b] = IF b \notin ids THEN K.pins[b]
                                  ELSE IF K.pins[b] <= 1 THEN 0 ELSE K.pins[b] - 1
  OBVIOUS
<1> HIDE DEF pins
<1>5. LET L == Unpin(K, ids)
      IN  /\ L \in KvType /\ L.free = K.free \cup freed /\ L.pins = pins
          /\ L.alloc = K.alloc /\ L.stored = K.stored /\ L.blocks = K.blocks
          /\ L.refs = K.refs /\ L.key = K.key
  BY <1>1, <1>2, <1>3 DEF KvType
<1> QED BY <1>4, <1>5

(* release, for the key a sequence holds: once the key is forgotten, the   *)
(* accounting is good again.                                               *)
LEMMA ReleaseKeyGood ==
    ASSUME NEW K, NEW H, Good(K, H), NEW s \in H
    PROVE  LET R == ReleaseKey(K, K.key[s])
               L == [R EXCEPT !.key[s] = NoKey]
           IN  /\ R \in KvType /\ R.alloc = K.alloc /\ R.key = K.key
               /\ Good(L, H)
               /\ \A j \in Keys : R.blocks[j] \subseteq K.blocks[j]
               /\ \A t \in H \ {s} : K.key[t] \in Keys => R.blocks[K.key[t]] = K.blocks[K.key[t]]
<1> DEFINE k == K.key[s]
           R == ReleaseKey(K, k)
           L == [R EXCEPT !.key[s] = NoKey]
<1>0. K \in KvType /\ s \in Seqs /\ k \in Keys \cup {NoKey} /\ Entries(K, H)
  BY FieldTypes DEF Good
<1>1. CASE k = NoKey
  <2>1. k \notin K.stored
    BY <1>0, <1>1, NoKeyIsNoEntry, FieldTypes
  <2>2. R = K
    BY <2>1 DEF ReleaseKey
  <2>3. L = K
    BY <1>0, <1>1, <2>2 DEF KvType
  <2> QED BY <1>0, <2>2, <2>3
<1>2. CASE k # NoKey
  <2>0. k \in Keys /\ k \in K.stored /\ K.refs[k] > 0
    <3>1. k \in Keys /\ k \in K.stored /\ K.refs[k] \in Nat
      BY <1>0, <1>2, FieldTypes DEF Entries
    <3>2. K.refs[k] # 0
      BY <3>1, UnusedHasNoHolder
    <3> QED BY <3>1, <3>2
  <2>1. K.blocks[k] \in SUBSET Blocks
    BY <1>0, <2>0, FieldTypes
  <2> DEFINE U == Unpin(K, K.blocks[k])
             refs == [K.refs EXCEPT ![k] = @ - 1]
             blocks == [K.blocks EXCEPT ![k] = IF K.refs[k] = 1 THEN {} ELSE @]
  <2>2. /\ U \in KvType
        /\ U.free = K.free \cup {b \in K.blocks[k] : K.pins[b] <= 1}
        /\ U.alloc = K.alloc /\ U.stored = K.stored /\ U.blocks = K.blocks
        /\ U.refs = K.refs /\ U.key = K.key /\ GivesPins(K, U, k)
    BY <1>0, <2>1, UnpinFields DEF GivesPins
  <2>3. refs \in [Keys -> Nat] /\ blocks \in [Keys -> SUBSET Blocks]
    BY <1>0, <2>0, FieldTypes
  <2>4. R = [U EXCEPT !.refs = refs, !.blocks = blocks]
    BY <2>0, <2>2 DEF ReleaseKey, KvType
  <2> HIDE DEF U, R, refs, blocks
  <2>5. /\ R \in KvType /\ R.free = U.free /\ R.alloc = U.alloc /\ R.stored = U.stored
        /\ R.refs = refs /\ R.blocks = blocks /\ R.pins = U.pins /\ R.key = U.key
    BY <2>2, <2>3, <2>4 DEF KvType
  <2> HIDE DEF L
  <2>6. /\ L \in KvType /\ L.free = R.free /\ L.alloc = R.alloc /\ L.stored = R.stored
        /\ L.blocks = R.blocks /\ L.refs = R.refs /\ L.pins = R.pins
        /\ L.key[s] = NoKey /\ \A t \in Seqs \ {s} : L.key[t] = R.key[t]
    BY <1>0, <2>5, KeyFields DEF L
  <2> HIDE DEF k
  <2>7. GivesOwned(K, L, k)
    BY <2>1, <2>2, <2>5, <2>6 DEF GivesOwned
  <2>8. GivesPins(K, L, k)
    BY <2>2, <2>5, <2>6 DEF GivesPins
  <2>9. K.refs \in [Keys -> Nat] /\ K.blocks \in [Keys -> SUBSET Blocks]
    BY <1>0, FieldTypes
  <2>10. GivesEntry(K, L, s, k)
    BY <1>0, <2>0, <2>2, <2>5, <2>6, <2>9 DEF GivesEntry, refs, blocks
  <2>11. Good(L, H)
    BY <1>2, <2>6, <2>7, <2>8, <2>10, GiveReference DEF k
  <2>12. \A j \in Keys : R.blocks[j] \subseteq K.blocks[j]
    BY <2>5, <2>9 DEF blocks
  <2>13. ASSUME NEW t \in H \ {s}, K.key[t] \in Keys
         PROVE  R.blocks[K.key[t]] = K.blocks[K.key[t]]
    <3>1. CASE K.key[t] = k
      <4>1. s \in HoldersOf(K, H, k) /\ t \in HoldersOf(K, H, k) /\ s # t
        BY <3>1 DEF HoldersOf, k
      <4>2. IsFiniteSet(HoldersOf(K, H, k)) /\ K.refs[k] = Cardinality(HoldersOf(K, H, k))
        BY <2>0, FiniteCounts DEF Good, Counts
      <4>3. K.refs[k] # 1
        <5>1. SUFFICES ASSUME Cardinality(HoldersOf(K, H, k)) = 1 PROVE FALSE
          BY <4>2
        <5>2. PICK x : HoldersOf(K, H, k) = {x}
          BY <4>2, <5>1, FS_Singleton
        <5> QED BY <4>1, <5>2
      <4> QED BY <2>5, <2>9, <3>1, <4>3, <2>0 DEF blocks
    <3>2. CASE K.key[t] # k
      BY <2>5, <2>9, <2>13, <3>2 DEF blocks
    <3> QED BY <3>1, <3>2
  <2> QED BY <2>2, <2>5, <2>11, <2>12, <2>13 DEF R, L, k
<1> QED BY <1>0, <1>1, <1>2

-----------------------------------------------------------------------------
(* What a sequence holds already is pinned, so nothing changes for it when *)
(* an operation leaves the blocks and the keys as they are.                *)
LEMMA SameIsOnBehalf ==
    ASSUME NEW K, NEW H, Good(K, H), NEW s \in H,
           NEW L, L.alloc = K.alloc, L.key = K.key, L.blocks = K.blocks
    PROVE  OnBehalfOf(K, L, H, s)
<1>1. /\ K.key[s] \in Keys \cup {NoKey} /\ K.blocks \in [Keys -> SUBSET Blocks]
  BY FieldTypes DEF Good
<1>2. \A b \in Blocks : K.key[s] # NoKey /\ b \in K.blocks[K.key[s]] => K.pins[b] > 0
  BY HeldIsPinned
<1> QED BY <1>1, <1>2 DEF OnBehalfOf

(* A sequence that is not admitted has no private blocks.                  *)
LEMMA NotAdmittedOwnsNothing ==
    ASSUME NEW K, NEW H, Good(K, H), NEW s \in Seqs, s \notin H
    PROVE  K.alloc[s] = {}
BY DEF Good, Owners

(* A successful admission: the lookup, then the private blocks.            *)
LEMMA AdmittedGood ==
    ASSUME NEW K, NEW H, Good(K, H), NEW s \in Seqs, s \notin H, K.key[s] = NoKey,
           NEW L \in Admitted(K, s)
    PROVE  /\ Good(L, H \cup {s}) /\ \A t \in Seqs \ {s} : L.key[t] = K.key[t]
           /\ OnBehalfOf(K, L, H, s)
<1> DEFINE G == H \cup {s}
<1>1. K.alloc[s] = {} /\ H \in SUBSET Seqs /\ G \in SUBSET Seqs /\ G \ {s} = H \ {s}
  BY NotAdmittedOwnsNothing DEF Good
<1>2. Good(K, G)
  BY <1>1, JoinOrLeave
<1>3. PICK l \in LookedUp(K, s) :
         \E ids \in Reservations(l, OwnTokens(l, s)) : L = Allocate(l, s, ids)
  BY DEF Admitted
<1>4. PICK ids \in SUBSET l.free : L = Allocate(l, s, ids)
  BY <1>3 DEF Reservations, kSubset
<1>5. /\ Good(l, G) /\ l.alloc = K.alloc
      /\ \A t \in Seqs \ {s} : l.key[t] = K.key[t]
      /\ OnBehalfOf(K, l, G, s) /\ l.free \subseteq K.free
  BY <1>2, LookedUpGood
<1>6. l \in KvType /\ ids \in SUBSET Blocks
  BY <1>5, FieldTypes DEF Good
<1>7. /\ L \in KvType /\ SameCache(l, L) /\ L.free = l.free \ ids
      /\ L.alloc[s] = ids /\ \A t \in Seqs \ {s} : L.alloc[t] = l.alloc[t]
  BY <1>4, <1>6, AllocateFields
<1>8. SameEntries(l, L, G) /\ L.key = l.key
  BY <1>7 DEF SameEntries, SameCache
<1>9. l.alloc[s] = {} /\ s \in G
  BY <1>1, <1>5
<1> HIDE DEF G
<1>10. Good(L, G)
  BY <1>4, <1>5, <1>7, <1>8, <1>9, AllocateBlocks
<1>11. OnBehalfOf(K, L, H, s)
  BY <1>1, <1>4, <1>5, <1>7 DEF OnBehalfOf, SameCache
<1> QED BY <1>5, <1>8, <1>10, <1>11 DEF G

(* A failed admission leaves no trace of the lookup in the accounting.     *)
LEMMA RefusedGood ==
    ASSUME NEW K, NEW H, Good(K, H), NEW s \in Seqs, s \notin H, K.key[s] = NoKey,
           NEW L \in Refused(K, s)
    PROVE  /\ Good(L, H) /\ L.key[s] = NoKey
           /\ \A t \in Seqs \ {s} : L.key[t] = K.key[t]
           /\ OnBehalfOf(K, L, H, s)
<1> DEFINE G == H \cup {s}
<1>1. K.alloc[s] = {} /\ H \in SUBSET Seqs /\ G \in SUBSET Seqs /\ G \ {s} = H \ {s}
  BY NotAdmittedOwnsNothing DEF Good
<1>2. Good(K, G)
  BY <1>1, JoinOrLeave
<1>3. PICK l \in LookedUp(K, s) : L = [ReleaseKey(l, l.key[s]) EXCEPT !.key[s] = NoKey]
  BY DEF Refused
<1>4. /\ Good(l, G) /\ l.alloc = K.alloc
      /\ \A t \in Seqs \ {s} : l.key[t] = K.key[t]
      /\ OnBehalfOf(K, l, G, s)
  BY <1>2, LookedUpGood
<1> DEFINE R == ReleaseKey(l, l.key[s])
<1>5. /\ R \in KvType /\ R.alloc = l.alloc /\ R.key = l.key /\ Good(L, G)
      /\ \A t \in G \ {s} : l.key[t] \in Keys => R.blocks[l.key[t]] = l.blocks[l.key[t]]
  BY <1>3, <1>4, ReleaseKeyGood
<1> HIDE DEF R
<1>6. /\ L.alloc = R.alloc /\ L.key[s] = NoKey /\ L.blocks = R.blocks
      /\ \A t \in Seqs \ {s} : L.key[t] = R.key[t]
  BY <1>3, <1>5, KeyFields DEF R
<1>7. Good(L, H)
  BY <1>1, <1>4, <1>5, <1>6, JoinOrLeave
<1>8. OnBehalfOf(K, L, H, s)
  BY <1>1, <1>4, <1>5, <1>6 DEF OnBehalfOf
<1> QED BY <1>4, <1>5, <1>6, <1>7, <1>8

(* A prefix bound at the prefill: the blocks it makes superfluous are      *)
(* freed, and those of nobody else.                                        *)
LEMMA LateBindGood ==
    ASSUME NEW K, NEW H, Good(K, H), NEW s \in H, NEW L \in LateBind(K, s)
    PROVE  /\ Good(L, H) /\ \A t \in Seqs \ {s} : L.key[t] = K.key[t]
           /\ OnBehalfOf(K, L, H, s)
<1>1. CASE K.key[s] # NoKey
  BY <1>1, SameIsOnBehalf DEF LateBind
<1>2. CASE K.key[s] = NoKey
  <2>1. PICK l \in LookedUp(K, s) :
           \E ids \in SUBSET l.alloc[s] : L = Release(Detach(l, s, ids), ids)
    BY <1>2 DEF LateBind, Detachable, kSubset
  <2>2. PICK ids \in SUBSET l.alloc[s] : L = Release(Detach(l, s, ids), ids)
    BY <2>1
  <2>3. /\ Good(l, H) /\ \A t \in Seqs \ {s} : l.key[t] = K.key[t]
        /\ OnBehalfOf(K, l, H, s) /\ l.alloc = K.alloc
    BY <1>2, LookedUpGood
  <2>4. /\ l \in KvType /\ s \in Seqs /\ ids \in SUBSET Blocks
    BY <2>3, FieldTypes DEF Good
  <2>5. PICK D : D = Detach(l, s, ids)
    OBVIOUS
  <2>6. /\ D \in KvType /\ SameCache(l, D) /\ D.free = l.free
        /\ D.alloc[s] = l.alloc[s] \ ids /\ \A t \in Seqs \ {s} : D.alloc[t] = l.alloc[t]
    BY <2>4, <2>5, DetachFields
  <2>7. L \in KvType /\ SameCache(D, L) /\ L.free = D.free \cup ids /\ L.alloc = D.alloc
    BY <2>2, <2>4, <2>5, <2>6, ReleaseFields
  <2>8. SameEntries(l, L, H) /\ L.key = l.key
    BY <2>6, <2>7 DEF SameEntries, SameCache
  <2>9. /\ L.free = l.free \cup ids /\ L.alloc[s] = l.alloc[s] \ ids
        /\ \A t \in Seqs \ {s} : L.alloc[t] = l.alloc[t]
    BY <2>6, <2>7
  <2>10. Good(l, H) /\ L \in KvType /\ SameEntries(l, L, H)
    BY <2>3, <2>7, <2>8
  <2>11. Good(L, H)
    BY <2>9, <2>10, FreeBlocks
  <2>12. OnBehalfOf(K, L, H, s)
    BY <2>3, <2>8, <2>9 DEF OnBehalfOf, SameEntries
  <2> QED BY <2>3, <2>8, <2>11, <2>12
<1> QED BY <1>1, <1>2

(* insert and its eviction touch entries without references only.          *)
LEMMA InsertGood ==
    ASSUME NEW K, NEW H, Good(K, H), NEW s \in H, NEW n \in CandidateLengths(s),
           NEW L \in Insert(K, s, n)
    PROVE  Good(L, H) /\ L.key = K.key /\ L.alloc = K.alloc /\ L.blocks = K.blocks
<1> DEFINE k == PrefixOf(s, n)
<1>0. K \in KvType /\ s \in Seqs /\ Entries(K, H)
  BY DEF Good
<1>1. k \in Keys
  BY <1>0 DEF CandidateLengths, Keys
<1> HIDE DEF k
(* An entry added to a cache that has room.                                *)
<1>2. ASSUME NEW D \in KvType, Good(D, H), k \notin D.stored,
             Cardinality(D.stored) < MaxEntries, L = AddEntry(D, k)
      PROVE  Good(L, H) /\ L.key = D.key /\ L.alloc = D.alloc /\ L.blocks = D.blocks
  <2> DEFINE A == [D EXCEPT !.stored = @ \cup {k}]
  <2>1. D.stored \subseteq Keys
    BY <1>2, FieldTypes
  <2>2. /\ A \in KvType /\ A.stored = D.stored \cup {k} /\ A.free = D.free
        /\ A.alloc = D.alloc /\ A.blocks = D.blocks /\ A.refs = D.refs
        /\ A.pins = D.pins /\ A.key = D.key
    BY <1>1, <2>1 DEF KvType
  <2> HIDE DEF A
  <2>3. /\ L \in KvType /\ L.stored = A.stored /\ L.free = A.free /\ L.alloc = A.alloc
        /\ L.blocks = A.blocks /\ L.refs = A.refs /\ L.pins = A.pins /\ L.key = A.key
    BY <1>1, <1>2, <2>2, TouchFields DEF AddEntry, A
  <2>4. D.refs[k] = 0
    <3>1. \A t \in H : D.key[t] # k
      BY <1>1, <1>2, NoKeyIsNoEntry DEF Good, Entries
    <3> QED BY <1>1, <1>2, <3>1, UnusedHasNoHolder
  <2>5. IsFiniteSet(D.stored) /\ Cardinality(D.stored) \in Nat /\ MaxEntries \in Nat
    BY <1>2, FS_CardinalityType, EntriesAssumption DEF Good, Entries
  <2>6. IsFiniteSet(L.stored) /\ Cardinality(L.stored) = Cardinality(D.stored) + 1
    <3>1. /\ IsFiniteSet(D.stored \cup {k})
          /\ Cardinality(D.stored \cup {k}) =
                IF k \in D.stored THEN Cardinality(D.stored) ELSE Cardinality(D.stored) + 1
      BY <2>5, FS_AddElement
    <3> QED BY <1>2, <2>2, <2>3, <3>1
  <2>7. Cardinality(L.stored) <= MaxEntries
    BY <1>2, <2>5, <2>6
  <2>8. D.stored \ {k} = L.stored \ {k}
    BY <2>2, <2>3
  <2>9. Good(L, H)
    BY <1>1, <1>2, <2>2, <2>3, <2>4, <2>6, <2>7, <2>8, EntrySetChanges
  <2> QED BY <2>2, <2>3, <2>9
<1>3. IsFiniteSet(K.stored) /\ Cardinality(K.stored) \in Nat /\ MaxEntries \in Nat
      /\ Cardinality(K.stored) <= MaxEntries
  BY <1>0, FS_CardinalityType, EntriesAssumption DEF Entries
<1>4. CASE L = K
  BY <1>4
<1>5. CASE k \notin K.stored /\ ~Full(K) /\ L = AddEntry(K, k)
  BY <1>0, <1>2, <1>3, <1>5 DEF Full
<1>6. CASE k \notin K.stored /\ \E v \in Victims(K) : L = AddEntry(DropEntry(K, v), k)
  <2>1. PICK v \in K.stored : K.refs[v] = 0 /\ L = AddEntry(DropEntry(K, v), k)
    BY <1>6 DEF Victims, Unused
  <2>2. v \in Keys /\ K.blocks[v] = {}
    BY <1>0, <2>1, FieldTypes DEF Entries
  <2> DEFINE U == Unpin(K, K.blocks[v])
             D == DropEntry(K, v)
  <2>3. /\ U \in KvType /\ U.free = K.free /\ U.alloc = K.alloc /\ U.stored = K.stored
        /\ U.blocks = K.blocks /\ U.refs = K.refs /\ U.pins = K.pins /\ U.key = K.key
    <3>0. K.blocks[v] \in SUBSET Blocks
      BY <2>2
    <3>1. /\ U \in KvType /\ U.free = K.free \cup {b \in K.blocks[v] : K.pins[b] <= 1}
          /\ U.alloc = K.alloc /\ U.stored = K.stored
          /\ U.blocks = K.blocks /\ U.refs = K.refs /\ U.key = K.key
          /\ \A b \in Blocks : b \notin K.blocks[v] => U.pins[b] = K.pins[b]
      BY <1>0, <3>0, UnpinFields
    <3>2. U.pins \in [Blocks -> Nat] /\ K.pins \in [Blocks -> Nat]
      BY <1>0, <3>1, FieldTypes
    <3>3. U.pins = K.pins /\ U.free = K.free
      BY <2>2, <3>1, <3>2
    <3> QED BY <3>1, <3>3
  <2> HIDE DEF U
  <2>4. K.blocks \in [Keys -> SUBSET Blocks] /\ U.older \in SUBSET (Keys \X Keys)
        /\ K.stored \subseteq Keys
    BY <1>0, <2>3, FieldTypes
  <2>5. [K.blocks EXCEPT ![v] = {}] = K.blocks
    BY <2>2, <2>4
  <2> DEFINE older == {p \in U.older : p[1] # v /\ p[2] # v}
  <2>6. /\ D = [U EXCEPT !.stored = K.stored \ {v}, !.blocks = K.blocks, !.older = older]
        /\ older \in SUBSET (Keys \X Keys) /\ K.stored \ {v} \in SUBSET Keys
    BY <2>3, <2>4, <2>5 DEF DropEntry, U, KvType
  <2> HIDE DEF older
  <2>7. /\ D \in KvType /\ D.free = K.free /\ D.alloc = K.alloc /\ D.stored = K.stored \ {v}
        /\ D.blocks = K.blocks /\ D.refs = K.refs /\ D.pins = K.pins /\ D.key = K.key
    BY <2>3, <2>4, <2>5, <2>6 DEF KvType
  <2> HIDE DEF D
  <2>8. IsFiniteSet(D.stored) /\ Cardinality(D.stored) = Cardinality(K.stored) - 1
    BY <1>3, <2>1, <2>7, FS_RemoveElement
  <2>9. /\ K.stored \ {v} = D.stored \ {v}
        /\ Cardinality(D.stored) < MaxEntries /\ Cardinality(D.stored) <= MaxEntries
    BY <1>3, <2>7, <2>8
  <2>10. Good(D, H)
    BY <1>3, <2>1, <2>2, <2>7, <2>8, <2>9, EntrySetChanges
  <2> QED BY <1>2, <1>6, <2>1, <2>7, <2>9, <2>10 DEF D
<1> QED BY <1>4, <1>5, <1>6 DEF Insert, k

(* adopt: a reference like any other, or the sequence's own first blocks.  *)
LEMMA AdoptGood ==
    ASSUME NEW K, NEW H, Good(K, H), NEW s \in H, NEW L \in Adopt(K, s)
    PROVE  /\ Good(L, H) /\ \A t \in Seqs \ {s} : L.key[t] = K.key[t]
           /\ OnBehalfOf(K, L, H, s)
<1> DEFINE k == PromptOf[s]
<1>0. K \in KvType /\ s \in Seqs
  BY DEF Good
<1>1. CASE K.key[s] # NoKey \/ k \notin K.stored
  BY <1>1, SameIsOnBehalf DEF Adopt
<1>2. CASE K.key[s] = NoKey /\ k \in K.stored /\ K.refs[k] > 0
  <2>1. PICK A \in Acquire(K, k) : L = [A EXCEPT !.key[s] = k]
    BY <1>2 DEF Adopt
  <2> HIDE DEF k
  <2>2. PICK ids : Acquired(K, A, k, ids)
    BY <1>2, AcquireTakes
  <2>3. A \in KvType /\ A.key = K.key /\ k \in Keys
    BY <1>0, <1>2, <2>2, FieldTypes DEF Acquired
  <2>4. /\ L \in KvType /\ L.free = A.free /\ L.alloc = A.alloc
        /\ L.stored = A.stored /\ L.blocks = A.blocks /\ L.refs = A.refs
        /\ L.pins = A.pins
        /\ L.key[s] = k /\ \A t \in Seqs \ {s} : L.key[t] = A.key[t]
    BY <1>0, <2>1, <2>3, KeyFields
  <2>5. Good(L, H) /\ OnBehalfOf(K, L, H, s)
    BY <1>2, <2>4, AcquireGood
  <2> QED BY <2>3, <2>4, <2>5
<1>3. CASE K.key[s] = NoKey /\ k \in K.stored /\ ~(K.refs[k] > 0)
  <2>1. PICK ids \in SUBSET K.alloc[s] :
           L = [Touch(AddRef(Detach(K, s, ids), k, ids), k) EXCEPT !.key[s] = k]
    BY <1>3 DEF Adopt, Detachable, kSubset
  <2> HIDE DEF k
  <2>2. ids \in SUBSET Blocks /\ k \in Keys
    BY <1>0, <1>3, FieldTypes
  <2>3. PICK D : D = Detach(K, s, ids)
    OBVIOUS
  <2>4. /\ D \in KvType /\ SameCache(K, D) /\ D.free = K.free
        /\ D.alloc[s] = K.alloc[s] \ ids /\ \A t \in Seqs \ {s} : D.alloc[t] = K.alloc[t]
    BY <1>0, <2>2, <2>3, DetachFields
  <2>5. PICK A : A = AddRef(D, k, ids)
    OBVIOUS
  <2>6. /\ A \in KvType
        /\ A.free = D.free /\ A.alloc = D.alloc /\ A.stored = D.stored /\ A.key = D.key
        /\ A.blocks = [D.blocks EXCEPT ![k] = ids]
        /\ A.refs = [D.refs EXCEPT ![k] = @ + 1] /\ TakesPins(D, A, ids)
    BY <2>2, <2>4, <2>5, AddRefFields
  <2>7. PICK T : T = Touch(A, k)
    OBVIOUS
  <2>8. /\ T \in KvType /\ T.free = A.free /\ T.alloc = A.alloc
        /\ T.stored = A.stored /\ T.blocks = A.blocks /\ T.refs = A.refs
        /\ T.pins = A.pins /\ T.key = A.key
    BY <2>2, <2>6, <2>7, TouchFields
  <2>9. /\ L \in KvType /\ L.free = T.free /\ L.alloc = T.alloc
        /\ L.stored = T.stored /\ L.blocks = T.blocks /\ L.refs = T.refs
        /\ L.pins = T.pins
        /\ L.key[s] = k /\ \A t \in Seqs \ {s} : L.key[t] = T.key[t]
    BY <1>0, <2>1, <2>2, <2>3, <2>5, <2>7, <2>8, KeyFields
  <2>10. MayTake(K, s, k, ids)
    BY <1>3, <2>2 DEF MayTake
  <2>11. \A b \in ids : b \notin K.free
    BY <1>0 DEF Good, Owners
  <2>12. L.free = K.free /\ L.alloc[s] = K.alloc[s] \ ids
         /\ \A t \in Seqs \ {s} : L.alloc[t] = K.alloc[t]
    BY <2>4, <2>6, <2>8, <2>9
  <2>13. TakesOwned(K, L, s, ids)
    BY <2>11, <2>12 DEF TakesOwned
  <2>14. TakesPins(K, L, ids)
    BY <2>4, <2>6, <2>8, <2>9 DEF TakesPins, SameCache
  <2>15. K.refs \in [Keys -> Nat] /\ K.blocks \in [Keys -> SUBSET Blocks]
    BY <1>0, FieldTypes
  <2>16. /\ L.blocks = [K.blocks EXCEPT ![k] = ids] /\ L.refs = [K.refs EXCEPT ![k] = @ + 1]
         /\ L.stored = K.stored /\ \A t \in Seqs \ {s} : L.key[t] = K.key[t]
    BY <2>4, <2>6, <2>8, <2>9 DEF SameCache
  <2>17. TakesEntry(K, L, s, k, ids)
    BY <2>2, <2>9, <2>15, <2>16 DEF TakesEntry
  <2>18. Good(L, H)
    BY <2>9, <2>10, <2>13, <2>14, <2>17, TakeReference
  <2>19. \A t \in H \ {s} : K.key[t] # k
    <3>1. K.refs[k] = 0
      BY <1>3, <2>2, <2>15
    <3> QED BY <2>2, <3>1, UnusedHasNoHolder
  <2>20. OnBehalfOf(K, L, H, s)
    <3>1. \A j \in Keys : j # k => L.blocks[j] = K.blocks[j]
      BY <2>15, <2>16
    <3>2. L.blocks[k] = ids
      BY <2>2, <2>15, <2>16
    <3>3. /\ \A t \in Seqs \ {s} : L.alloc[t] = K.alloc[t] /\ L.key[t] = K.key[t]
          /\ L.key[s] = k /\ L.alloc[s] \subseteq K.alloc[s]
      BY <2>9, <2>12, <2>16
    <3>4. ids \subseteq K.alloc[s]
      BY <2>1
    <3>5. \A t \in H \ {s} : K.key[t] \in Keys => L.blocks[K.key[t]] = K.blocks[K.key[t]]
      BY <2>19, <3>1
    <3>6. L.key[s] # NoKey => \A b \in L.blocks[L.key[s]] : b \in K.alloc[s]
      BY <3>2, <3>3, <3>4
    <3> QED BY <3>3, <3>5, <3>6 DEF OnBehalfOf
  <2> QED BY <2>16, <2>18, <2>20
<1> QED BY <1>1, <1>2, <1>3

(* _release: whatever an admitted sequence holds is given back.  One that  *)
(* was never admitted holds nothing.                                       *)
LEMMA ReleaseSeqGood ==
    ASSUME NEW K, NEW H, Good(K, H), NEW s \in Seqs, s \notin H => K.key[s] = NoKey
    PROVE  LET L == ReleaseSeq(K, s)
           IN  /\ Good(L, H \ {s}) /\ \A t \in Seqs \ {s} : L.key[t] = K.key[t]
               /\ OnBehalfOf(K, L, H, s)
<1> DEFINE G == H \cup {s}
<1>1. /\ H \in SUBSET Seqs /\ G \in SUBSET Seqs /\ H \ {s} \in SUBSET Seqs
      /\ G \ {s} = H \ {s} /\ G \ {s} = (H \ {s}) \ {s} /\ s \in G
  BY DEF Good
<1>2. Good(K, G)
  <2>1. CASE s \in H
    <3>1. G = H
      BY <2>1
    <3> QED BY <3>1
  <2>2. CASE s \notin H
    BY <1>1, <2>2, NotAdmittedOwnsNothing, JoinOrLeave
  <2> QED BY <2>1, <2>2
<1> HIDE DEF G
<1>3. PICK R : R = ReleaseKey(K, K.key[s])
  OBVIOUS
<1>4. PICK N : N = [R EXCEPT !.key[s] = NoKey]
  OBVIOUS
<1>5. /\ R \in KvType /\ R.alloc = K.alloc /\ R.key = K.key /\ Good(N, G)
      /\ \A j \in Keys : R.blocks[j] \subseteq K.blocks[j]
      /\ \A t \in G \ {s} : K.key[t] \in Keys => R.blocks[K.key[t]] = K.blocks[K.key[t]]
  BY <1>1, <1>2, <1>3, <1>4, ReleaseKeyGood
<1>6. /\ N \in KvType /\ N.free = R.free /\ N.alloc = R.alloc /\ N.stored = R.stored
      /\ N.blocks = R.blocks /\ N.refs = R.refs /\ N.pins = R.pins
      /\ N.key[s] = NoKey /\ \A t \in Seqs \ {s} : N.key[t] = R.key[t]
  BY <1>4, <1>5, KeyFields
<1>7. PICK F : F = Free(N, s)
  OBVIOUS
<1>8. /\ F \in KvType /\ SameCache(N, F) /\ F.free = N.free \cup N.alloc[s]
      /\ F.alloc[s] = {} /\ \A t \in Seqs \ {s} : F.alloc[t] = N.alloc[t]
  BY <1>6, <1>7, FreeFields
<1>9. PICK ids \in SUBSET N.alloc[s] : ids = N.alloc[s]
  OBVIOUS
<1>10. /\ SameEntries(N, F, G) /\ F.key = N.key
       /\ F.free = N.free \cup ids /\ F.alloc[s] = N.alloc[s] \ ids
  BY <1>8, <1>9 DEF SameEntries, SameCache
<1>11. Good(F, G)
  BY <1>1, <1>5, <1>8, <1>10, FreeBlocks, ZenonT(60)
<1>12. Good(F, H \ {s})
  BY <1>1, <1>6, <1>8, <1>10, <1>11, JoinOrLeave
<1>13. PICK L : L = ReleaseSeq(K, s)
  OBVIOUS
<1>14. L = Free(R, s)
  BY <1>3, <1>13 DEF ReleaseSeq
<1>15. /\ L \in KvType /\ SameCache(R, L) /\ L.free = R.free \cup R.alloc[s]
       /\ L.alloc[s] = {} /\ \A t \in Seqs \ {s} : L.alloc[t] = R.alloc[t]
  BY <1>5, <1>14, FreeFields
<1>16. L.free = F.free /\ L.alloc = F.alloc
  <2>1. L.alloc \in [Seqs -> SUBSET Blocks] /\ F.alloc \in [Seqs -> SUBSET Blocks]
    BY <1>8, <1>15, FieldTypes
  <2>2. ASSUME NEW t \in Seqs
        PROVE  L.alloc[t] = F.alloc[t]
    <3>1. CASE t = s
      BY <1>8, <1>15, <3>1
    <3>2. CASE t # s
      <4>1. t \in Seqs \ {s} /\ N.alloc = R.alloc
        BY <1>6, <3>2
      <4>2. L.alloc[t] = R.alloc[t]
        BY <1>15, <4>1
      <4>3. F.alloc[t] = N.alloc[t]
        BY <1>8, <4>1
      <4> QED BY <4>1, <4>2, <4>3
    <3> QED BY <3>1, <3>2
  <2>3. L.alloc = F.alloc
    BY <2>1, <2>2
  <2> QED BY <1>6, <1>8, <1>15, <2>3
<1>17. SameEntries(F, L, H \ {s})
  BY <1>1, <1>6, <1>8, <1>10, <1>15 DEF SameEntries, SameCache
<1>18. Good(L, H \ {s})
  BY <1>12, <1>15, <1>16, <1>17, OnlyRecencyChanges
<1>19. \A t \in Seqs \ {s} : L.key[t] = K.key[t]
  BY <1>5, <1>15 DEF SameCache
<1>20. OnBehalfOf(K, L, H, s)
  <2>1. /\ K.key[s] \in Keys \cup {NoKey} /\ K.blocks \in [Keys -> SUBSET Blocks] /\ s \in G
    BY <1>1, <1>2, FieldTypes DEF Good
  <2>2. \A b \in Blocks : K.key[s] # NoKey /\ b \in K.blocks[K.key[s]] => K.pins[b] > 0
    BY <1>2, <2>1, HeldIsPinned
  <2>3. L.key = K.key /\ L.blocks = R.blocks
    BY <1>5, <1>15 DEF SameCache
  <2>4. \A t \in H \ {s} : t \in G \ {s}
    BY <1>1
  <2> QED BY <1>5, <1>15, <2>1, <2>2, <2>3, <2>4 DEF OnBehalfOf
<1> QED BY <1>13, <1>18, <1>19, <1>20

-----------------------------------------------------------------------------
(* The initial accounting is good, and every action keeps the invariant.   *)
LEMMA InitInv == Init => Inv
<1> SUFFICES ASSUME Init PROVE Inv
  OBVIOUS
<1>0. kv = InitKv /\ held = {} /\ done = {}
  BY DEF Init
<1>1. kv \in KvType
  BY <1>0 DEF InitKv, KvType
<1>2. /\ kv.free = Blocks /\ kv.stored = {}
      /\ \A s \in Seqs : kv.alloc[s] = {} /\ kv.key[s] = NoKey
      /\ \A k \in Keys : kv.blocks[k] = {} /\ kv.refs[k] = 0
      /\ \A b \in Blocks : kv.pins[b] = 0
  BY <1>0 DEF InitKv
<1>3. Owners(kv, held)
  BY <1>2 DEF Owners
<1>4. Counts(kv, held)
  <2>1. \A b : SharersOf(kv, held, b) = {}
    BY <1>0 DEF SharersOf
  <2>2. \A k : HoldersOf(kv, held, k) = {}
    BY <1>0 DEF HoldersOf
  <2> QED BY <1>2, <2>1, <2>2, FS_EmptySet DEF Counts
<1>5. Entries(kv, held)
  BY <1>0, <1>2, FS_EmptySet, EntriesAssumption DEF Entries
<1>6. Good(kv, held)
  BY <1>0, <1>1, <1>3, <1>4, <1>5 DEF Good
<1> QED BY <1>0, <1>2, <1>6 DEF Inv

(* Every action of the accounting keeps the invariant.                     *)
LEMMA NextInv == Inv /\ [Next]_vars => Inv'
<1> SUFFICES ASSUME Inv, [Next]_vars PROVE Inv'
  OBVIOUS
<1>0. /\ Good(kv, held) /\ held \subseteq Seqs /\ done \subseteq Seqs \ held
      /\ \A s \in Seqs : s \notin held \cup done => kv.key[s] = NoKey
  BY DEF Inv, Good
<1>1. ASSUME NEW s \in Seqs, Admit(s)
      PROVE  Inv'
  <2>1. /\ s \notin held /\ s \notin done /\ kv' \in Admitted(kv, s)
        /\ held' = held \cup {s} /\ done' = done
    BY <1>1 DEF Admit
  <2>2. Good(kv', held \cup {s}) /\ \A t \in Seqs \ {s} : kv'.key[t] = kv.key[t]
    BY <1>0, <2>1, AdmittedGood
  <2> QED BY <1>0, <2>1, <2>2 DEF Inv
<1>2. ASSUME NEW s \in Seqs, Refuse(s)
      PROVE  Inv'
  <2>1. /\ s \notin held /\ s \notin done /\ kv' \in Refused(kv, s)
        /\ held' = held /\ done' = done
    BY <1>2 DEF Refuse
  <2>2. /\ Good(kv', held) /\ kv'.key[s] = NoKey
        /\ \A t \in Seqs \ {s} : kv'.key[t] = kv.key[t]
    BY <1>0, <2>1, RefusedGood
  <2> QED BY <1>0, <2>1, <2>2 DEF Inv
<1>3. ASSUME NEW s \in Seqs, Bind(s)
      PROVE  Inv'
  <2>1. s \in held /\ kv' \in LateBind(kv, s) /\ held' = held /\ done' = done
    BY <1>3 DEF Bind
  <2>2. Good(kv', held) /\ \A t \in Seqs \ {s} : kv'.key[t] = kv.key[t]
    BY <1>0, <2>1, LateBindGood
  <2> QED BY <1>0, <2>1, <2>2 DEF Inv
<1>4. ASSUME NEW s \in Seqs, Store(s)
      PROVE  Inv'
  <2>1. s \in held /\ held' = held /\ done' = done
    BY <1>4 DEF Store
  <2>2. PICK n \in CandidateLengths(s) : kv' \in Insert(kv, s, n)
    BY <1>4 DEF Store
  <2>3. Good(kv', held) /\ kv'.key = kv.key
    BY <1>0, <2>1, <2>2, InsertGood
  <2> QED BY <1>0, <2>1, <2>3 DEF Inv
<1>5. ASSUME NEW s \in Seqs, AdoptEntry(s)
      PROVE  Inv'
  <2>1. s \in held /\ kv' \in Adopt(kv, s) /\ held' = held /\ done' = done
    BY <1>5 DEF AdoptEntry
  <2>2. Good(kv', held) /\ \A t \in Seqs \ {s} : kv'.key[t] = kv.key[t]
    BY <1>0, <2>1, AdoptGood
  <2> QED BY <1>0, <2>1, <2>2 DEF Inv
<1>6. ASSUME NEW s \in Seqs, Retire(s)
      PROVE  Inv'
  <2>1. /\ s \notin done /\ kv' = ReleaseSeq(kv, s)
        /\ held' = held \ {s} /\ done' = done \cup {s}
    BY <1>6 DEF Retire
  <2>2. Good(kv', held \ {s}) /\ \A t \in Seqs \ {s} : kv'.key[t] = kv.key[t]
    BY <1>0, <2>1, ReleaseSeqGood
  <2> QED BY <1>0, <2>1, <2>2 DEF Inv
<1>7. CASE UNCHANGED vars
  BY <1>0, <1>7 DEF Inv, vars
<1> QED BY <1>1, <1>2, <1>3, <1>4, <1>5, <1>6, <1>7 DEF Next

(* In every state the accounting is good.                                  *)
THEOREM InvAlways == Spec => []Inv
BY InitInv, NextInv, PTL DEF Spec

(* The accounting is well formed, and nothing that is over is admitted.    *)
THEOREM TypeCorrect == Spec => []TypeOK
<1>1. Inv => TypeOK
  BY DEF Inv, Good, TypeOK
<1> QED BY <1>1, InvAlways, PTL

(* A block is never handed out twice and never freed while it is in use.   *)
THEOREM NeverUsedTwice == Spec => []NoDoubleUse
<1>1. Inv => NoDoubleUse
  <2> SUFFICES ASSUME Inv PROVE NoDoubleUse
    OBVIOUS
  <2>1. Owners(kv, held) /\ kv.free \subseteq Blocks
    BY FieldTypes DEF Inv, Good
  <2>2. \A s \in Seqs : kv.alloc[s] \cap kv.free = {}
    BY <2>1 DEF Owners
  <2>3. \A s, t \in Seqs : s # t => kv.alloc[s] \cap kv.alloc[t] = {}
    BY <2>1 DEF Owners
  <2>4. Pinned \cap kv.free = {}
    BY <2>1 DEF Owners, Pinned
  <2>5. \A s \in Seqs : kv.alloc[s] \cap Pinned = {}
    BY <2>1 DEF Owners, Pinned
  <2> QED BY <2>2, <2>3, <2>4, <2>5 DEF NoDoubleUse
<1> QED BY <1>1, InvAlways, PTL

(* A block is pinned once for every admitted sequence that shares it.      *)
THEOREM PinsCountSharers == Spec => []PinsExact
<1>1. Inv => PinsExact
  BY DEF Inv, Good, Counts, PinsExact
<1> QED BY <1>1, InvAlways, PTL

(* No block is lost: when nothing is admitted the whole pool is free.      *)
THEOREM NothingLeaks == Spec => []NoLeak
<1>1. Inv => NoLeak
  <2> SUFFICES ASSUME Inv PROVE NoLeak
    OBVIOUS
  <2>1. Good(kv, held) /\ Owners(kv, held) /\ Counts(kv, held) /\ kv.free \subseteq Blocks
    BY FieldTypes DEF Inv, Good
  <2>2. \A b \in Blocks : b \in kv.free \/ b \in Pinned \/ \E s \in held : b \in kv.alloc[s]
    BY <2>1 DEF Owners, Pinned
  <2>3. ASSUME held = {}, NEW b \in Blocks
        PROVE  b \notin Pinned
    <3>1. SharersOf(kv, held, b) = {}
      BY <2>3 DEF SharersOf
    <3>2. kv.pins[b] = 0
      BY <2>1, <3>1, FS_EmptySet DEF Counts
    <3> QED BY <3>2 DEF Pinned
  <2> QED BY <2>1, <2>2, <2>3 DEF NoLeak
<1> QED BY <1>1, InvAlways, PTL

(* An entry is referenced once for every admitted sequence that holds it,  *)
(* so that eviction, which looks at the count alone, takes no entry in use.*)
THEOREM RefsCountHolders == Spec => []RefsExact
<1>1. Inv => RefsExact
  BY DEF Inv, Good, Counts, Entries, RefsExact
<1> QED BY <1>1, InvAlways, PTL

-----------------------------------------------------------------------------
(* The accounting implements the ledger: the sequences that count on block *)
(* b in accounting K, and the blocks the cache has pinned.                 *)
ClaimsOn(K, H, b) == {t \in H : b \in K.alloc[t]} \cup SharersOf(K, H, b)
PinnedIn(K) == {b \in Blocks : K.pins[b] > 0}

(* A block is pinned exactly when the cache shares it with somebody, and   *)
(* no sequence then has it as its own.                                     *)
LEMMA PinnedIsShared ==
    ASSUME NEW K, NEW H, Good(K, H), NEW b \in Blocks
    PROVE  /\ K.pins[b] \in Nat
           /\ K.pins[b] > 0 <=> SharersOf(K, H, b) # {}
           /\ K.pins[b] > 0 => \A t \in Seqs : b \notin K.alloc[t]
           /\ b \in K.free <=> ClaimsOn(K, H, b) = {}
           /\ ClaimsOn(K, H, b) \subseteq H
<1>1. /\ K.pins \in [Blocks -> Nat] /\ H \subseteq Seqs /\ Owners(K, H)
      /\ K.pins[b] = Cardinality(SharersOf(K, H, b))
  BY FieldTypes DEF Good, Counts
<1>2. IsFiniteSet(SharersOf(K, H, b))
  BY <1>1, FiniteCounts DEF Good
<1>3. K.pins[b] > 0 <=> SharersOf(K, H, b) # {}
  BY <1>1, <1>2, FS_EmptySet
<1>4. K.pins[b] > 0 => \A t \in Seqs : b \notin K.alloc[t]
  BY <1>1 DEF Owners
<1>5. b \in K.free => ClaimsOn(K, H, b) = {}
  <2> SUFFICES ASSUME b \in K.free PROVE ClaimsOn(K, H, b) = {}
    OBVIOUS
  <2>1. K.pins[b] = 0 /\ \A t \in Seqs : b \notin K.alloc[t]
    BY <1>1 DEF Owners
  <2>2. SharersOf(K, H, b) = {}
    BY <1>3, <2>1
  <2> QED BY <1>1, <2>1, <2>2 DEF ClaimsOn
<1>6. ClaimsOn(K, H, b) = {} => b \in K.free
  <2> SUFFICES ASSUME ClaimsOn(K, H, b) = {} PROVE b \in K.free
    OBVIOUS
  <2>1. ~(K.pins[b] > 0)
    BY <1>3 DEF ClaimsOn
  <2>2. \A t \in Seqs : b \notin K.alloc[t]
    BY <1>1 DEF ClaimsOn, Owners
  <2> QED BY <1>1, <2>1, <2>2 DEF Owners
<1> QED BY <1>1, <1>3, <1>4, <1>5, <1>6 DEF ClaimsOn, SharersOf

(* An operation on behalf of s that leaves the accounting good is a step   *)
(* of the ledger on behalf of s.                                           *)
LEMMA OnBehalfIsLedgerStep ==
    ASSUME NEW K, NEW H, Good(K, H), NEW s \in Seqs,
           NEW L, NEW G, Good(L, G), G \ {s} = H \ {s}, OnBehalfOf(K, L, H, s),
           NEW b \in Blocks
    PROVE  /\ ClaimsOn(L, G, b) \ {s} = ClaimsOn(K, H, b) \ {s}
           /\ s \in ClaimsOn(L, G, b) \ ClaimsOn(K, H, b) => b \in K.free \cup PinnedIn(K)
           /\ b \in PinnedIn(L) \ PinnedIn(K) => ClaimsOn(L, G, b) = {s}
           /\ b \in PinnedIn(K) \ PinnedIn(L) => ClaimsOn(L, G, b) = {}
<1>1. /\ \A t \in Seqs : K.key[t] # NoKey => K.key[t] \in Keys
      /\ H \subseteq Seqs /\ G \subseteq Seqs
      /\ Owners(K, H)
  BY FieldTypes DEF Good
<1>2. /\ \A t \in Seqs \ {s} : L.alloc[t] = K.alloc[t] /\ L.key[t] = K.key[t]
      /\ \A t \in H \ {s} : K.key[t] \in Keys => L.blocks[K.key[t]] = K.blocks[K.key[t]]
      /\ b \in L.alloc[s] => b \in K.alloc[s] \/ b \in K.free
      /\ L.key[s] # NoKey /\ b \in L.blocks[L.key[s]] =>
            b \in K.free \/ K.pins[b] > 0 \/ b \in K.alloc[s]
  BY DEF OnBehalfOf
<1>3. \A t \in Seqs \ {s} : t \in SharersOf(L, G, b) <=> t \in SharersOf(K, H, b)
  BY <1>1, <1>2 DEF SharersOf
<1>4. \A t \in Seqs \ {s} : t \in ClaimsOn(L, G, b) <=> t \in ClaimsOn(K, H, b)
  BY <1>2, <1>3 DEF ClaimsOn
<1>5. ClaimsOn(L, G, b) \subseteq Seqs /\ ClaimsOn(K, H, b) \subseteq Seqs
  BY <1>1 DEF ClaimsOn, SharersOf
<1>6. b \in K.alloc[s] => s \in ClaimsOn(K, H, b)
  BY <1>1 DEF Owners, ClaimsOn
<1>7. s \in ClaimsOn(L, G, b) \ ClaimsOn(K, H, b) => b \in K.free \cup PinnedIn(K)
  BY <1>2, <1>6 DEF ClaimsOn, SharersOf, PinnedIn
<1>8. /\ K.pins[b] \in Nat /\ L.pins[b] \in Nat
      /\ K.pins[b] > 0 <=> SharersOf(K, H, b) # {}
      /\ L.pins[b] > 0 <=> SharersOf(L, G, b) # {}
      /\ K.pins[b] > 0 => \A t \in Seqs : b \notin K.alloc[t]
      /\ L.pins[b] > 0 => \A t \in Seqs : b \notin L.alloc[t]
  BY PinnedIsShared
<1>9. ASSUME b \in PinnedIn(L) \ PinnedIn(K)
      PROVE  ClaimsOn(L, G, b) = {s}
  <2>1. SharersOf(K, H, b) = {} /\ SharersOf(L, G, b) # {}
        /\ \A t \in Seqs : b \notin L.alloc[t]
    BY <1>8, <1>9 DEF PinnedIn
  <2>2. ClaimsOn(L, G, b) = SharersOf(L, G, b)
    BY <1>1, <2>1 DEF ClaimsOn
  <2>3. SharersOf(L, G, b) \subseteq {s}
    BY <1>3, <1>5, <2>1, <2>2
  <2> QED BY <2>1, <2>2, <2>3
<1>10. ASSUME b \in PinnedIn(K) \ PinnedIn(L)
       PROVE  ClaimsOn(L, G, b) = {}
  <2>1. SharersOf(L, G, b) = {} /\ \A t \in Seqs : b \notin K.alloc[t]
    BY <1>8, <1>10 DEF PinnedIn
  <2>2. b \notin K.free
    BY <1>1, <1>10 DEF PinnedIn, Owners
  <2>3. \A t \in Seqs : b \notin L.alloc[t]
    BY <1>2, <2>1, <2>2
  <2> QED BY <1>1, <2>1, <2>3 DEF ClaimsOn
<1> QED BY <1>4, <1>5, <1>7, <1>9, <1>10

(* The abstract step, in the words of the ledger.                          *)
LEMMA ActionIsLedgerStep ==
    ASSUME NEW s \in Seqs, Inv, Good(kv', held'), held' \ {s} = held \ {s},
           OnBehalfOf(kv, kv', held, s)
    PROVE  Ledger!Step(s)
<1>1. Good(kv, held)
  BY DEF Inv
<1>2. \A b \in Blocks : Claims[b] = ClaimsOn(kv, held, b)
  BY DEF Claims, ClaimsOn
<1>3. \A b \in Blocks : Claims'[b] = ClaimsOn(kv', held', b)
  BY DEF Claims, ClaimsOn, SharersOf
<1>4. Pinned = PinnedIn(kv) /\ Pinned' = PinnedIn(kv')
  BY DEF Pinned, PinnedIn
<1>5. Claims' \in [Blocks -> SUBSET Seqs]
  <2>1. Claims' = [b \in Blocks |-> Claims'[b]]
    BY DEF Claims
  <2>2. \A b \in Blocks : ClaimsOn(kv', held', b) \subseteq Seqs
    BY PinnedIsShared DEF Good
  <2> QED BY <1>3, <2>1, <2>2
<1>6. Pinned' \in SUBSET Blocks
  BY <1>4 DEF PinnedIn
<1>7. kv.free \subseteq Blocks /\ kv'.free \subseteq Blocks
  BY <1>1, FieldTypes DEF Good
<1>8. \A b \in Blocks : Claims'[b] \ {s} = Claims[b] \ {s}
  BY <1>1, <1>2, <1>3, OnBehalfIsLedgerStep
<1>9. \A b \in Blocks : s \in Claims'[b] \ Claims[b] => b \in kv.free \cup Pinned
  BY <1>1, <1>2, <1>3, <1>4, OnBehalfIsLedgerStep
<1>10. \A b \in Blocks : /\ b \in Pinned' \ Pinned => Claims'[b] = {s}
                         /\ b \in Pinned \ Pinned' => Claims'[b] = {}
  BY <1>1, <1>2, <1>3, <1>4, OnBehalfIsLedgerStep
<1>11. kv'.free = {b \in Blocks : Claims'[b] = {}}
  BY <1>3, <1>7, PinnedIsShared
<1> QED BY <1>5, <1>6, <1>8, <1>9, <1>10, <1>11
        DEF Ledger!Step, Ledger!OthersKeepTheirs, Ledger!GainsAreAllowed,
            Ledger!SharingIsByOwner, Ledger!Unclaimed

(* An action of the accounting takes a step on behalf of its sequence.     *)
LEMMA NextImplementsLedger == Inv /\ Inv' /\ [Next]_vars => [Ledger!Next]_(Ledger!vars)
<1> SUFFICES ASSUME Inv, Inv', [Next]_vars
             PROVE  [Ledger!Next]_(Ledger!vars)
  OBVIOUS
<1>0. /\ Good(kv, held) /\ Good(kv', held')
      /\ \A s \in Seqs : s \notin held \cup done => kv.key[s] = NoKey
  BY DEF Inv
<1>1. ASSUME NEW s \in Seqs, Admit(s)
      PROVE  Ledger!Step(s)
  <2>1. s \notin held /\ s \notin done /\ kv' \in Admitted(kv, s) /\ held' = held \cup {s}
    BY <1>1 DEF Admit
  <2>2. OnBehalfOf(kv, kv', held, s)
    BY <1>0, <2>1, AdmittedGood
  <2> QED BY <1>0, <2>1, <2>2, ActionIsLedgerStep
<1>2. ASSUME NEW s \in Seqs, Refuse(s)
      PROVE  Ledger!Step(s)
  <2>1. s \notin held /\ s \notin done /\ kv' \in Refused(kv, s) /\ held' = held
    BY <1>2 DEF Refuse
  <2>2. OnBehalfOf(kv, kv', held, s)
    BY <1>0, <2>1, RefusedGood
  <2> QED BY <1>0, <2>1, <2>2, ActionIsLedgerStep
<1>3. ASSUME NEW s \in Seqs, Bind(s)
      PROVE  Ledger!Step(s)
  <2>1. s \in held /\ kv' \in LateBind(kv, s) /\ held' = held
    BY <1>3 DEF Bind
  <2>2. OnBehalfOf(kv, kv', held, s)
    BY <1>0, <2>1, LateBindGood
  <2> QED BY <1>0, <2>1, <2>2, ActionIsLedgerStep
<1>4. ASSUME NEW s \in Seqs, Store(s)
      PROVE  Ledger!Step(s)
  <2>1. s \in held /\ held' = held
    BY <1>4 DEF Store
  <2>2. PICK n \in CandidateLengths(s) : kv' \in Insert(kv, s, n)
    BY <1>4 DEF Store
  <2>3. kv'.alloc = kv.alloc /\ kv'.key = kv.key /\ kv'.blocks = kv.blocks
    BY <1>0, <2>1, <2>2, InsertGood
  <2>4. OnBehalfOf(kv, kv', held, s)
    BY <1>0, <2>1, <2>3, SameIsOnBehalf
  <2> QED BY <1>0, <2>1, <2>4, ActionIsLedgerStep
<1>5. ASSUME NEW s \in Seqs, AdoptEntry(s)
      PROVE  Ledger!Step(s)
  <2>1. s \in held /\ kv' \in Adopt(kv, s) /\ held' = held
    BY <1>5 DEF AdoptEntry
  <2>2. OnBehalfOf(kv, kv', held, s)
    BY <1>0, <2>1, AdoptGood
  <2> QED BY <1>0, <2>1, <2>2, ActionIsLedgerStep
<1>6. ASSUME NEW s \in Seqs, Retire(s)
      PROVE  Ledger!Step(s)
  <2>1. s \notin done /\ kv' = ReleaseSeq(kv, s) /\ held' = held \ {s}
    BY <1>6 DEF Retire
  <2>2. OnBehalfOf(kv, kv', held, s)
    BY <1>0, <2>1, ReleaseSeqGood
  <2> QED BY <1>0, <2>1, <2>2, ActionIsLedgerStep
<1>7. ASSUME UNCHANGED vars
      PROVE  UNCHANGED Ledger!vars
  BY <1>7 DEF vars, Ledger!vars, Claims, Pinned, SharersOf
<1> QED BY <1>1, <1>2, <1>3, <1>4, <1>5, <1>6, <1>7 DEF Next, Ledger!Next

(* The initial pool has nothing claimed.                                   *)
LEMMA InitImplementsLedger == Init => Ledger!Init
<1> SUFFICES ASSUME Init PROVE Ledger!Init
  OBVIOUS
<1>1. kv = InitKv /\ held = {}
  BY DEF Init
<1>2. Claims = [b \in Blocks |-> {}]
  BY <1>1 DEF Claims, SharersOf
<1>3. kv.free = Blocks /\ Pinned = {}
  BY <1>1 DEF InitKv, Pinned
<1> QED BY <1>2, <1>3 DEF Ledger!Init

(* The accounting implements BlockLedger: whatever is shared, adopted,     *)
(* evicted or released on behalf of one request, no other request loses a  *)
(* block it counts on, and a block is free exactly when nobody does.       *)
THEOREM ImplementsLedger == Spec => LedgerSpec
BY InvAlways, InitImplementsLedger, NextImplementsLedger, PTL
   DEF Spec, LedgerSpec, Ledger!Spec

-----------------------------------------------------------------------------
(* The blocks suffice: a sequence's own blocks and those its prefix takes  *)
(* hold its prompt and every token it may generate.                        *)
Covered(K, s) ==
    ReservationTokens(s) <= BlockSize * (Cardinality(K.alloc[s]) + BlocksNeeded(Len(K.key[s])))

(* Rounding up to whole blocks loses nothing.                              *)
LEMMA BlocksNeededRoundsUp ==
    ASSUME NEW n \in Int
    PROVE  BlocksNeeded(n) \in Nat /\ n <= BlockSize * BlocksNeeded(n)
<1>1. BlockSize \in Nat /\ BlockSize >= 1
  BY BlockSizeAssumption
<1>2. CASE n <= 0
  BY <1>1, <1>2 DEF BlocksNeeded
<1>3. CASE n >= 1
  <2> DEFINE q == (n + BlockSize - 1) \div BlockSize
             r == (n + BlockSize - 1) % BlockSize
  <2>1. q \in Int /\ r \in 0 .. BlockSize - 1 /\ n + BlockSize - 1 = BlockSize * q + r
    BY <1>1
  <2>2. BlocksNeeded(n) = q
    BY <1>3 DEF BlocksNeeded
  <2>3. q \in Nat
    BY <1>1, <1>3
  <2> HIDE DEF q, r
  <2>4. n <= BlockSize * q
    <3> DEFINE m == BlockSize * q
    <3>1. m \in Int
      BY <1>1, <2>1
    <3> HIDE DEF m
    <3>2. n + BlockSize - 1 = m + r
      BY <2>1 DEF m
    <3>3. n <= m
      BY <1>1, <2>1, <3>1, <3>2
    <3> QED BY <3>3 DEF m
  <2> QED BY <2>2, <2>3, <2>4
<1> QED BY <1>2, <1>3

(* The lengths the reservation is made of.                                 *)
LEMMA KeyLengths ==
    ASSUME NEW K \in KvType, NEW s \in Seqs
    PROVE  /\ ReservationTokens(s) \in Nat
           /\ Len(K.key[s]) \in Nat
           /\ IsFiniteSet(K.alloc[s]) /\ Cardinality(K.alloc[s]) \in Nat
           /\ K.key[s] = NoKey => BlocksNeeded(Len(K.key[s])) = 0
<1>1. ReservationTokens(s) \in Nat
  BY PromptAssumption, LengthAssumption DEF ReservationTokens
<1>2. Len(K.key[s]) \in Nat
  <2>1. CASE K.key[s] = NoKey
    BY <2>1 DEF NoKey
  <2>2. CASE K.key[s] \in Keys
    <3>1. PICK t \in Seqs : \E n \in MinTokens .. Len(PromptOf[t]) : K.key[s] = PrefixOf(t, n)
      BY <2>2 DEF Keys
    <3> PICK n \in MinTokens .. Len(PromptOf[t]) : K.key[s] = PrefixOf(t, n)
      BY <3>1
    <3>2. PromptOf[t] \in Seq(Tokens) /\ n \in Nat /\ n <= Len(PromptOf[t]) /\ n >= 1
      BY PromptAssumption, MinAssumption
    <3>3. Len(SubSeq(PromptOf[t], 1, n)) = n
      BY <3>2
    <3> QED BY <3>2, <3>3 DEF PrefixOf
  <2> QED BY <2>1, <2>2, FieldTypes
<1>3. IsFiniteSet(K.alloc[s])
  BY FieldTypes, FS_Subset, BlocksAssumption
<1>4. Cardinality(K.alloc[s]) \in Nat
  BY <1>3, FS_CardinalityType
<1> QED BY <1>1, <1>2, <1>3, <1>4 DEF BlocksNeeded, NoKey

(* _try_allocate: the reservation less what the prefix pays for.           *)
LEMMA AdmittedCovers ==
    ASSUME NEW K, NEW H, Good(K, H), NEW s \in Seqs, s \notin H, K.key[s] = NoKey,
           NEW L \in Admitted(K, s)
    PROVE  Covered(L, s)
<1>1. PICK l \in LookedUp(K, s) :
         \E ids \in Reservations(l, OwnTokens(l, s)) : L = Allocate(l, s, ids)
  BY DEF Admitted
<1>2. PICK ids \in Reservations(l, OwnTokens(l, s)) : L = Allocate(l, s, ids)
  BY <1>1
<1>3. ids \in SUBSET l.free /\ Cardinality(ids) = BlocksNeeded(OwnTokens(l, s))
  BY <1>2 DEF Reservations, kSubset
<1>4. l \in KvType
  <2>1. Good(K, H \cup {s})
    BY JoinOrLeave, NotAdmittedOwnsNothing DEF Good
  <2> QED BY <2>1, LookedUpGood DEF Good
<1>5. L.alloc[s] = ids /\ L.key[s] = l.key[s]
  <2>1. ids \in SUBSET Blocks
    BY <1>3, <1>4, FieldTypes
  <2> QED BY <1>2, <1>4, <2>1, AllocateFields DEF SameCache
<1> DEFINE n == ReservationTokens(s)
           m == Len(l.key[s])
<1>6. n \in Nat /\ m \in Nat
  BY <1>4, KeyLengths
<1>7. OwnTokens(l, s) = n - m
  BY DEF OwnTokens
<1> HIDE DEF n, m
<1>8. /\ n - m <= BlockSize * BlocksNeeded(n - m) /\ m <= BlockSize * BlocksNeeded(m)
      /\ BlocksNeeded(n - m) \in Nat /\ BlocksNeeded(m) \in Nat
  BY <1>6, BlocksNeededRoundsUp
<1>9. BlockSize * (BlocksNeeded(n - m) + BlocksNeeded(m))
        = BlockSize * BlocksNeeded(n - m) + BlockSize * BlocksNeeded(m)
  BY <1>8, BlockSizeAssumption
<1>10. n <= BlockSize * (BlocksNeeded(n - m) + BlocksNeeded(m))
  BY <1>6, <1>8, <1>9, BlockSizeAssumption
<1> QED BY <1>3, <1>5, <1>7, <1>10 DEF Covered, n, m

(* A sequence that trades n of its own blocks for a prefix of n blocks.    *)
LEMMA TradeCovers ==
    ASSUME NEW K \in KvType, NEW L \in KvType, NEW s \in Seqs,
           K.key[s] = NoKey, Covered(K, s),
           NEW ids \in Detachable(K, s, BlocksNeeded(Len(L.key[s]))),
           L.alloc[s] = K.alloc[s] \ ids
    PROVE  Covered(L, s)
<1> DEFINE n == BlocksNeeded(Len(L.key[s]))
           c == Cardinality(K.alloc[s])
           d == Cardinality(L.alloc[s])
           r == ReservationTokens(s)
<1>1. n \in Nat /\ c \in Nat /\ d \in Nat /\ r \in Nat
  <2>1. Len(L.key[s]) \in Int
    BY KeyLengths
  <2>2. n \in Nat
    BY <2>1, BlocksNeededRoundsUp
  <2> QED BY <2>2, KeyLengths
<1>2. IsFiniteSet(K.alloc[s]) /\ BlocksNeeded(Len(K.key[s])) = 0
  BY KeyLengths
<1>3. ids \in SUBSET K.alloc[s] /\ Cardinality(ids) = AtMost(n, c)
  BY DEF Detachable, kSubset
<1>4. K.alloc[s] \cap ids = ids
  BY <1>3
<1>5. d = c - AtMost(n, c)
  <2>1. Cardinality(K.alloc[s] \ ids) = c - Cardinality(K.alloc[s] \cap ids)
    BY <1>2, FS_Difference
  <2> QED BY <1>3, <1>4, <2>1
<1>6. c <= d + n
  BY <1>1, <1>5 DEF AtMost
<1>7. r <= BlockSize * c
  <2>1. r <= BlockSize * (c + 0)
    BY <1>2 DEF Covered
  <2> QED BY <1>1, <2>1
<1> HIDE DEF n, c, d, r
<1>8. BlockSize * c <= BlockSize * (d + n)
  BY <1>1, <1>6, BlockSizeAssumption
<1>9. r <= BlockSize * (d + n)
  BY <1>1, <1>7, <1>8, BlockSizeAssumption
<1> QED BY <1>9 DEF Covered, n, d, r

(* A prefix bound late, and the entry of the own prompt adopted, take no   *)
(* more of the sequence's blocks than they bring.                          *)
LEMMA LateBindCovers ==
    ASSUME NEW K, NEW H, Good(K, H), NEW s \in H, Covered(K, s), NEW L \in LateBind(K, s)
    PROVE  Covered(L, s)
<1>1. CASE K.key[s] # NoKey
  BY <1>1 DEF LateBind
<1>2. CASE K.key[s] = NoKey
  <2>1. PICK l \in LookedUp(K, s) :
           \E ids \in Detachable(l, s, BlocksNeeded(Len(l.key[s]))) :
              L = Release(Detach(l, s, ids), ids)
    BY <1>2 DEF LateBind
  <2>2. PICK ids \in Detachable(l, s, BlocksNeeded(Len(l.key[s]))) :
           L = Release(Detach(l, s, ids), ids)
    BY <2>1
  <2>3. Good(l, H) /\ l.alloc = K.alloc
    BY <1>2, LookedUpGood
  <2>4. /\ l \in KvType /\ K \in KvType /\ s \in Seqs /\ ids \in SUBSET Blocks
    BY <2>2, <2>3, FieldTypes DEF Good, Detachable, kSubset
  <2>5. PICK D : D = Detach(l, s, ids)
    OBVIOUS
  <2>6. D \in KvType /\ D.key = l.key /\ D.alloc[s] = l.alloc[s] \ ids
    BY <2>4, <2>5, DetachFields DEF SameCache
  <2>7. L \in KvType /\ L.key = D.key /\ L.alloc = D.alloc
    BY <2>2, <2>4, <2>5, <2>6, ReleaseFields DEF SameCache
  <2>8. ids \in Detachable(K, s, BlocksNeeded(Len(L.key[s])))
    BY <2>2, <2>3, <2>6, <2>7 DEF Detachable
  <2> QED BY <1>2, <2>3, <2>4, <2>6, <2>7, <2>8, TradeCovers
<1> QED BY <1>1, <1>2

(* An adopted entry accounts for the blocks it takes from the sequence, so *)
(* the sequence has as much room as before.                                *)
LEMMA AdoptCovers ==
    ASSUME NEW K, NEW H, Good(K, H), NEW s \in H, Covered(K, s), NEW L \in Adopt(K, s)
    PROVE  Covered(L, s)
<1> DEFINE k == PromptOf[s]
<1>0. K \in KvType /\ s \in Seqs /\ L \in KvType
  BY AdoptGood DEF Good
<1>1. CASE K.key[s] # NoKey \/ k \notin K.stored
  BY <1>1 DEF Adopt
<1>2. CASE K.key[s] = NoKey /\ k \in K.stored /\ K.refs[k] > 0
  <2>1. PICK A \in Acquire(K, k) : L = [A EXCEPT !.key[s] = k]
    BY <1>2 DEF Adopt
  <2> HIDE DEF k
  <2>2. PICK ids : Acquired(K, A, k, ids)
    BY <1>2, AcquireTakes
  <2>3. A \in KvType /\ A.alloc = K.alloc /\ k \in Keys
    BY <1>0, <1>2, <2>2, FieldTypes DEF Acquired
  <2>4. L.alloc = K.alloc
    BY <1>0, <2>1, <2>3, KeyFields
  <2> DEFINE n == BlocksNeeded(Len(L.key[s]))
             c == Cardinality(K.alloc[s])
             r == ReservationTokens(s)
  <2>5. n \in Nat /\ c \in Nat /\ r \in Nat /\ BlocksNeeded(Len(K.key[s])) = 0
    BY <1>0, <1>2, KeyLengths, BlocksNeededRoundsUp
  <2>6. r <= BlockSize * (c + 0)
    BY <2>5 DEF Covered
  <2>7. L.alloc[s] = K.alloc[s]
    BY <2>4
  <2>8. Covered(L, s) <=> r <= BlockSize * (c + n)
    BY <2>7 DEF Covered
  <2> HIDE DEF n, c, r
  <2>9. BlockSize * (c + 0) <= BlockSize * (c + n)
    BY <2>5, BlockSizeAssumption
  <2>10. r <= BlockSize * (c + n)
    BY <2>5, <2>6, <2>9, BlockSizeAssumption
  <2> QED BY <2>8, <2>10
<1>3. CASE K.key[s] = NoKey /\ k \in K.stored /\ ~(K.refs[k] > 0)
  <2>1. PICK ids \in Detachable(K, s, BlocksNeeded(Len(k))) :
           L = [Touch(AddRef(Detach(K, s, ids), k, ids), k) EXCEPT !.key[s] = k]
    BY <1>3 DEF Adopt
  <2> HIDE DEF k
  <2>2. ids \in SUBSET Blocks /\ k \in Keys
    BY <1>0, <1>3, <2>1, FieldTypes DEF Detachable, kSubset
  <2>3. PICK D : D = Detach(K, s, ids)
    OBVIOUS
  <2>4. D \in KvType /\ D.alloc[s] = K.alloc[s] \ ids
    BY <1>0, <2>2, <2>3, DetachFields
  <2>5. PICK A : A = AddRef(D, k, ids)
    OBVIOUS
  <2>6. /\ A \in KvType
        /\ A.free = D.free /\ A.alloc = D.alloc /\ A.stored = D.stored /\ A.key = D.key
        /\ A.blocks = [D.blocks EXCEPT ![k] = ids]
        /\ A.refs = [D.refs EXCEPT ![k] = @ + 1] /\ TakesPins(D, A, ids)
    BY <2>2, <2>4, <2>5, AddRefFields, SMTT(20)
  <2>7. PICK T : T = Touch(A, k)
    OBVIOUS
  <2>8. T \in KvType /\ T.alloc = A.alloc
    BY <2>2, <2>6, <2>7, TouchFields
  <2>9. L.alloc = T.alloc /\ L.key[s] = k
    BY <1>0, <2>1, <2>2, <2>3, <2>5, <2>7, <2>8, KeyFields
  <2>10. L.alloc[s] = K.alloc[s] \ ids
    BY <2>4, <2>6, <2>8, <2>9
  <2> QED BY <1>0, <1>3, <2>1, <2>9, <2>10, TradeCovers
<1> QED BY <1>1, <1>2, <1>3

(* The admitted sequences have room for all they reserved, always.         *)
BlocksSuffice == \A s \in held : Covered(kv, s)

(* An operation on behalf of s leaves what covers the others as it is.     *)
LEMMA OthersStayCovered ==
    ASSUME NEW K, NEW L, NEW H, NEW s, OnBehalfOf(K, L, H, s),
           NEW t \in Seqs \ {s}, Covered(K, t)
    PROVE  Covered(L, t)
BY DEF OnBehalfOf, Covered

(* Every action keeps what has been reserved, for every sequence.          *)
LEMMA NextSuffices == Inv /\ BlocksSuffice /\ [Next]_vars => BlocksSuffice'
<1> SUFFICES ASSUME Inv, BlocksSuffice, [Next]_vars PROVE BlocksSuffice'
  OBVIOUS
<1>0. /\ Good(kv, held) /\ held \subseteq Seqs
      /\ \A s \in Seqs : s \notin held \cup done => kv.key[s] = NoKey
      /\ \A s \in held : Covered(kv, s)
  BY DEF Inv, Good, BlocksSuffice
<1> SUFFICES \A s \in held' : Covered(kv', s)
  BY DEF BlocksSuffice, Covered
<1>1. ASSUME NEW s \in Seqs, Admit(s)
      PROVE  \A t \in held' : Covered(kv', t)
  <2>1. /\ s \notin held /\ s \notin done /\ kv' \in Admitted(kv, s) /\ held' = held \cup {s}
        /\ kv.key[s] = NoKey
    BY <1>0, <1>1 DEF Admit
  <2>2. OnBehalfOf(kv, kv', held, s) /\ Covered(kv', s)
    BY <1>0, <2>1, AdmittedGood, AdmittedCovers
  <2> QED BY <1>0, <2>1, <2>2, OthersStayCovered
<1>2. ASSUME NEW s \in Seqs, Refuse(s)
      PROVE  \A t \in held' : Covered(kv', t)
  <2>1. /\ s \notin held /\ s \notin done /\ kv' \in Refused(kv, s) /\ held' = held
        /\ kv.key[s] = NoKey
    BY <1>0, <1>2 DEF Refuse
  <2>2. OnBehalfOf(kv, kv', held, s)
    BY <1>0, <2>1, RefusedGood
  <2> QED BY <1>0, <2>1, <2>2, OthersStayCovered
<1>3. ASSUME NEW s \in Seqs, Bind(s)
      PROVE  \A t \in held' : Covered(kv', t)
  <2>1. s \in held /\ kv' \in LateBind(kv, s) /\ held' = held
    BY <1>3 DEF Bind
  <2>2. OnBehalfOf(kv, kv', held, s) /\ Covered(kv', s)
    BY <1>0, <2>1, LateBindGood, LateBindCovers
  <2> QED BY <1>0, <2>1, <2>2, OthersStayCovered
<1>4. ASSUME NEW s \in Seqs, Store(s)
      PROVE  \A t \in held' : Covered(kv', t)
  <2>1. s \in held /\ held' = held
    BY <1>4 DEF Store
  <2>2. PICK n \in CandidateLengths(s) : kv' \in Insert(kv, s, n)
    BY <1>4 DEF Store
  <2>3. kv'.alloc = kv.alloc /\ kv'.key = kv.key
    BY <1>0, <2>1, <2>2, InsertGood
  <2> QED BY <1>0, <2>1, <2>3 DEF Covered
<1>5. ASSUME NEW s \in Seqs, AdoptEntry(s)
      PROVE  \A t \in held' : Covered(kv', t)
  <2>1. s \in held /\ kv' \in Adopt(kv, s) /\ held' = held
    BY <1>5 DEF AdoptEntry
  <2>2. OnBehalfOf(kv, kv', held, s) /\ Covered(kv', s)
    BY <1>0, <2>1, AdoptGood, AdoptCovers
  <2> QED BY <1>0, <2>1, <2>2, OthersStayCovered
<1>6. ASSUME NEW s \in Seqs, Retire(s)
      PROVE  \A t \in held' : Covered(kv', t)
  <2>1. s \notin done /\ kv' = ReleaseSeq(kv, s) /\ held' = held \ {s}
    BY <1>6 DEF Retire
  <2>2. OnBehalfOf(kv, kv', held, s)
    BY <1>0, <2>1, ReleaseSeqGood
  <2> QED BY <1>0, <2>1, <2>2, OthersStayCovered
<1>7. CASE UNCHANGED vars
  BY <1>0, <1>7 DEF vars
<1> QED BY <1>1, <1>2, <1>3, <1>4, <1>5, <1>6, <1>7 DEF Next

(* From its admission to its release a sequence has the room it reserved:  *)
(* no late bind and no adoption leaves it short.                           *)
THEOREM ReservationsHold == Spec => []BlocksSuffice
<1>1. Init => BlocksSuffice
  BY DEF Init, BlocksSuffice
<1> QED BY <1>1, NextSuffices, InvAlways, PTL DEF Spec

-----------------------------------------------------------------------------
(* Which entries are stored, and to which a sequence is bound: what the    *)
(* contents of the cache depend on.                                        *)

(* A lookup stores nothing and evicts nothing; what it binds is a hit.     *)
BindsHit(K, L, s) ==
    L.stored = K.stored /\ (L.key[s] = NoKey \/ L.key[s] \in Hits(K, s))

(* lookup.                                                                 *)
LEMMA LookedUpBinds ==
    ASSUME NEW K, NEW H, Good(K, H), NEW s \in H, K.key[s] = NoKey,
           NEW L \in LookedUp(K, s)
    PROVE  BindsHit(K, L, s) /\ L \in KvType
<1>0. K \in KvType /\ s \in Seqs
  BY DEF Good
<1>1. CASE L = K
  BY <1>0, <1>1 DEF BindsHit
<1>2. CASE \E k \in Hits(K, s) : L \in Lookup(K, s, k)
  <2>1. PICK k \in Hits(K, s) : L \in Lookup(K, s, k)
    BY <1>2
  <2>2. k \in K.stored /\ k \in Keys
    BY <1>0, <2>1, FieldTypes DEF Hits
  <2>3. PICK A \in Acquire(K, k) : L = [Touch(A, k) EXCEPT !.key[s] = k]
    BY <2>1 DEF Lookup
  <2>4. A \in KvType /\ A.stored = K.stored
    <3>1. PICK ids : Acquired(K, A, k, ids)
      BY <2>2, AcquireTakes
    <3> QED BY <3>1 DEF Acquired
  <2>5. PICK T : T = Touch(A, k)
    OBVIOUS
  <2>6. T \in KvType /\ T.stored = A.stored
    BY <2>2, <2>4, <2>5, TouchFields
  <2>7. L \in KvType /\ L.stored = T.stored /\ L.key[s] = k
    BY <1>0, <2>2, <2>3, <2>5, <2>6, KeyFields
  <2> QED BY <2>1, <2>4, <2>6, <2>7 DEF BindsHit
<1> QED BY <1>1, <1>2 DEF LookedUp

(* Scheduler._try_allocate that succeeds.                                  *)
LEMMA AdmittedBinds ==
    ASSUME NEW K, NEW H, Good(K, H), NEW s \in Seqs, s \notin H, K.key[s] = NoKey,
           NEW L \in Admitted(K, s)
    PROVE  BindsHit(K, L, s)
<1> DEFINE G == H \cup {s}
<1>1. K.alloc[s] = {} /\ H \in SUBSET Seqs /\ G \in SUBSET Seqs /\ G \ {s} = H \ {s}
  BY NotAdmittedOwnsNothing DEF Good
<1>2. Good(K, G) /\ s \in G
  BY <1>1, JoinOrLeave
<1> HIDE DEF G
<1>3. PICK l \in LookedUp(K, s) :
         \E ids \in Reservations(l, OwnTokens(l, s)) : L = Allocate(l, s, ids)
  BY DEF Admitted
<1>4. PICK ids \in SUBSET l.free : L = Allocate(l, s, ids)
  BY <1>3 DEF Reservations, kSubset
<1>5. BindsHit(K, l, s) /\ l \in KvType
  BY <1>2, LookedUpBinds
<1>6. ids \in SUBSET Blocks
  BY <1>5, FieldTypes
<1>7. L.stored = l.stored /\ L.key = l.key
  BY <1>4, <1>5, <1>6, AllocateFields DEF SameCache
<1> QED BY <1>5, <1>7 DEF BindsHit

(* worker._bind_prefix_at_prefill.                                         *)
LEMMA LateBindBinds ==
    ASSUME NEW K, NEW H, Good(K, H), NEW s \in H, NEW L \in LateBind(K, s)
    PROVE  IF K.key[s] # NoKey THEN L = K ELSE BindsHit(K, L, s)
<1>1. CASE K.key[s] # NoKey
  BY <1>1 DEF LateBind
<1>2. CASE K.key[s] = NoKey
  <2>1. PICK l \in LookedUp(K, s) :
           \E ids \in SUBSET l.alloc[s] : L = Release(Detach(l, s, ids), ids)
    BY <1>2 DEF LateBind, Detachable, kSubset
  <2>2. PICK ids \in SUBSET l.alloc[s] : L = Release(Detach(l, s, ids), ids)
    BY <2>1
  <2>3. BindsHit(K, l, s) /\ l \in KvType
    BY <1>2, LookedUpBinds
  <2>4. s \in Seqs /\ ids \in SUBSET Blocks
    BY <2>3, FieldTypes DEF Good
  <2>5. PICK D : D = Detach(l, s, ids)
    OBVIOUS
  <2>6. D \in KvType /\ SameCache(l, D)
    BY <2>3, <2>4, <2>5, DetachFields
  <2>7. SameCache(D, L)
    BY <2>2, <2>4, <2>5, <2>6, ReleaseFields
  <2>8. L.stored = l.stored /\ L.key = l.key
    BY <2>6, <2>7 DEF SameCache
  <2> QED BY <1>2, <2>3, <2>8 DEF BindsHit
<1> QED BY <1>1, <1>2

(* insert stores the prefix it is about, at most, and may evict others.    *)
LEMMA InsertStores ==
    ASSUME NEW K, NEW H, Good(K, H), NEW s \in H, NEW n \in CandidateLengths(s),
           NEW L \in Insert(K, s, n)
    PROVE  L.stored \subseteq K.stored \cup {PrefixOf(s, n)}
<1>0. K \in KvType /\ s \in Seqs
  BY DEF Good
<1>1. PICK k : k = PrefixOf(s, n)
  OBVIOUS
<1>2. k \in Keys
  BY <1>0, <1>1 DEF CandidateLengths, Keys
<1>3. ASSUME NEW D \in KvType, L = AddEntry(D, k)
      PROVE  L.stored = D.stored \cup {k}
  <2>1. PICK A : A = [D EXCEPT !.stored = @ \cup {k}]
    OBVIOUS
  <2>2. D.stored \cup {k} \in SUBSET Keys
    BY <1>2, <1>3, FieldTypes
  <2>3. A \in KvType /\ A.stored = D.stored \cup {k}
    BY <1>3, <2>1, <2>2 DEF KvType
  <2>4. L = Touch(A, k)
    BY <1>3, <2>1 DEF AddEntry
  <2> QED BY <1>2, <2>3, <2>4, TouchFields
<1>4. CASE L = K
  BY <1>4
<1>5. CASE L = AddEntry(K, k)
  BY <1>0, <1>1, <1>3, <1>5
<1>6. CASE \E v \in Victims(K) : L = AddEntry(DropEntry(K, v), k)
  <2>1. PICK v \in K.stored : L = AddEntry(DropEntry(K, v), k)
    BY <1>6 DEF Victims, Unused
  <2>2. v \in Keys /\ K.blocks[v] \in SUBSET Blocks
    BY <1>0, <2>1, FieldTypes
  <2>3. PICK U : U = Unpin(K, K.blocks[v])
    OBVIOUS
  <2>4. U \in KvType /\ U.stored = K.stored
    BY <1>0, <2>2, <2>3, UnpinFields
  <2>5. PICK D : D = DropEntry(K, v)
    OBVIOUS
  <2>6. /\ U.blocks \in [Keys -> SUBSET Blocks] /\ U.older \in SUBSET (Keys \X Keys)
        /\ U.stored \in SUBSET Keys
    BY <2>4, FieldTypes
  <2> DEFINE blocks == [U.blocks EXCEPT ![v] = {}]
             older  == {p \in U.older : p[1] # v /\ p[2] # v}
  <2>7. D = [U EXCEPT !.stored = U.stored \ {v}, !.blocks = blocks, !.older = older]
    <3>1. D = [U EXCEPT !.stored = @ \ {v}, !.blocks[v] = {},
                        !.older = {p \in @ : p[1] # v /\ p[2] # v}]
      BY <2>3, <2>5 DEF DropEntry
    <3>2. D = [U EXCEPT !.stored = @ \ {v}, !.blocks[v] = {}, !.older = older]
      BY <2>4, <3>1 DEF KvType
    <3> HIDE DEF older
    <3>3. D = [U EXCEPT !.stored = U.stored \ {v}, !.blocks[v] = {}, !.older = older]
      BY <2>4, <3>2 DEF KvType
    <3> QED BY <2>2, <2>4, <3>3 DEF KvType
  <2>8. /\ blocks \in [Keys -> SUBSET Blocks] /\ older \in SUBSET (Keys \X Keys)
        /\ U.stored \ {v} \in SUBSET Keys
    BY <2>2, <2>6
  <2> HIDE DEF blocks, older
  <2>9. D \in KvType /\ D.stored = U.stored \ {v}
    BY <2>4, <2>7, <2>8 DEF KvType
  <2>10. L.stored = D.stored \cup {k}
    BY <1>3, <2>1, <2>5, <2>9
  <2> QED BY <1>1, <2>4, <2>9, <2>10
<1> QED BY <1>1, <1>4, <1>5, <1>6 DEF Insert

(* adopt stores nothing.                                                   *)
LEMMA AdoptKeepsStored ==
    ASSUME NEW K, NEW H, Good(K, H), NEW s \in H, NEW L \in Adopt(K, s)
    PROVE  L.stored = K.stored
<1>0. K \in KvType /\ s \in Seqs
  BY DEF Good
<1>1. PICK k : k = PromptOf[s]
  OBVIOUS
<1>2. CASE K.key[s] # NoKey \/ k \notin K.stored
  BY <1>1, <1>2 DEF Adopt
<1>3. CASE K.key[s] = NoKey /\ k \in K.stored /\ K.refs[k] > 0
  <2>1. PICK A \in Acquire(K, k) : L = [A EXCEPT !.key[s] = k]
    BY <1>1, <1>3 DEF Adopt
  <2>2. A \in KvType /\ A.stored = K.stored /\ k \in Keys
    <3>1. PICK ids : Acquired(K, A, k, ids)
      BY <1>3, AcquireTakes
    <3>2. A \in KvType /\ A.stored = K.stored
      BY <3>1 DEF Acquired
    <3> QED BY <1>0, <1>3, <3>2, FieldTypes
  <2>3. L.stored = A.stored
    BY <1>0, <2>1, <2>2, KeyFields
  <2> QED BY <2>2, <2>3
<1>4. CASE K.key[s] = NoKey /\ k \in K.stored /\ ~(K.refs[k] > 0)
  <2>1. PICK ids \in SUBSET K.alloc[s] :
           L = [Touch(AddRef(Detach(K, s, ids), k, ids), k) EXCEPT !.key[s] = k]
    BY <1>1, <1>4 DEF Adopt, Detachable, kSubset
  <2>2. ids \in SUBSET Blocks /\ k \in Keys
    BY <1>0, <1>4, FieldTypes
  <2>3. PICK D : D = Detach(K, s, ids)
    OBVIOUS
  <2>4. D \in KvType /\ D.stored = K.stored
    BY <1>0, <2>2, <2>3, DetachFields DEF SameCache
  <2>5. PICK A : A = AddRef(D, k, ids)
    OBVIOUS
  <2>6. A \in KvType /\ A.stored = D.stored
    BY <2>2, <2>4, <2>5, AddRefFields
  <2>7. PICK T : T = Touch(A, k)
    OBVIOUS
  <2>8. T \in KvType /\ T.stored = A.stored
    BY <2>2, <2>6, <2>7, TouchFields
  <2>9. L.stored = T.stored
    BY <1>0, <2>1, <2>2, <2>3, <2>5, <2>7, <2>8, KeyFields
  <2> QED BY <2>4, <2>6, <2>8, <2>9
<1> QED BY <1>2, <1>3, <1>4

(* _release takes no entry out of the cache.                               *)
LEMMA ReleaseSeqKeepsStored ==
    ASSUME NEW K \in KvType, NEW s \in Seqs
    PROVE  ReleaseSeq(K, s).stored = K.stored
<1>1. PICK k : k = K.key[s]
  OBVIOUS
<1>2. PICK R : R = ReleaseKey(K, k)
  OBVIOUS
<1>3. R \in KvType /\ R.stored = K.stored
  <2>1. CASE k \in K.stored /\ K.refs[k] > 0
    <3>1. k \in Keys /\ K.blocks[k] \in SUBSET Blocks
      BY <2>1, FieldTypes
    <3>2. PICK U : U = Unpin(K, K.blocks[k])
      OBVIOUS
    <3>3. U \in KvType /\ U.stored = K.stored /\ U.refs = K.refs
      BY <3>1, <3>2, UnpinFields
    <3>4. U.refs \in [Keys -> Nat] /\ U.blocks \in [Keys -> SUBSET Blocks]
          /\ U.refs[k] > 0
      BY <2>1, <3>3, FieldTypes
    <3> DEFINE refs   == [U.refs EXCEPT ![k] = @ - 1]
               blocks == [U.blocks EXCEPT ![k] = IF K.refs[k] = 1 THEN {} ELSE @]
    <3>5. R = [U EXCEPT !.refs = refs, !.blocks = blocks]
      BY <1>2, <2>1, <3>2, <3>3 DEF ReleaseKey, KvType
    <3>6. refs \in [Keys -> Nat] /\ blocks \in [Keys -> SUBSET Blocks]
      BY <3>1, <3>4
    <3> HIDE DEF refs, blocks
    <3>7. R \in KvType /\ R.stored = U.stored
      BY <3>3, <3>5, <3>6 DEF KvType
    <3> QED BY <3>3, <3>7
  <2>2. CASE ~(k \in K.stored /\ K.refs[k] > 0)
    BY <1>2, <2>2 DEF ReleaseKey
  <2> QED BY <2>1, <2>2
<1>4. ReleaseSeq(K, s) = Free(R, s)
  BY <1>1, <1>2 DEF ReleaseSeq
<1>5. SameCache(R, Free(R, s))
  BY <1>3, FreeFields
<1> QED BY <1>3, <1>4, <1>5 DEF SameCache
=============================================================================
