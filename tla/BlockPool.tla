------------------------------ MODULE BlockPool ------------------------------
(***************************************************************************)
(* flux/engine/block_pool.py: the accounting-only allocator of KV blocks.  *)
(* Its operations are functions from one state of the pool to the next, so *)
(* that a handler that calls several of them in a row is one action.       *)
(*                                                                         *)
(* A block is an identity and nothing else: the code never orders or       *)
(* compares block ids.  The free deque and the per-sequence lists are      *)
(* therefore sets, and WHICH free blocks a request gets is left open (the  *)
(* code takes them from the left end of the deque).  A set cannot show a   *)
(* block that is freed twice, but every list the code frees is read from   *)
(* the recorded state, so a double free needs a block that two owners hold *)
(* at once first, and that the invariants over this state exclude.         *)
(***************************************************************************)
EXTENDS Integers, FiniteSets, FiniteSetsExt

CONSTANTS
    Blocks,      \* the ids 0 .. num_blocks - 1
    BlockSize,   \* tokens per block
    Seqs         \* the sequences that may allocate

ASSUME BlocksAssumption    == IsFiniteSet(Blocks) /\ Blocks # {}
ASSUME BlockSizeAssumption == BlockSize \in Nat \ {0}
ASSUME SeqsAssumption      == IsFiniteSet(Seqs)

AtMost(n, m) == IF n <= m THEN n ELSE m

(* A pool p has p.free, the deque _free, and p.alloc[s], the list          *)
(* _alloc[s.id], which is {} when the dict has no such key: whenever it    *)
(* has none, the fallback of free() and detach(), the sequence's own block *)
(* lists, is empty too.                                                    *)
BlocksNeeded(n) == IF n <= 0 THEN 0 ELSE (n + BlockSize - 1) \div BlockSize

CanAllocate(p, n) == Cardinality(p.free) >= BlocksNeeded(n)

(* The sets of blocks reserve(n) may return; none of them when it returns  *)
(* None because n tokens do not fit.                                       *)
Reservations(p, n) == kSubset(BlocksNeeded(n), p.free)

Reserve(p, ids) == [p EXCEPT !.free = @ \ ids]

(* Mutant: the blocks stay in the free deque.                              *)
AllocateKeepingFree(p, s, ids) == [p EXCEPT !.alloc[s] = ids]

Allocate(p, s, ids) == [p EXCEPT !.free = @ \ ids, !.alloc[s] = ids]

Release(p, ids) == [p EXCEPT !.free = @ \cup ids]

(* What detach(s, n) may return: n of the sequence's blocks, all of them   *)
(* when it has fewer.                                                      *)
Detachable(p, s, n) ==
    kSubset(AtMost(n, Cardinality(p.alloc[s])), p.alloc[s])

Detach(p, s, ids) == [p EXCEPT !.alloc[s] = @ \ ids]

(* Mutant: the dict entry is popped but its blocks are not put back.       *)
FreeLosing(p, s) == [p EXCEPT !.alloc[s] = {}]

(* free(seq): idempotent, because the dict key is popped.                  *)
Free(p, s) == [p EXCEPT !.free = @ \cup p.alloc[s], !.alloc[s] = {}]
=============================================================================
