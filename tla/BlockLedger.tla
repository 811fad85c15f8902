----------------------------- MODULE BlockLedger -----------------------------
(***************************************************************************)
(* What the block accounting promises to the requests it serves, without   *)
(* a word of how: for every block, the requests that count on it.          *)
(*                                                                         *)
(* A step is taken on behalf of one request and changes no claim but that  *)
(* request's own, so a block is never taken from one request to serve      *)
(* another.  A request gains only free blocks and shared ones.  It may     *)
(* share blocks that it alone claims, and a shared block stays shared      *)
(* until its last claim is gone.  A block is free exactly when nobody      *)
(* claims it.                                                              *)
(***************************************************************************)
EXTENDS Integers

CONSTANTS Blocks, Seqs

VARIABLES
    free,     \* the blocks nobody claims
    claims,   \* claims[b]: the requests that count on block b
    shared    \* the blocks that several requests may claim

vars == <<free, claims, shared>>

Unclaimed(c) == {b \in Blocks : c[b] = {}}

Init == /\ free = Blocks
        /\ claims = [b \in Blocks |-> {}]
        /\ shared = {}

OthersKeepTheirs(s) == \A b \in Blocks : claims'[b] \ {s} = claims[b] \ {s}

GainsAreAllowed(s) ==
    \A b \in Blocks : s \in claims'[b] \ claims[b] => b \in free \cup shared

SharingIsByOwner(s) ==
    \A b \in Blocks : /\ b \in shared' \ shared => claims'[b] = {s}
                      /\ b \in shared \ shared' => claims'[b] = {}

Step(s) ==
    /\ claims' \in [Blocks -> SUBSET Seqs]
    /\ shared' \in SUBSET Blocks
    /\ OthersKeepTheirs(s)
    /\ GainsAreAllowed(s)
    /\ SharingIsByOwner(s)
    /\ free' = Unclaimed(claims')

Next == \E s \in Seqs : Step(s)

Spec == Init /\ [][Next]_vars
=============================================================================
