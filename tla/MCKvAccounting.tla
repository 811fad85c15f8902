--------------------------- MODULE MCKvAccounting ----------------------------
(***************************************************************************)
(* A small instance of KvAccounting.  s1 and s2 ask the same thing, s3     *)
(* shares their first, block-aligned tokens, which is the case the prefix  *)
(* cache is for, and s4 is a stranger that takes room in the pool.  Five   *)
(* blocks are enough for a prefix to be shared between live sequences, and *)
(* few enough for a hit whose blocks cannot be reserved.                   *)
(***************************************************************************)
EXTENDS KvAccounting, TLC

CONSTANTS b1, b2, b3, b4, b5, s1, s2, s3, s4

MCTokens == 1 .. 4
MCPromptOf == s1 :> <<1, 2, 3>> @@ s2 :> <<1, 2, 3>> @@ s3 :> <<1, 2, 4>>
                @@ s4 :> <<4>>
MCMaxTokensOf == s1 :> 2 @@ s2 :> 2 @@ s3 :> 1 @@ s4 :> 2

Symmetry == Permutations(Blocks) \cup Permutations({s1, s2})
=============================================================================
