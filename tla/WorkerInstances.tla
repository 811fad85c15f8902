--------------------------- MODULE WorkerInstances ---------------------------
(***************************************************************************)
(* The requests of the small instances of the workers.                     *)
(***************************************************************************)
EXTENDS Integers, TLC

CONSTANTS s1, s2, s3

MCTokens == 1 .. 3

(* s1 and s2 have the same prompt of one token, three tokens to generate,  *)
(* and need two blocks of a pool of four; so does s3.  s1 and s2 may be    *)
(* admitted together, or one while the other is decoding, and bind or      *)
(* share then what the first has stored; or one comes after the other, and *)
(* then, behind s3, two blocks are enough for _fits, but not for the block *)
(* of the entry and two more.  The two prefixes of s3 evict the other.     *)
CrowdedPromptOf == s1 :> <<1>> @@ s2 :> <<1>> @@ s3 :> <<3, 3, 3>>
CrowdedMaxTokensOf == s1 :> 3 @@ s2 :> 3 @@ s3 :> 1

SharedPromptOf == s1 :> <<1, 1, 2>> @@ s2 :> <<1, 1, 2>> @@ s3 :> <<1, 1, 3>>
SharedMaxTokensOf == s1 :> 3 @@ s2 :> 2 @@ s3 :> 1

(* Three sizes of request for a pool of three blocks of two tokens: s1     *)
(* needs all of it, s2 one block, s3 two.                                  *)
MixedPromptOf == s1 :> <<1, 1, 2, 2>> @@ s2 :> <<1>> @@ s3 :> <<2, 2>>
MixedMaxTokensOf == s1 :> 2 @@ s2 :> 1 @@ s3 :> 2

(* s1 and s2 share a prefix of one token, s3 is a stranger.  In a pool of  *)
(* two blocks of two tokens the stored prefix takes one block, so s1 fits  *)
(* beside it when it asks for two tokens and not when it asks for three.   *)
TightPromptOf == s1 :> <<1>> @@ s2 :> <<1>> @@ s3 :> <<2>>
TightMaxTokensOf == s1 :> 3 @@ s2 :> 1 @@ s3 :> 1
=============================================================================
