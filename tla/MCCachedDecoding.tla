--------------------------- MODULE MCCachedDecoding ---------------------------
(***************************************************************************)
(* A small instance of CachedDecoding.  s1 and s3 ask the same thing, with *)
(* different sampling; s2 continues their prompt by one token, so that     *)
(* rows of different lengths meet and the first block of s2 is their whole *)
(* prompt, stored without logits.                                          *)
(***************************************************************************)
EXTENDS CachedDecoding, TLC

CONSTANTS b1, b2, b3, b4, b5, s1, s2, s3, s4

MCTokens == 1 .. 3
MCStopTokens == {3}
MCPromptOf == s1 :> <<1, 2>> @@ s2 :> <<1, 2, 2>> @@ s3 :> <<1, 2>>
                @@ s4 :> <<2>>
MCMaxTokensOf == s1 :> 3 @@ s2 :> 2 @@ s3 :> 2 @@ s4 :> 1

(* s2 keeps a token that brings the sum to top_p exactly and the next one. *)
MCSamplingOf ==
    LET P(greedy, topP, stop, ignore) ==
            [greedy |-> greedy, topP |-> topP, stop |-> stop, ignoreEos |-> ignore]
    IN  s1 :> P(FALSE, 5, {}, TRUE) @@ s2 :> P(FALSE, 6, {2}, FALSE)
          @@ s3 :> P(TRUE, 10, {}, FALSE)
          @@ s4 :> P(FALSE, 10, {}, FALSE)

(* The distribution turns with the text, and has ties after some texts.    *)
MCProb(s, text) ==
    LET sum     == FoldLeft(LAMBDA a, t : a + t, 0, text)
        weights == IF sum % 2 = 0 THEN <<6, 3, 1>> ELSE <<4, 4, 2>>
    IN  [t \in Tokens |-> weights[((t + sum) % 3) + 1]]

Symmetry == Permutations(Blocks)
=============================================================================
