------------------------- MODULE MCContinuousWorker -------------------------
(***************************************************************************)
(* Small instances of ContinuousWorker.                                    *)
(***************************************************************************)
EXTENDS ContinuousWorker, WorkerInstances

(* The blocks, and two sequences with the same prompt and max_tokens.      *)
Symmetry == Permutations(Blocks) \cup Permutations({s1, s2})
=============================================================================
