---------------------------- MODULE MCAdminAbort ----------------------------
(***************************************************************************)
(* Small instances of AdminAbort.                                          *)
(***************************************************************************)
EXTENDS AdminAbort

Symmetry == Permutations(Seqs) \cup Permutations(Admins)
=============================================================================
