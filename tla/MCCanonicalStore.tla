-------------------------- MODULE MCCanonicalStore --------------------------
(***************************************************************************)
(* Ranks, and parameters, that are told apart by nothing but their names.  *)
(***************************************************************************)
EXTENDS CanonicalStore, TLC

Renamings == Permutations(Rank) \cup Permutations(Param)
=============================================================================
