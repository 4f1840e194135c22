---------------------------- MODULE MCBuildCache ----------------------------
(* BuildCache with sessions and setups that can be exchanged. *)
EXTENDS BuildCache, TLC

MCSymmetry == Permutations(Sessions) \cup Permutations(Setups) \cup Permutations(Contents)
=============================================================================
