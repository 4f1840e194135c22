----------------------------- MODULE MCPchCache -----------------------------
(* PchCache with sessions and fingerprints that can be exchanged. *)
EXTENDS PchCache, TLC

MCSymmetry == Permutations(Sessions) \cup Permutations(Fingerprints)
=============================================================================
