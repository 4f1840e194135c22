---------------------------- MODULE MCFitHandle ----------------------------
(* FitHandle with fits that can be exchanged. *)
EXTENDS FitHandle, TLC

MCSymmetry == Permutations(Fits)
=============================================================================
