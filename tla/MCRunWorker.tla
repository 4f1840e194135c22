----------------------------- MODULE MCRunWorker -----------------------------
(* RunWorker on a small instance: the chains are the writers of the logger. *)
EXTENDS RunWorker

MCWriters == 1..NumChains
=============================================================================
