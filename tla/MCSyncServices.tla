--------------------------- MODULE MCSyncServices ---------------------------
(* SyncServices: every service for a few iterations, and small fits. *)
EXTENDS SyncServices

MCFits == [iterations : 1..3, nchains : 1..3, n_cols : {1, 2}]
=============================================================================
