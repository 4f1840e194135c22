--------------------------- MODULE MCSampleChains ---------------------------
(* SampleChains on small runs: one diagnostic among three columns. *)
EXTENDS SampleChains

MCWarmupSizes == {0, 1, 3}
MCSampleSizes == {0, 2, 3}
MCThins == {1, 2}
MCColNames == <<"lp__", "stepsize__", "theta">>
MCDiagnosticNames == {"stepsize__"}
=============================================================================
