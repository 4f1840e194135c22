--------------------------- MODULE MCStanliModel ---------------------------
(* StanliModel with one parameter, one transformed parameter, one generated *)
(* quantity.                                                                *)
EXTENDS StanliModel, TLC

MCColumns == <<"p", "t", "g">>
MCFlags == {<<FALSE, TRUE>>, <<TRUE, FALSE>>}
=============================================================================
