----------------------------- MODULE MCFullRun -----------------------------
(***************************************************************************)
(* Outputs for FullRun: two columns, with values out of order and equal    *)
(* ones, and now and then a run that prints a column less.  The second one *)
(* is a mean, or a percentile that needs more than two or four samples.    *)
(***************************************************************************)
EXTENDS FullRun

TwoColumns == {<<2, 3>>, <<1, 3>>, <<3, 1>>, <<2>>}
MeanOrPercentile == {<<0, 0>>, <<0, 2>>, <<0, 4>>}
=============================================================================
