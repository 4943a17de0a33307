---------------------------- MODULE MCSeriesPass ----------------------------
(* Two buyers; two events, and a third with one place that may be added.    *)
EXTENDS SeriesPass, TLC

CONSTANTS h1, h2, e1, e2, e3

MCTierQuantity == (e1 :> 2) @@ (e2 :> 2) @@ (e3 :> 1)

MCSymmetry == Permutations({h1, h2}) \cup Permutations({e1, e2})
=============================================================================
