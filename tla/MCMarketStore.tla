--------------------------- MODULE MCMarketStore ---------------------------
(* Two series, two batches that write them in opposite orders.              *)
EXTENDS MarketStore, TLC

CONSTANTS a, b

MCBatches == {<<<<a, 1>>, <<b, 1>>>>, <<<<b, 2>>, <<a, 2>>>>}
MCMixed == {<<<<a, 1>>, <<b, 1>>>>, <<<<b, 2>>>>}
Slots == Permutations(Jobs)
=============================================================================
