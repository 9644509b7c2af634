---------------------------- MODULE MCAdaptiveRate ----------------------------
(* AdaptiveRate for TLC: batches of two samples, windows of four, and a      *)
(* negative round-trip time, which is no loss and is not averaged.           *)
EXTENDS AdaptiveRate

MCRtts == {-1, 0, 8}
===============================================================================
