--------------------------- MODULE MCPrunedDaemon ----------------------------
(* Blocks 0..3; batches that lie on one side of a prune height, straddle it  *)
(* upwards or downwards, or cross it twice.                                  *)
EXTENDS PrunedDaemon

MCBatches == {<<0, 1, 2>>, <<3, 0>>, <<1, 3, 2>>}
MCFewBatches == {<<0, 1, 2>>, <<2, 0>>}
=============================================================================
