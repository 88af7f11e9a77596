---------------------------- MODULE MCCoinsCache ----------------------------
(* CoinsCache on two outpoints, two coins of different script sizes and    *)
(* two blocks.                                                             *)
EXTENDS CoinsCache, TLC

CONSTANTS k1, k2, c1, c2, b1, b2

MCKeys == {k1, k2}
MCCoins == {c1, c2}
MCBlocks == {b1, b2}
MCScriptSize == (NoCoin :> 0) @@ (c1 :> 1) @@ (c2 :> 3)
MCSymmetry == Permutations(MCKeys) \cup Permutations(MCBlocks)
=============================================================================
