------------------------- MODULE MC_GetBlocksRange -------------------------
(* Three-bit heights: every range below the largest height, and the ranges *)
(* that end at it.                                                         *)
EXTENDS GetBlocksRange

\* Every from and to short of the largest height.
MCBelowMax == 0..(2^3 - 2)

\* Every from and to, the largest height included.
MCAllHeights == 0..(2^3 - 1)

=============================================================================
