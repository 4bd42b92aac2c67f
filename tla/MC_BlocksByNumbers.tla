------------------------- MODULE MC_BlocksByNumbers -------------------------
(* Five heights through two workers: the channel (capacity 4) can fill.    *)
EXTENDS BlocksByNumbers

MCNums == GetBlocksNums(100, 104)

=============================================================================
