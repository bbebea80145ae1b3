---------------------------- MODULE MCBlockQueue ----------------------------
(* The queue of a three-block pool for TLC.                                *)
EXTENDS BlockQueue, TLC

Symmetry == Permutations(Block) \cup Permutations(Hash)
=============================================================================
