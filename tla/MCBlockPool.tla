---------------------------- MODULE MCBlockPool ----------------------------
(* A small pool for TLC: blocks and hashes are interchangeable.            *)
EXTENDS BlockPool, TLC

Symmetry == Permutations(Block) \cup Permutations(Hash)
=============================================================================
