---------------------------- MODULE MCTagMemory ----------------------------
(* A small instance of TagMemory.                                          *)
EXTENDS TagMemory, TLC

\* Blocks are alike.
AnyBlock == Permutations(Blocks)
=============================================================================
