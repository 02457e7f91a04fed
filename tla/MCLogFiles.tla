----------------------------- MODULE MCLogFiles -----------------------------
(* Instances of LogFiles for TLC.                                          *)
EXTENDS LogFiles, TLC

CONSTANTS w1, w2, w3, d1

Symmetry == Permutations(Writers)
=============================================================================
