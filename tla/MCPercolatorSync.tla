--------------------------- MODULE MCPercolatorSync ---------------------------
(* Finite instances of PercolatorSync.                                     *)
EXTENDS PercolatorSync, TLC

ThreadSymmetry == Permutations(Threads)
=============================================================================
