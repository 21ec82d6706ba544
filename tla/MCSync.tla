------------------------------- MODULE MCSync -------------------------------
(* Sync for TLC: the threads other than Main are interchangeable.          *)
EXTENDS Sync, TLC

Symmetry == Permutations(Thread \ {Main})
=============================================================================
