---------------------------- MODULE MCObjectPool ----------------------------
(***************************************************************************)
(* An instance of ObjectPool for TLC.                                      *)
(***************************************************************************)
EXTENDS ObjectPool, TLC

\* The I/O threads are interchangeable.
Symmetry == Permutations(Threads)
=============================================================================
