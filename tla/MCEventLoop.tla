---------------------------- MODULE MCEventLoop -----------------------------
(* Symmetry of the instances of EventLoop that TLC checks. *)
EXTENDS EventLoop, TLC

Symmetry == Permutations(Threads)
=============================================================================
