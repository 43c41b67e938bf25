------------------------------ MODULE MCLogger ------------------------------
(* Symmetry of the instances of Logger that TLC checks. *)
EXTENDS Logger, TLC

Symmetry == Permutations(Producers)
=============================================================================
