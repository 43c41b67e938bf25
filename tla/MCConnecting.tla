---------------------------- MODULE MCConnecting ----------------------------
(***************************************************************************)
(* Instances of Connecting for TLC.                                        *)
(***************************************************************************)
EXTENDS Connecting, TLC

\* Connections, memory blocks and descriptors are interchangeable.
Symmetry ==
  Permutations(Conns) \cup Permutations(Addrs) \cup Permutations(Fds)
=============================================================================
