------------------------------ MODULE MCClient ------------------------------
(***************************************************************************)
(* The instance of Client that TLC checks.  Liveness is checked, so there is *)
(* no symmetry.                                                            *)
(***************************************************************************)
EXTENDS Client
=============================================================================
