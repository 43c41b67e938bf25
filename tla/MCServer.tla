------------------------------ MODULE MCServer ------------------------------
(***************************************************************************)
(* The instance of Server that TLC checks.  Liveness is checked, so there is *)
(* no symmetry.                                                            *)
(***************************************************************************)
EXTENDS Server
=============================================================================
