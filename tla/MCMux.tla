------------------------------- MODULE MCMux -------------------------------
(***************************************************************************)
(* Instances of Mux for TLC.                                               *)
(***************************************************************************)
EXTENDS Mux

CONSTANTS ssh1, ssh2
=============================================================================
