------------------------------ MODULE MCSpool ------------------------------
(***************************************************************************)
(* Instances of Spool for TLC.                                             *)
(***************************************************************************)
EXTENDS Spool

CONSTANTS h1, h2
=============================================================================
