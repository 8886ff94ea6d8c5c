---------------------------- MODULE MCMedallion ----------------------------
(***************************************************************************)
(* Instances of Medallion for TLC.                                         *)
(***************************************************************************)
EXTENDS Medallion

CONSTANTS d1, d2, m1, m2
=============================================================================
