------------------------------ MODULE MCCovert ------------------------------
(***************************************************************************)
(* Covert with its bounds given in the configurations.                     *)
(***************************************************************************)
EXTENDS Covert
=============================================================================
