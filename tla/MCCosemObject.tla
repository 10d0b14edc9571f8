---------------------------- MODULE MCCosemObject ----------------------------
(***************************************************************************)
(* CosemObject for TLC: every class of the library, and two SETs, enough   *)
(* for one to disturb the other.                                           *)
(***************************************************************************)
EXTENDS CosemObject
=============================================================================
