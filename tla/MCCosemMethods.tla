---------------------------- MODULE MCCosemMethods ----------------------------
(***************************************************************************)
(* CosemMethods for TLC: lists of up to four entries, with indices to   *)
(* four, a count that wraps at three; states and a byte that is none.      *)
(***************************************************************************)
EXTENDS CosemMethods
=============================================================================
