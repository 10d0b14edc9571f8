--------------------------- MODULE MCImageTransfer ---------------------------
(***************************************************************************)
(* ImageTransfer for TLC: sizes up to two, and one block more than that, so*)
(* that an image may be short, exact and too long; two contents, so that   *)
(* the order of blocks can be told.                                        *)
(***************************************************************************)
EXTENDS ImageTransfer, TLC

Symmetry == Permutations(Identifiers) \union Permutations(Blocks)
=============================================================================
