-------------------------- MODULE MCClientSession --------------------------
(***************************************************************************)
(* Instances of ClientSession for TLC.  Frames of two pieces, a buffer of  *)
(* three (one frame and a half: a coalesced read may end inside a frame),  *)
(* sequence numbers modulo 3 in the main run and 2 in the others, so that  *)
(* they wrap within the bound.                                             *)
(***************************************************************************)
EXTENDS ClientSession
=============================================================================
