-------------------------- MODULE MCReliableStream --------------------------
(***************************************************************************)
(* ReliableStream.tla for TLC.                                             *)
(***************************************************************************)
EXTENDS ReliableStream, TLC

MCSymmetry == Permutations(Publishers)
=============================================================================
