--------------------------- MODULE MCNodeStreams ---------------------------
(***************************************************************************)
(* NodeStreams.tla for TLC.                                                *)
(***************************************************************************)
EXTENDS NodeStreams, TLC

MCSymmetry == Permutations(Sessions)
=============================================================================
