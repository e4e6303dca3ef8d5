-------------------------- MODULE MCSessionWriter --------------------------
(***************************************************************************)
(* SessionWriter.tla for TLC.  The Callers are interchangeable, but the    *)
(* runs check liveness, so no symmetry is declared.                        *)
(***************************************************************************)
EXTENDS SessionWriter, TLC
=============================================================================
