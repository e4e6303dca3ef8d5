--------------------------- MODULE MCBroadcasting ---------------------------
(***************************************************************************)
(* Broadcasting.tla for TLC: two sessions and two streams that share a     *)
(* gate (streams of different gates have nothing in common but h.broadcast *)
(* and Run), and channels of capacity one, so that their senders block.    *)
(***************************************************************************)
EXTENDS Broadcasting, TLC

CONSTANTS x, y, g1

MCGateOf == (x :> g1) @@ (y :> g1)
=============================================================================
