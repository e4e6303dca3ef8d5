-------------------------- MODULE MCRedisStreamer --------------------------
(***************************************************************************)
(* RedisStreamer.tla for TLC: two nodes, two publications, one fault of    *)
(* any kind.  The nodes are interchangeable, but the run checks liveness,  *)
(* so no symmetry is declared.                                             *)
(***************************************************************************)
EXTENDS RedisStreamer
=============================================================================
