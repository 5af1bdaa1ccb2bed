---------------------------- MODULE MCRedisBridge ----------------------------
(* RedisBridge for TLC.  No symmetry: a liveness property is checked. *)
EXTENDS RedisBridge, TLC
=============================================================================
