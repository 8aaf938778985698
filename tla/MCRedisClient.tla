--------------------------- MODULE MCRedisClient ---------------------------
(***************************************************************************)
(* RedisClient for TLC: goroutines and patterns are model values.          *)
(***************************************************************************)
EXTENDS RedisClient, TLC

CONSTANTS t1, p1
=============================================================================
