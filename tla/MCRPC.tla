-------------------------------- MODULE MCRPC -------------------------------
(***************************************************************************)
(* RPC for TLC: clients, calls and workers are model values.               *)
(***************************************************************************)
EXTENDS RPC

CONSTANTS c1, c2, k1, k2, w1
=============================================================================
