---------------------------- MODULE MCHTTPServer ---------------------------
(***************************************************************************)
(* HTTPServer for TLC: requests and workers are model values.              *)
(***************************************************************************)
EXTENDS HTTPServer, TLC

CONSTANTS w1, w2, r1, r2, r3
=============================================================================
