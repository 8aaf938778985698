---------------------------- MODULE MCWebSocket ----------------------------
(***************************************************************************)
(* WebSocket for TLC: connections, topics and posts are model values.      *)
(***************************************************************************)
EXTENDS WebSocket, TLC

CONSTANTS c1, c2, t1, t2, p1, p2
=============================================================================
