---- MODULE MCWsClient ----
(* WsClient for TLC: two callers and two connections, so that a drop, a       *)
(* reconnect and a second drop happen beside calls of Connect.                *)
EXTENDS WsClient

CONSTANTS p1, p2
====
