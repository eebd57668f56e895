---------------------------- MODULE MCWsConnections ----------------------------
(* Two slots and three connections that come and go; a store of two tickets *)
(* that rolls over; a clock that shows instants inside and outside of a    *)
(* ticket's life.                                                          *)
EXTENDS WsConnections

CONSTANTS p1, p2, p3, none

MCPeers == {p1, p2, p3}
MCTimes == {0, 2}
================================================================================
