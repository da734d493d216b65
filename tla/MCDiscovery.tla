---------------------------- MODULE MCDiscovery ----------------------------
(* Values of the constants of Discovery for TLC. *)
EXTENDS Discovery

CONSTANTS http, admin, web, p1, p2

\* Two ports of one service.
TwoPorts == [k \in {http, admin} |-> web]
=============================================================================
