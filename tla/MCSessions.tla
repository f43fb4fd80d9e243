----------------------------- MODULE MCSessions -----------------------------
(* Sessions with two clients and two requests, for TLC. *)
EXTENDS Sessions, TLC

CONSTANTS s1, s2, p1, p2

MCClients == {s1, s2}
MCPosts == {p1, p2}
=============================================================================
