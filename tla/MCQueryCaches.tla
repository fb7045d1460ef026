----------------------------- MODULE MCQueryCaches -----------------------------
(* A small instance of QueryCaches for TLC. *)
EXTENDS QueryCaches

CONSTANTS n1, n2, c1, v1, v2
=============================================================================
