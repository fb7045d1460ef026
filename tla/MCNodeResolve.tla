----------------------------- MODULE MCNodeResolve -----------------------------
(* A small instance of NodeResolve for TLC: boxes b1 and b2 in two clusters,  *)
(* three of them in the topology; node n1 is in the topology, n2's name       *)
(* spells a prim, n3 to n5 are unknown.                                       *)
EXTENDS NodeResolve

CONSTANTS c1, c2, n1, n2, n3, n4, n5, b1, b2

MCIndex == {<<c1, n1, b1>>, <<c2, n1, b1>>, <<c2, n2, b2>>}
MCGuess == [n \in Node |-> IF n = n2 THEN b2 ELSE None]
MCHash == [n \in Node |-> IF n \in {n3, n4} THEN 1 ELSE 5]
MCPlace == [b \in Box |-> (IF b[1] = c1 THEN 0 ELSE 2) + (IF b[2] = b1 THEN 0 ELSE 1)]
=============================================================================
