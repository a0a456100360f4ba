------------------------------ MODULE MCGraph ------------------------------
(* A root, three nodes, and as many metrics nodes as there are connections.  *)
EXTENDS Graph
CONSTANTS r, a, b, c
Metrics == [k \in 1..MaxLinks |-> k]
===========================================================================
