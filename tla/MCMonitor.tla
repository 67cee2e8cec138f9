------------------------------ MODULE MCMonitor ------------------------------
(* The monitor of two nodes, with days of three minutes.                   *)
EXTENDS Monitor, TLC

\* Counters that grow, and whose sums tell nodes and minutes apart.
MCStatAt(n, t) == IF n = 0 THEN 1 + t ELSE 10 * (1 + t)

Symmetry == Permutations(Sockets)
=============================================================================
