------------------------------- MODULE MCQueue ------------------------------
(* The two queues of the scheduler with a handful of nodes, for TLC. *)
EXTENDS Queue

Symmetry == Permutations(Node)
=============================================================================
