----------------------------- MODULE MCContexts -----------------------------
(* Contexts with three threads, for TLC. *)
EXTENDS Contexts, TLC

MCSymmetry == Permutations(Thread \ {Idle})
=============================================================================
