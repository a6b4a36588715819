---------------------------- MODULE MCScheduler ----------------------------
(* Scheduler with a handful of task control blocks, for TLC. *)
EXTENDS Scheduler

(* All tasks but the idle task are alike. *)
Symmetry == Permutations(Task \ {Idle})
=============================================================================
