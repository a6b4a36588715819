----------------------------- MODULE MCRuntime ------------------------------
(* Runtime with one module, for TLC. *)
EXTENDS Runtime

CONSTANT m   \* the task of the one module

OneModule == <<m>>
=============================================================================
