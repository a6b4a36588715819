---------------------------- MODULE MCAllocator -----------------------------
(* Allocator with a short table, and requests that can exhaust it, for TLC. *)
EXTENDS Defrag
=============================================================================
