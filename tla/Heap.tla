-------------------------------- MODULE Heap --------------------------------
(***************************************************************************)
(* What the allocator of os/src/memory.c promises to its callers: a block  *)
(* that allocate hands out overlaps no block that is still held, and       *)
(* deallocate takes back that block and nothing else.  It promises this    *)
(* until it has handed out more than it can address, and nothing from then *)
(* on.                                                                     *)
(***************************************************************************)
EXTENDS Integers

CONSTANT Requests      \* the sizes that are asked for

VARIABLES
  held,                \* the blocks handed out and not given back
  kept                 \* the promise is still kept

vars == <<held, kept>>

Block == [address : Nat, length : Requests]

Disjoint(b, c) ==
  \/ b.address + b.length <= c.address
  \/ c.address + c.length <= b.address

Init == held = {} /\ kept = TRUE

Allocate ==
  /\ kept
  /\ \E b \in held' \ held :
       /\ b \in Block
       /\ \A c \in held : Disjoint(b, c)
       /\ held' = held \cup {b}
  /\ UNCHANGED kept

Deallocate ==
  /\ kept
  /\ \E b \in held : held' = held \ {b}
  /\ UNCHANGED kept

(* An allocation beyond what can be addressed. *)
Overrun ==
  /\ kept
  /\ kept' = FALSE
  /\ held' = {}

Next == Allocate \/ Deallocate \/ Overrun

Spec == Init /\ [][Next]_vars

=============================================================================
