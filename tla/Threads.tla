------------------------------ MODULE Threads -------------------------------
(***************************************************************************)
(* What the context switch promises to the threads: each of them has the   *)
(* registers of a processor to itself.  Only the thread that runs changes  *)
(* its registers; traps, task switches and the other threads never do.    *)
(***************************************************************************)
CONSTANTS
  Thread,     \* the threads there can be
  First,      \* the one that runs first
  Registers,  \* the contents of a register set
  Start,      \* the contents a thread starts with
  Nobody      \* runs while the kernel does

VARIABLES
  regs,       \* the registers of each thread there is
  runs        \* the thread that runs

vars == <<regs, runs>>

Init == regs = [t \in {First} |-> Start] /\ runs = Nobody

Compute ==
  /\ runs \in DOMAIN regs
  /\ \E r \in Registers : regs' = [regs EXCEPT ![runs] = r]
  /\ UNCHANGED runs

Create(t) ==
  /\ runs \in DOMAIN regs /\ t \notin DOMAIN regs
  /\ regs' = [u \in DOMAIN regs \cup {t} |-> IF u = t THEN Start ELSE regs[u]]
  /\ UNCHANGED runs

Trap == runs # Nobody /\ runs' = Nobody /\ UNCHANGED regs

Resume == runs = Nobody /\ runs' \in DOMAIN regs /\ UNCHANGED regs

Finish ==
  /\ runs \in DOMAIN regs
  /\ regs' = [u \in DOMAIN regs \ {runs} |-> regs[u]]
  /\ runs' = Nobody

Next == Compute \/ (\E t \in Thread : Create(t)) \/ Trap \/ Resume \/ Finish

Spec == Init /\ [][Next]_vars
=============================================================================
