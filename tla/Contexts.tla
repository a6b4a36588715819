------------------------------ MODULE Contexts ------------------------------
(***************************************************************************)
(* How the kernel keeps the registers of a thread that does not run:       *)
(* svcall_isr (core/exception.c), pendsv_isr (process/scheduler.c), the    *)
(* frame create_task prepares (process/task.c), and what the processor     *)
(* does on its own on an exception.                                        *)
(*                                                                         *)
(* A stack is a sequence of blocks of eight words.  Two blocks make a      *)
(* context: r0-r3, r12, lr, pc and psr ("hard", stored and loaded by the   *)
(* processor) and r4-r11 ("soft", stored and loaded by the kernel).  The   *)
(* blocks below, which the functions of the thread use, are left out, and  *)
(* the stack of the handlers (MSP) too.  All exceptions have the priority  *)
(* they have after reset, so no handler interrupts another one.            *)
(* The build is the soft-float one (HWFP=0): nothing uses s0-s31.          *)
(***************************************************************************)
EXTENDS Naturals

CONSTANTS
  Thread,      \* the threads there can be, each a tcb with its stack
  Idle,        \* the first one
  Value,       \* contents of eight registers
  Zero,        \* all of r4-r11 as create_task leaves them
  Entry,       \* r0-r3, r12: 0, lr: finish_task, pc: the task's function
  NULL

ASSUME ContextsAssumption ==
  /\ Idle \in Thread /\ NULL \notin Thread
  /\ Zero \in Value /\ Entry \in Value

VARIABLES
  mode,      \* what the processor executes
  cpu,       \* its registers
  psp,       \* the process stack pointer
  stack,     \* the stack of each thread
  sp,        \* sp in the tcb of each thread
  tasks,     \* the threads that are created and not finished
  current,   \* currently_running
  preserve   \* task_to_preserve

vars == <<mode, cpu, psp, stack, sp, tasks, current, preserve>>

Depth == 2
Registers == [hard : Value, soft : Value]
Pointers == [of : Thread, depth : 0..Depth]

Up(p) == [p EXCEPT !.depth = @ - 1]
Down(p) == [p EXCEPT !.depth = @ + 1]
Contents(p) == stack[p.of][p.depth]
\* STMDB and LDMFD with r2, and what the processor does with its own part.
Stored(st, p, block) == [st EXCEPT ![p.of] = [@ EXCEPT ![p.depth + 1] = block]]
Context(p) == [hard |-> Contents(Up(p)), soft |-> Contents(p)]

\* prepare_cpu_register.
Prepared == [i \in 1..Depth |-> IF i = 1 THEN Entry ELSE Zero]

ContextsInit ==
  /\ mode = "boot"
  /\ cpu \in Registers
  /\ psp = [of |-> Idle, depth |-> 0]
  /\ stack \in [Thread -> {[i \in 1..Depth |-> Zero], Prepared}] /\ stack[Idle] = Prepared
  /\ sp = [t \in Thread |-> [of |-> t, depth |-> Depth]]
  /\ tasks = {Idle}
  /\ current = Idle /\ preserve = Idle

-----------------------------------------------------------------------------
(* svcall_isr with execPspTask, called by bootstrap on the main stack: no   *)
(* context is saved, the one of currently_running is loaded.               *)
ExecPspTask ==
  /\ mode = "boot"
  /\ cpu' = Context(sp[current])
  /\ psp' = Up(Up(sp[current]))
  /\ mode' = "thread"
  /\ UNCHANGED <<stack, sp, tasks, current, preserve>>

(* A thread executes its own code, or the kernel's on its own stack.        *)
Compute ==
  /\ mode = "thread"
  /\ cpu' \in Registers
  /\ UNCHANGED <<mode, psp, stack, sp, tasks, current, preserve>>

CreateTask(t) ==
  /\ mode = "thread"
  /\ t \notin tasks
  /\ tasks' = tasks \cup {t}
  /\ stack' = [stack EXCEPT ![t] = Prepared]
  /\ sp' = [sp EXCEPT ![t] = [of |-> t, depth |-> Depth]]
  /\ UNCHANGED <<mode, cpu, psp, current, preserve>>

(* block_current_task up to its system call: currently_running becomes the  *)
(* predecessor, or NULL, and the thread goes on with interrupts enabled.   *)
BlockCurrentTask ==
  /\ mode = "thread" /\ current = psp.of
  /\ preserve' = current
  /\ current' \in (tasks \ {current}) \cup {NULL}
  /\ UNCHANGED <<mode, cpu, psp, stack, sp, tasks>>

(* A system call: the processor stores its part, svcall_isr r4-r11; then    *)
(* its code uses the registers as it likes.                                *)
SystemCall(service) ==
  /\ mode = "thread"
  /\ mode' = service
  /\ stack' = Stored(Stored(stack, psp, cpu.hard), Down(psp), cpu.soft)
  /\ psp' = Down(Down(psp))
  /\ cpu' \in Registers
  /\ UNCHANGED <<sp, tasks, current, preserve>>

\* yieldTask, and printMsg which falls through to it: PendSV follows at once.
Yields == SystemCall("pendsv")
\* std, ste, execPriv, setExtIoCallback, wakeupPid, wakeupIoHandler,
\* disableIrReception and enableIrReception.
Serves == SystemCall("service")

(* Mutant: the service returns without restore_psp, as getIoBuffer does.    *)
ServiceReturns_NoRestore ==
  /\ mode = "service"
  /\ mode' = "thread"
  /\ cpu' = [cpu EXCEPT !.hard = Contents(psp)]
  /\ psp' = Up(psp)
  /\ UNCHANGED <<stack, sp, tasks, current, preserve>>

\* restore_psp, and the return from the exception.
ServiceReturns ==
  /\ mode = "service"
  /\ mode' = "thread"
  /\ cpu' = Context(psp)
  /\ psp' = Up(Up(psp))
  /\ UNCHANGED <<stack, sp, tasks, current, preserve>>

(* finish_task pends PendSV from the thread: r4-r11 are not saved, and the  *)
(* saved stack pointer must never be loaded again.                         *)
FinishTask ==
  /\ mode = "thread" /\ current = psp.of /\ current # Idle
  /\ tasks' = tasks \ {current}
  /\ mode' = "pendsv"
  /\ stack' = Stored(stack, psp, cpu.hard)
  /\ psp' = Down(psp)
  /\ cpu' \in Registers
  /\ UNCHANGED <<sp, current, preserve>>

(* Mutant: psp is saved for the task currently_running points to.           *)
PendSV_SavesCurrent ==
  /\ mode = "pendsv"
  /\ mode' = "thread"
  /\ sp' = IF current = NULL THEN sp ELSE [sp EXCEPT ![current] = psp]
  /\ current' \in tasks
  /\ preserve' = current'
  /\ cpu' = Context(sp'[current'])
  /\ psp' = Up(Up(sp'[current']))
  /\ UNCHANGED <<stack, tasks>>

(* pendsv_isr: switch_task chooses a READY task.                            *)
PendSV ==
  /\ mode = "pendsv"
  /\ mode' = "thread"
  /\ sp' = [sp EXCEPT ![preserve] = psp]
  /\ current' \in tasks
  /\ preserve' = current'
  /\ cpu' = Context(sp'[current'])
  /\ psp' = Up(Up(sp'[current']))
  /\ UNCHANGED <<stack, tasks>>

(* Any other interrupt: the processor stores its part, and the handler, a   *)
(* compiled function, gives r4-r11 back as it found them.                  *)
Interrupt ==
  /\ mode = "thread"
  /\ mode' = "interrupt"
  /\ stack' = Stored(stack, psp, cpu.hard)
  /\ psp' = Down(psp)
  /\ cpu' \in [hard : Value, soft : {cpu.soft}]
  /\ UNCHANGED <<sp, tasks, current, preserve>>

InterruptReturns ==
  /\ mode = "interrupt"
  /\ mode' = "thread"
  /\ cpu' = [cpu EXCEPT !.hard = Contents(psp)]
  /\ psp' = Up(psp)
  /\ UNCHANGED <<stack, sp, tasks, current, preserve>>

ContextsNext ==
  \/ ExecPspTask \/ Compute \/ BlockCurrentTask \/ Yields \/ Serves \/ ServiceReturns
  \/ FinishTask \/ PendSV \/ Interrupt \/ InterruptReturns
  \/ \E t \in Thread : CreateTask(t)

ContextsSpec == ContextsInit /\ [][ContextsNext]_vars

-----------------------------------------------------------------------------
(* Properties.                                                              *)

\* The type invariant; no stack ever holds more than the two blocks of one
\* context above what its thread has put there.
ContextsTypeOK ==
  /\ mode \in {"boot", "thread", "service", "pendsv", "interrupt"}
  /\ cpu \in Registers
  /\ psp \in Pointers
  /\ stack \in [Thread -> [1..Depth -> Value]]
  /\ sp \in [Thread -> Pointers]
  /\ tasks \subseteq Thread
  /\ current \in Thread \cup {NULL} /\ preserve \in Thread

(* Where the registers of a thread are: in the processor, or on a stack;    *)
(* during an interrupt r4-r11 are still in the processor.                  *)
RegistersOf(t) ==
  CASE mode = "thread" /\ psp.of = t -> cpu
    [] mode = "interrupt" /\ psp.of = t -> [hard |-> Contents(psp), soft |-> cpu.soft]
    [] mode \in {"service", "pendsv"} /\ psp.of = t -> Context(psp)
    [] OTHER -> Context(sp[t])

\* Every thread has its registers to itself: whatever interrupts, system calls
\* and task switches come in between, it goes on with the registers it had
\* (exception.c:41-47 and scheduler.c:262-276 each do half of it).
Threads == INSTANCE Threads WITH
  First <- Idle,
  Start <- [hard |-> Entry, soft |-> Zero],
  Nobody <- NULL,
  regs <- [t \in tasks |-> RegistersOf(t)],
  runs <- IF mode = "thread" THEN psp.of ELSE NULL

ImplementsThreads == Threads!Spec
=============================================================================
