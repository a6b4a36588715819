----------------------------- MODULE Scheduler ------------------------------
(***************************************************************************)
(* The cooperative scheduler of os/src/process/scheduler.c, with the       *)
(* inlined half of it in os/include/process/scheduler.h and the system     *)
(* calls of os/src/core/exception.c that reach it.                         *)
(*                                                                         *)
(* One thread has the processor.  It gives it up only by a system call:    *)
(* SVC pends PendSV, and pendsv_isr saves the context of task_to_preserve  *)
(* and loads the context of the task switch_task selects.  Interrupt       *)
(* handlers share one priority with SVC and PendSV, so they are atomic to  *)
(* each other, but they may strike between any two steps of the thread.    *)
(*                                                                         *)
(* The module leaves open what the tasks do: every task may make every     *)
(* call at every point where it runs its own code.                         *)
(***************************************************************************)
EXTENDS TaskQueues

CONSTANTS
  Task,     \* the task control blocks that fit into memory
  Idle,     \* the first one, created by setup_kernel_runtime
  NULL,     \* the null pointer
  DmaActions\* the values of DmaJobType_t that are told apart

(***************************************************************************)
(* A task takes five of the NUM_OF_SLOTS = 64 chunks of the allocator      *)
(* (stack, tcb, child list, queue node, node in the list of its parent),   *)
(* so there are never more than twelve.                                    *)
(***************************************************************************)
ASSUME TaskAssumption ==
  /\ IsFiniteSet(Task)
  /\ Cardinality(Task) \in 1..12
  /\ Idle \in Task
  /\ NULL \notin Task

(* Any other value of DmaJobType_t is no different to switch_task from DmaIsIdle. *)
ASSUME DmaAssumption == {"DmaIsIdle", "DmaTransferedExternalTask"} \subseteq DmaActions

VARIABLES
  running_tasks,          \* Seq(Task), head first
  waiting_tasks,
  state,                  \* task_info.state, "FREE": the tcb is not allocated
  pid,                    \* task_info.pid
  join_pid,
  parent_task,
  currently_running,
  task_to_preserve,
  sp,                     \* whose stack the stack pointer saved in a tcb points into
  psp,                    \* whose stack the processor runs on
  pendsv,                 \* a context switch is pending
  call,                   \* where inside a kernel function the thread is
  arg,                    \* argument of the pending join_task
  scan,                   \* locals of search_invalidate_tasks: node q, index j
  clean_up_requests,      \* a bit field of four bits
  dma_interrupt_action,
  pid_of_sleeping_task,
  sleep_timer             \* TIM3 counts

queueVars == <<running_tasks, waiting_tasks, state>>
tcbVars   == <<pid, join_pid, parent_task>>
cpuVars   == <<currently_running, task_to_preserve, sp, psp, pendsv>>
callVars  == <<call, arg, scan>>
sleepVars == <<pid_of_sleeping_task, sleep_timer>>
vars == <<queueVars, tcbVars, cpuVars, callVars, sleepVars,
          clean_up_requests, dma_interrupt_action>>

-----------------------------------------------------------------------------
IdlePid  == 0
NoPid    == -1
Pids     == 0..Cardinality(Task)
CleanUpModulus == 16

(* The value of a local variable of a function that is not active. *)
NoScan == [q |-> Idle, j |-> 0]

Queues == [running |-> running_tasks, waiting |-> waiting_tasks, state |-> state]

(* A new value for all three queue variables. *)
SetQueues(q) ==
  /\ running_tasks' = q.running
  /\ waiting_tasks' = q.waiting
  /\ state' = q.state

(* Task t executes its own code and no context switch is pending. *)
Executes(t) == psp = t /\ ~pendsv /\ call = "none"

-----------------------------------------------------------------------------
(***************************************************************************)
(* setup_kernel_runtime: idle is created with pid 0 into the waiting       *)
(* queue, run_scheduler wakes it up, and execPspTask starts it.            *)
(***************************************************************************)
Init ==
  /\ running_tasks = <<Idle>>
  /\ waiting_tasks = <<>>
  /\ state = [t \in Task |-> IF t = Idle THEN "READY" ELSE "FREE"]
  /\ pid = [t \in Task |-> IdlePid]
  /\ join_pid = [t \in Task |-> NoPid]
  /\ parent_task = [t \in Task |-> NULL]
  /\ currently_running = Idle
  /\ task_to_preserve = Idle
  /\ sp = [t \in Task |-> t]
  /\ psp = Idle
  /\ pendsv = FALSE
  /\ call = "none"
  /\ arg = NoPid
  /\ scan = NoScan
  /\ clean_up_requests = 0
  /\ dma_interrupt_action = "DmaIsIdle"
  /\ pid_of_sleeping_task = IdlePid
  /\ sleep_timer = FALSE

-----------------------------------------------------------------------------
(***************************************************************************)
(* System calls and kernel functions of the thread on the processor.       *)
(***************************************************************************)

(* svcall(yieldTask), and printMsg, which falls through into it. *)
YieldTask(t) ==
  /\ Executes(t)
  /\ pendsv' = TRUE
  /\ UNCHANGED <<queueVars, tcbVars, currently_running, task_to_preserve, sp, psp,
                 callVars, sleepVars, clean_up_requests, dma_interrupt_action>>

(* Mutant: the pid counts the waiting tasks only. *)
CreateTask_WaitingOnly(t, n) ==
  /\ Executes(t) /\ t # n
  /\ state[n] = "FREE"
  /\ pid' = [pid EXCEPT ![n] = Len(waiting_tasks)]
  /\ state' = [state EXCEPT ![n] = "READY"]
  /\ running_tasks' = Append(running_tasks, n)
  /\ UNCHANGED <<waiting_tasks, join_pid, parent_task, cpuVars, callVars, sleepVars,
                 clean_up_requests, dma_interrupt_action>>

(***************************************************************************)
(* create_task: the pid is the number of tasks known at the time.          *)
(***************************************************************************)
CreateTask(t, n) ==
  LET p == Len(running_tasks) + Len(waiting_tasks) IN
  /\ Executes(t)
  /\ state[n] = "FREE"
  /\ pid' = [pid EXCEPT ![n] = p]
  /\ join_pid' = [join_pid EXCEPT ![n] = NoPid]
  /\ parent_task' = [parent_task EXCEPT ![n] = currently_running]
  /\ sp' = [sp EXCEPT ![n] = n]
  /\ IF p = 0
       THEN /\ state' = [state EXCEPT ![n] = "WAITING"]
            /\ waiting_tasks' = Append(waiting_tasks, n)
            /\ UNCHANGED running_tasks
       ELSE /\ state' = [state EXCEPT ![n] = "READY"]
            /\ running_tasks' = Append(running_tasks, n)
            /\ UNCHANGED waiting_tasks
  /\ UNCHANGED <<currently_running, task_to_preserve, psp, pendsv, callVars,
                 sleepVars, clean_up_requests, dma_interrupt_action>>

(* Mutant: the context is preserved for the task current points to afterwards. *)
BlockCurrentTask_PreservesPrev(t) ==
  LET c == currently_running
      rest == Isolate(running_tasks, c) IN
  /\ psp = t /\ ~pendsv /\ call \in {"none", "block"}
  /\ state' = [state EXCEPT ![c] = "WAITING"]
  /\ task_to_preserve' = RingPrev(running_tasks, c)
  /\ running_tasks' = rest
  /\ waiting_tasks' = Append(waiting_tasks, c)
  /\ currently_running' = IF Len(rest) > 0 THEN RingPrev(running_tasks, c) ELSE NULL
  /\ call' = "yield"
  /\ UNCHANGED <<tcbVars, sp, psp, pendsv, arg, scan, sleepVars,
                 clean_up_requests, dma_interrupt_action>>

(***************************************************************************)
(* block_current_task up to enable_irq: the masked section.  The thread    *)
(* still runs, on a task that now waits, until it reaches svcall.          *)
(***************************************************************************)
BlockCurrentTask(t) ==
  LET c == currently_running
      rest == Isolate(running_tasks, c) IN
  /\ psp = t /\ ~pendsv /\ call \in {"none", "block"}
  /\ state' = [state EXCEPT ![c] = "WAITING"]
  /\ task_to_preserve' = c
  /\ running_tasks' = rest
  /\ waiting_tasks' = Append(waiting_tasks, c)
  /\ currently_running' = IF Len(rest) > 0 THEN RingPrev(running_tasks, c) ELSE NULL
  /\ call' = "yield"
  /\ UNCHANGED <<tcbVars, sp, psp, pendsv, arg, scan, sleepVars,
                 clean_up_requests, dma_interrupt_action>>

(* The svcall(yieldTask) that ends block_current_task. *)
BlockYields ==
  /\ ~pendsv /\ call = "yield"
  /\ pendsv' = TRUE
  /\ call' = "none"
  /\ UNCHANGED <<queueVars, tcbVars, currently_running, task_to_preserve, sp, psp,
                 arg, scan, sleepVars, clean_up_requests, dma_interrupt_action>>

(***************************************************************************)
(* task_sleep up to timer_start; block_current_task follows.  One global   *)
(* holds the pid of the sleeper.                                           *)
(***************************************************************************)
TaskSleep(t) ==
  /\ Executes(t) /\ t # Idle
  /\ pid_of_sleeping_task' = pid[currently_running]
  /\ sleep_timer' = TRUE
  /\ call' = "block"
  /\ UNCHANGED <<queueVars, tcbVars, cpuVars, arg, scan, clean_up_requests,
                 dma_interrupt_action>>

(* join_task(p) is called ... *)
JoinTask(t, p) ==
  /\ Executes(t) /\ t # Idle
  /\ arg' = p
  /\ call' = "join"
  /\ UNCHANGED <<queueVars, tcbVars, cpuVars, scan, sleepVars, clean_up_requests,
                 dma_interrupt_action>>

(* check_tasks_availability: a READY task with this pid in the waiting queue. *)
TaskAvailable(p) ==
  \E i \in DOMAIN waiting_tasks : /\ pid[waiting_tasks[i]] = p
                                  /\ state[waiting_tasks[i]] = "READY"

(* ... and either returns at once or goes on to block_current_task. *)
JoinDecides ==
  /\ ~pendsv /\ call = "join"
  /\ join_pid' = IF TaskAvailable(arg)
                   THEN [join_pid EXCEPT ![currently_running] = arg]
                   ELSE join_pid
  /\ call' = IF TaskAvailable(arg) THEN "block" ELSE "none"
  /\ arg' = NoPid
  /\ UNCHANGED <<queueVars, pid, parent_task, cpuVars, scan, sleepVars,
                 clean_up_requests, dma_interrupt_action>>

(***************************************************************************)
(* finish_task wakes a parent that joined c.  The tcb of the parent may    *)
(* have been deallocated: then its pid and join_pid can be anything.       *)
(***************************************************************************)
AfterJoin(q, c) ==
  LET parent == parent_task[c] IN
  IF state[parent] = "FREE" THEN {q} \cup {Wakeup(q, pid, p) : p \in Pids}
  ELSE IF join_pid[parent] = pid[c] THEN {Wakeup(q, pid, pid[parent])}
  ELSE {q}

(* Mutant: finish_task cleans up its own task. *)
FinishTask_CleansUp(t) ==
  LET rest == Isolate(running_tasks, t) IN
  /\ Executes(t) /\ t # Idle
  /\ running_tasks' = rest
  /\ state' = [state EXCEPT ![t] = "FREE"]
  /\ currently_running' = IF Len(rest) > 0 THEN RingPrev(running_tasks, t) ELSE NULL
  /\ pendsv' = TRUE
  /\ UNCHANGED <<waiting_tasks, tcbVars, task_to_preserve, sp, psp, callVars,
                 sleepVars, clean_up_requests, dma_interrupt_action>>

(***************************************************************************)
(* finish_task: a task function returns into it (prepare_cpu_register puts *)
(* it into lr).  The idle task never returns.                              *)
(***************************************************************************)
FinishTask(t) ==
  LET finished == WithState(Queues, currently_running, "FINISHED") IN
  /\ Executes(t) /\ t # Idle
  /\ \E q \in AfterJoin(finished, currently_running) : SetQueues(q)
  /\ clean_up_requests' = (clean_up_requests + 1) % CleanUpModulus
  /\ pendsv' = TRUE
  /\ UNCHANGED <<tcbVars, currently_running, task_to_preserve, sp, psp, callVars,
                 sleepVars, dma_interrupt_action>>

-----------------------------------------------------------------------------
(***************************************************************************)
(* search_invalidate_tasks, called by the idle task: one step per          *)
(* iteration, since interrupts may strike between two of them.             *)
(***************************************************************************)
SearchStarts ==
  /\ Executes(Idle)
  /\ clean_up_requests # 0
  /\ call' = "search"
  /\ scan' = [q |-> currently_running, j |-> 0]
  /\ UNCHANGED <<queueVars, tcbVars, cpuVars, arg, sleepVars, clean_up_requests,
                 dma_interrupt_action>>

(* The loop condition j < running_tasks->size, with the size of now. *)
Searching == ~pendsv /\ call = "search" /\ scan.j < Len(running_tasks)

(* q = q->next; the node of a removed task still holds its old next pointer. *)
Advance == scan' = [q |-> RingNext(running_tasks, scan.q, 1), j |-> scan.j + 1]

SearchSkips ==
  /\ Searching
  /\ state[scan.q] \notin {"FINISHED", "INVALID"}
  /\ Advance
  /\ UNCHANGED <<queueVars, tcbVars, cpuVars, call, arg, sleepVars,
                 clean_up_requests, dma_interrupt_action>>

(***************************************************************************)
(* clean_up_task: the tcb, its stack and its queue node are deallocated.   *)
(* What a deallocated tcb holds is arbitrary from now on, here its fields  *)
(* are reset, and AfterJoin, the one reader, does not look at them.        *)
(***************************************************************************)
CleanUpTask ==
  /\ Searching
  /\ state[scan.q] \in {"FINISHED", "INVALID"}
  /\ running_tasks' = Isolate(running_tasks, scan.q)
  /\ state' = [state EXCEPT ![scan.q] = "FREE"]
  /\ pid' = [pid EXCEPT ![scan.q] = IdlePid]
  /\ join_pid' = [join_pid EXCEPT ![scan.q] = NoPid]
  /\ parent_task' = [parent_task EXCEPT ![scan.q] = NULL]
  /\ clean_up_requests' = (clean_up_requests - 1) % CleanUpModulus
  /\ Advance
  /\ UNCHANGED <<waiting_tasks, cpuVars, call, arg, sleepVars,
                 dma_interrupt_action>>

(* Mutant: one search is taken to have served every request. *)
SearchEnds_Resets ==
  /\ ~pendsv /\ call = "search"
  /\ scan.j >= Len(running_tasks)
  /\ call' = "none"
  /\ scan' = NoScan
  /\ clean_up_requests' = 0
  /\ UNCHANGED <<queueVars, tcbVars, cpuVars, arg, sleepVars, dma_interrupt_action>>

SearchEnds ==
  /\ ~pendsv /\ call = "search"
  /\ scan.j >= Len(running_tasks)
  /\ call' = "none"
  /\ scan' = NoScan
  /\ UNCHANGED <<queueVars, tcbVars, cpuVars, arg, sleepVars,
                 clean_up_requests, dma_interrupt_action>>

-----------------------------------------------------------------------------
(***************************************************************************)
(* pendsv_isr.  ForcePid0 is force_pid0_into_running: the first running    *)
(* task with pid 0 becomes READY and current.                              *)
(***************************************************************************)
Pid0(q) == {i \in DOMAIN q.running : pid[q.running[i]] = 0}

ForcePid0(q) ==
  IF Pid0(q) = {} THEN [q |-> q, current |-> NULL]
  ELSE LET z == q.running[Min(Pid0(q))]
       IN  [q |-> WithState(q, z, "READY"), current |-> z]

(* wakeup_pid(idle_task), and force_pid0_into_running when nobody waits. *)
WakeIdle(q) ==
  IF HasPid(q, pid, IdlePid) # {}
    THEN [q |-> Wakeup(q, pid, IdlePid), current |-> FirstWithPid(q, pid, IdlePid)]
    ELSE ForcePid0(q)

(* Mutant: no READY task, no task. *)
SwitchTask_NoFallback ==
  IF currently_running = NULL THEN WakeIdle(Queues)
  ELSE IF ReadyDistances(Queues, currently_running) # {}
    THEN [q |-> Queues, current |-> NextReady(Queues, currently_running)]
    ELSE [q |-> Queues, current |-> NULL]

(* switch_task: the queues it leaves and the task it selects. *)
SwitchTask ==
  LET q == IF dma_interrupt_action = "DmaTransferedExternalTask"
             THEN Wakeup(Queues, pid, IdlePid)
             ELSE Queues
  IN  IF currently_running = NULL THEN WakeIdle(Queues)
      ELSE IF ReadyDistances(q, currently_running) # {}
        THEN [q |-> q, current |-> NextReady(q, currently_running)]
        ELSE WakeIdle(q)

PendSV ==
  /\ pendsv
  /\ \E next \in {SwitchTask} :
       /\ sp' = [sp EXCEPT ![task_to_preserve] = psp]
       /\ SetQueues(next.q)
       /\ currently_running' = next.current
       /\ task_to_preserve' = next.current
       /\ psp' = IF next.current = NULL THEN NULL ELSE sp'[next.current]
  /\ pendsv' = FALSE
  /\ UNCHANGED <<tcbVars, callVars, sleepVars, clean_up_requests,
                 dma_interrupt_action>>

-----------------------------------------------------------------------------
(***************************************************************************)
(* Interrupts.                                                             *)
(***************************************************************************)

(* wakeup_pid(p) by a handler: uart_isr_handler, svc wakeupPid, wakeupIoHandler. *)
HandlerWakeup(p) ==
  /\ SetQueues(Wakeup(Queues, pid, p))
  /\ UNCHANGED <<tcbVars, cpuVars, callVars, sleepVars, clean_up_requests,
                 dma_interrupt_action>>

(* tim3_isr_handler: the timer stops and wakes the one task it remembers. *)
Tim3Isr ==
  /\ sleep_timer
  /\ sleep_timer' = FALSE
  /\ SetQueues(Wakeup(Queues, pid, pid_of_sleeping_task))
  /\ UNCHANGED <<tcbVars, cpuVars, callVars, pid_of_sleeping_task,
                 clean_up_requests, dma_interrupt_action>>

(* The DMA handler and the tasks around it, which the scheduler only listens to. *)
DmaActionChanges ==
  /\ dma_interrupt_action' \in DmaActions \ {dma_interrupt_action}
  /\ UNCHANGED <<queueVars, tcbVars, cpuVars, callVars, sleepVars,
                 clean_up_requests>>

-----------------------------------------------------------------------------
ThreadStep ==
  \/ \E t \in Task : \/ YieldTask(t)
                     \/ BlockCurrentTask(t)
                     \/ TaskSleep(t)
                     \/ FinishTask(t)
                     \/ \E n \in Task : CreateTask(t, n)
                     \/ \E p \in Pids : JoinTask(t, p)
  \/ JoinDecides
  \/ BlockYields
  \/ SearchStarts
  \/ SearchSkips
  \/ CleanUpTask
  \/ SearchEnds

Interrupt ==
  \/ \E p \in Pids : HandlerWakeup(p)
  \/ Tim3Isr
  \/ DmaActionChanges

Next == ThreadStep \/ PendSV \/ Interrupt

Spec == Init /\ [][Next]_vars

(***************************************************************************)
(* Fairness.  PendSV and TIM3 are served once they are pending, a kernel   *)
(* function that has been entered goes on, and no task keeps the processor *)
(* for ever: the scheduling is cooperative, so that much is left to the    *)
(* tasks.                                                                  *)
(***************************************************************************)
GivesUpProcessor ==
  \E t \in Task : YieldTask(t) \/ BlockCurrentTask(t) \/ TaskSleep(t) \/ FinishTask(t)

KernelContinues ==
  BlockYields \/ JoinDecides \/ SearchSkips \/ CleanUpTask \/ SearchEnds

Fairness ==
  /\ WF_vars(PendSV)
  /\ WF_vars(Tim3Isr)
  /\ WF_vars(KernelContinues)
  /\ SF_vars(GivesUpProcessor)

FairSpec == Spec /\ Fairness

-----------------------------------------------------------------------------
(***************************************************************************)
(* Properties.                                                             *)
(***************************************************************************)
Live == {t \in Task : state[t] # "FREE"}

(* The type invariant. *)
TypeOK ==
  /\ running_tasks \in Seq(Task)
  /\ waiting_tasks \in Seq(Task)
  /\ state \in [Task -> {"READY", "WAITING", "FINISHED", "INVALID", "FREE"}]
  /\ pid \in [Task -> Nat]
  /\ join_pid \in [Task -> Nat \cup {NoPid}]
  /\ parent_task \in [Task -> Task \cup {NULL}]
  /\ currently_running \in Task \cup {NULL}
  /\ task_to_preserve \in Task
  /\ sp \in [Task -> Task]
  /\ psp \in Task
  /\ pendsv \in BOOLEAN
  /\ call \in {"none", "block", "yield", "join", "search"}
  /\ arg \in Nat \cup {NoPid}
  /\ scan \in [q : Task, j : Nat]
  /\ clean_up_requests \in 0..(CleanUpModulus - 1)
  /\ dma_interrupt_action \in DmaActions
  /\ pid_of_sleeping_task \in Nat
  /\ sleep_timer \in BOOLEAN

(***************************************************************************)
(* Every allocated task is a node of exactly one queue, once, and the      *)
(* state in its tcb says which: block_current_task and wakeup_pid move the *)
(* node and the state together, finish_task leaves the node where it is,   *)
(* and clean_up_task removes the node of the tcb it deallocates.           *)
(***************************************************************************)
QueuesPartitionTasks ==
  /\ IsInjective(running_tasks)
  /\ IsInjective(waiting_tasks)
  /\ ToSet(running_tasks) = {t \in Task : state[t] \in {"READY", "FINISHED"}}
  /\ ToSet(waiting_tasks) = {t \in Task : state[t] = "WAITING"}

(***************************************************************************)
(* Outside a task switch the thread on the processor is the READY task     *)
(* currently_running points to.  In the window in which block_current_task *)
(* has moved it away, or finish_task has marked it, currently_running is a *)
(* node of the running queue, or NULL.                                     *)
(***************************************************************************)
ProcessorAgreesWithQueues ==
  /\ (~pendsv /\ call # "yield") =>
        currently_running = psp /\ state[psp] = "READY"
  /\ currently_running \in ToSet(running_tasks) \cup {NULL}

(***************************************************************************)
(* pendsv_isr saves the stack pointer of the thread it interrupts into the *)
(* tcb of that thread, although block_current_task has already moved       *)
(* currently_running away from it; so each saved stack pointer points into *)
(* the stack of its own task.                                              *)
(***************************************************************************)
ContextsBelongToTasks ==
  /\ task_to_preserve = psp
  /\ \A t \in Task : sp[t] = t

(***************************************************************************)
(* clean_up_task never deallocates the tcb or the stack of a task that the *)
(* scheduler still points to or the processor still uses.                  *)
(***************************************************************************)
NothingInUseIsFree ==
  /\ psp \in Live
  /\ currently_running \in Live \cup {NULL}
  /\ call = "search" /\ scan.j < Len(running_tasks) => scan.q \in Live

(***************************************************************************)
(* A task switch always has a task to load.  The idle task is there to     *)
(* fall back on: it never finishes, and although create_task derives pids  *)
(* from the queue lengths and hands some out twice, nobody but the idle    *)
(* task has the pid 0 that wakeup_pid and force_pid0_into_running look     *)
(* for.                                                                    *)
(***************************************************************************)
IdleKnownByPid ==
  /\ state[Idle] \in {"READY", "WAITING"}
  /\ \A t \in Live : pid[t] = IdlePid <=> t = Idle

SwitchFindsTask == IdleKnownByPid /\ (pendsv => SwitchTask.current # NULL)

(***************************************************************************)
(* The invariants above are inductive together with what is known about    *)
(* the thread inside a kernel function.                                    *)
(***************************************************************************)
CallsInOrder ==
  /\ pendsv => call = "none"
  /\ call = "search" => psp = Idle /\ scan.q \in ToSet(running_tasks)
  /\ state[psp] # "FREE"

IInv == /\ TypeOK
        /\ QueuesPartitionTasks
        /\ ProcessorAgreesWithQueues
        /\ ContextsBelongToTasks
        /\ IdleKnownByPid
        /\ CallsInOrder

(***************************************************************************)
(* clean_up_requests counts the finished tasks that wait for the idle      *)
(* task: search_invalidate_tasks may leave some of them for the next time, *)
(* and the four bits of the counter never wrap.                            *)
(***************************************************************************)
CleanUpRequestsExact ==
  clean_up_requests = Cardinality({t \in Task : state[t] = "FINISHED"})

(***************************************************************************)
(* A finished task never runs again and its tcb is reused only after it    *)
(* has been cleaned up.                                                    *)
(***************************************************************************)
FinishedTasksOnlyLeave ==
  [][\A t \in Task : state[t] = "FINISHED" =>
        /\ state'[t] \in {"FINISHED", "FREE"}
        /\ psp # t => psp' # t]_vars

(***************************************************************************)
(* Once no task but the idle task is woken up any more, the idle task only *)
(* by switch_task, and no transfer waits for it, switch_task gets round to *)
(* every task that is ready to run.  (As long as a transfer waits, every   *)
(* switch wakes the idle task, which may then run ahead of the others;     *)
(* clearing dma_interrupt_action is the business of idle_runner.)          *)
(***************************************************************************)
WakesOnlyIdle ==
  \A t \in Task : state[t] = "WAITING" /\ state'[t] = "READY"
                   => t = Idle /\ pendsv /\ ~pendsv'

Quiet == /\ <>[][WakesOnlyIdle]_vars
         /\ <>[](dma_interrupt_action = "DmaIsIdle")

ReadyTaskRuns == Quiet => \A t \in Task : state[t] = "READY" ~> psp = t

(***************************************************************************)
(* README.md:15, "Thread Sleep: Allows threads to sleep": a task that has  *)
(* gone to sleep with the timer set for it is woken in the end.            *)
(***************************************************************************)
Sleeps(t) ==
  state[t] = "WAITING" /\ sleep_timer /\ pid_of_sleeping_task = pid[t]

SleepingTaskIsWoken == \A t \in Task : Sleeps(t) ~> state[t] = "READY"

(***************************************************************************)
(* README.md:14, "Thread Join: Supports the ability for threads to join",  *)
(* tested with the words "Ensure that t0 is done first": join_task returns *)
(* to its caller only when no other task with this pid is still to finish. *)
(***************************************************************************)
Unfinished(p) == {t \in Task \ {psp} : pid[t] = p /\ state[t] \in {"READY", "WAITING"}}

JoinWaits == [][call = "join" /\ call' = "none" => Unfinished(arg) = {}]_vars

=============================================================================
