---------------------------- MODULE RuntimeProofs ---------------------------
(***************************************************************************)
(* The kernel's own tasks for any number of modules and of chunks: they    *)
(* use the scheduler as Scheduler allows, and, when no module wakes the    *)
(* I/O task, they start only code that a transfer they expected has        *)
(* brought completely.                                                     *)
(***************************************************************************)
EXTENDS Runtime, SchedulerProofs

-----------------------------------------------------------------------------
(***************************************************************************)
(* The inductive invariant.  The first part holds whatever modules wake.   *)
(***************************************************************************)

(* external_io_runner exists from the end of the start-up on, and is known  *)
(* by its pid.                                                             *)
IoKnown ==
  IF idle_pc = "startup" THEN state[Io] = "FREE"
  ELSE state[Io] \in {"READY", "WAITING"} /\ pid[Io] = io_pid

(* All tasks are created by idle_runner, and none is joined. *)
Children ==
  \A t \in Task : /\ join_pid[t] = NoPid
                  /\ state[t] # "FREE" /\ t # Idle => parent_task[t] = Idle

(* The places of the two runners they do not yield at. *)
Held ==
  /\ io_pc # "serve" => Executes(Io)
  /\ idle_pc = "clear" => Executes(Idle)

KernelInv == IInv /\ RuntimeTypeOK /\ IoKnown /\ Children /\ Held

(* While the stream runs, external_io_runner waits or is on its way to, and *)
(* nobody wakes it; idle_runner has nothing to clear.                      *)
Transfer ==
  /\ TransferIsExpected
  /\ stream # NULL => /\ io_pc = "block" \/ (io_pc = "serve" /\ state[Io] = "WAITING")
                      /\ idle_pc # "clear"
  /\ io_pc \in {"expect", "transfer"} => start_adress \in Chunk
  /\ io_pc = "transfer" => dma_interrupt_action = "DmaWaitsForExternalTask"

(* What has arrived is complete, until idle_runner has taken it or          *)
(* external_io_runner gives it up for another one.                         *)
Complete ==
  dma_interrupt_action = "DmaTransferedExternalTask" /\ idle_pc # "clear" /\ io_pc # "expect"
    => start_adress \in received

TransferInv == Transfer /\ Complete

-----------------------------------------------------------------------------
(* The two kernel tasks are different tasks; the idle task is never free. *)
LEMMA KernelTasks == Io \in Task /\ Idle \in Task /\ Io # Idle
BY RuntimeAssumption, TaskAssumption

(* Two sequences with nothing in common have room in a finite set. *)
LEMMA DisjointSequencesFit ==
  ASSUME NEW S, IsFiniteSet(S), NEW r \in Seq(S), NEW w \in Seq(S),
         IsInjective(r), IsInjective(w), ToSet(r) \cap ToSet(w) = {}
  PROVE  Len(r) + Len(w) \in 0..Cardinality(S)
<1> DEFINE n == Len(r) + Len(w)
           f == [i \in 1..n |-> IF i <= Len(r) THEN r[i] ELSE w[i - Len(r)]]
<1>1. /\ Len(r) \in Nat /\ Len(w) \in Nat /\ n \in Nat
      /\ DOMAIN r = 1..Len(r) /\ DOMAIN w = 1..Len(w)
      /\ \A i \in DOMAIN r : r[i] \in S
      /\ \A i \in DOMAIN w : w[i] \in S
  OBVIOUS
<1>2. \A i \in DOMAIN r, j \in DOMAIN w : r[i] # w[j]
  BY DEF ToSet
<1>3. ASSUME NEW i \in 1..n
      PROVE  \/ i <= Len(r) /\ i \in DOMAIN r /\ f[i] = r[i]
             \/ ~(i <= Len(r)) /\ i - Len(r) \in DOMAIN w /\ f[i] = w[i - Len(r)]
  BY <1>1
<1> HIDE DEF n
<1>4. f \in [1..n -> S]
  BY <1>1, <1>3
<1>5. ASSUME NEW a \in 1..n, NEW b \in 1..n, f[a] = f[b] PROVE a = b
  <2> DEFINE fa == f[a]
             fb == f[b]
  <2>1. \/ a <= Len(r) /\ a \in DOMAIN r /\ fa = r[a]
        \/ ~(a <= Len(r)) /\ a - Len(r) \in DOMAIN w /\ fa = w[a - Len(r)]
    BY <1>3
  <2>2. \/ b <= Len(r) /\ b \in DOMAIN r /\ fb = r[b]
        \/ ~(b <= Len(r)) /\ b - Len(r) \in DOMAIN w /\ fb = w[b - Len(r)]
    BY <1>3
  <2>3. fa = fb
    BY <1>5
  <2> HIDE DEF f, fa, fb
  <2>4. CASE a <= Len(r) /\ b <= Len(r)
    BY <2>1, <2>2, <2>3, <2>4 DEF IsInjective
  <2>5. CASE ~(a <= Len(r)) /\ ~(b <= Len(r))
    <3>1. a - Len(r) = b - Len(r)
      BY <2>1, <2>2, <2>3, <2>5 DEF IsInjective
    <3>2. a \in Int /\ b \in Int
      OBVIOUS
    <3> QED BY <1>1, <3>1, <3>2
  <2>6. ~(a <= Len(r) /\ ~(b <= Len(r))) /\ ~(~(a <= Len(r)) /\ b <= Len(r))
    BY <1>2, <2>1, <2>2, <2>3
  <2> QED BY <2>4, <2>5, <2>6
<1> HIDE DEF f
<1>6. f \in Injection(1..n, S)
  <2>1. DOMAIN f = 1..n
    BY <1>4
  <2>2. IsInjective(f)
    BY <1>5, <2>1 DEF IsInjective
  <2> QED BY <1>4, <2>2 DEF Injection
<1>7. Cardinality(1..n) = n
  <2>1. n \in Nat
    BY <1>1 DEF n
  <2>2. Cardinality(1..n) = IF 1 > n THEN 0 ELSE n - 1 + 1
    BY <2>1, FS_Interval
  <2> QED BY <2>1, <2>2
<1>8. Cardinality(1..n) <= Cardinality(S)
  BY <1>6, FS_Injection
<1>9. Cardinality(S) \in Nat /\ n \in Nat
  BY <1>1, FS_CardinalityType DEF n
<1> QED
  BY <1>7, <1>8, <1>9 DEF n

(* The queues together hold no more nodes than there are tasks. *)
LEMMA QueuesFitTasks ==
  ASSUME NEW q, Partition(q)
  PROVE  Len(q.running) + Len(q.waiting) \in Pids
<1>1. ToSet(q.running) \cap ToSet(q.waiting) = {}
  BY DEF Partition
<1> QED
  BY <1>1, TaskAssumption, DisjointSequencesFit DEF Partition, Pids

(* The tasks that are woken on the way from q to r have the pid p. *)
WakesPid(q, r, p) ==
  \A t \in Task : r.state[t] = q.state[t]
                    \/ (q.state[t] = "WAITING" /\ r.state[t] = "READY" /\ pid[t] = p)

(* wakeup_pid wakes a task with the pid it is given. *)
LEMMA WakeupWakesPid ==
  ASSUME NEW q, Partition(q), NEW p
  PROVE  WakesPid(q, Wakeup(q, pid, p), p)
<1>1. CASE HasPid(q, pid, p) = {}
  BY <1>1 DEF Wakeup, WakesPid
<1>2. CASE HasPid(q, pid, p) # {}
  <2> DEFINE t == FirstWithPid(q, pid, p)
  <2>1. t \in ToSet(q.waiting) /\ pid[t] = p
    BY <1>2, FirstWithPidWaits DEF Partition
  <2>2. t \in Task /\ q.state[t] = "WAITING" /\ q.state \in [Task -> States]
    BY <2>1 DEF Partition
  <2>3. Wakeup(q, pid, p).state = [q.state EXCEPT ![t] = "READY"]
    BY <1>2 DEF Wakeup, MoveToRunning
  <2> HIDE DEF t
  <2> QED BY <2>1, <2>2, <2>3 DEF WakesPid
<1> QED BY <1>1, <1>2

(* A task switch wakes nobody but the idle task. *)
LEMMA SwitchWakesIdle ==
  ASSUME Partition(Queues), IdleIn(Queues),
         currently_running \in ToSet(running_tasks) \cup {NULL}
  PROVE  WakesPid(Queues, SwitchTask.q, IdlePid)
<1> DEFINE q == IF dma_interrupt_action = "DmaTransferedExternalTask"
                  THEN Wakeup(Queues, pid, IdlePid)
                  ELSE Queues
<1>1. Partition(q) /\ WakesPid(Queues, q, IdlePid) /\ IdleIn(q)
  <2>1. CASE q = Queues
    BY <2>1 DEF WakesPid
  <2>2. CASE q = Wakeup(Queues, pid, IdlePid)
    BY <2>2, WakeupKeepsPartition, WakeupWakesPid, WakesKeepIdle
  <2> QED BY <2>1, <2>2
<1>2. ASSUME NEW s, Partition(s), IdleIn(s) PROVE WakesPid(s, WakeIdle(s).q, IdlePid)
  <2>1. CASE HasPid(s, pid, IdlePid) # {}
    BY <1>2, <2>1, WakeupWakesPid DEF WakeIdle
  <2>2. CASE HasPid(s, pid, IdlePid) = {}
    <3>1. OnlyWakes(s, WakeIdle(s).q)
      BY <1>2, WakeIdleSelectsReady
    <3>2. CASE Pid0(s) = {}
      BY <2>2, <3>2 DEF WakeIdle, ForcePid0, WakesPid
    <3>3. CASE Pid0(s) # {}
      <4> DEFINE z == s.running[Min(Pid0(s))]
      <4>1. Pid0(s) \in SUBSET Nat
        BY <1>2 DEF Pid0, Partition
      <4>2. pid[z] = 0
        BY <3>3, <4>1, MinInSet DEF Pid0
      <4>3. WakeIdle(s).q.state = [s.state EXCEPT ![z] = "READY"]
        BY <2>2, <3>3 DEF WakeIdle, ForcePid0, WithState
      <4> HIDE DEF z
      <4> QED BY <1>2, <3>1, <4>2, <4>3 DEF WakesPid, OnlyWakes, Partition, IdlePid
    <3> QED BY <3>2, <3>3
  <2> QED BY <2>1, <2>2
<1>3. SwitchTask.q = q \/ SwitchTask.q = WakeIdle(q).q \/ SwitchTask.q = WakeIdle(Queues).q
  BY DEF SwitchTask
<1> HIDE DEF q
<1>4. WakesPid(q, WakeIdle(q).q, IdlePid) /\ WakesPid(Queues, WakeIdle(Queues).q, IdlePid)
  BY <1>1, <1>2
<1>5. WakesPid(Queues, WakeIdle(q).q, IdlePid)
  BY <1>1, <1>4 DEF WakesPid
<1> QED BY <1>1, <1>3, <1>4, <1>5
-----------------------------------------------------------------------------
(***************************************************************************)
(* What the runtime does to the scheduler.                                 *)
(***************************************************************************)

(* While a task executes, it is READY and in the running queue. *)
LEMMA ExecutingTask ==
  ASSUME IInv, NEW t \in Task, Executes(t)
  PROVE  currently_running = t /\ state[t] = "READY" /\ t \in ToSet(running_tasks)
BY DEF IInv, Executes, ProcessorAgreesWithQueues, QueuesPartitionTasks

(* The start-up creates one module after the other. *)
LEMMA ModuleStarts ==
  ASSUME IInv, IdleStartsModule
  PROVE  \E n \in Task \ {Idle, Io} : CreateTask(Idle, n)
<1>1. Executes(Idle) /\ Len(running_tasks) <= Len(Modules)
      /\ CreateTask(Idle, Modules[Len(running_tasks)])
  BY DEF IdleStartsModule, IdleAt
<1>2. Idle \in ToSet(running_tasks)
  BY <1>1, ExecutingTask, KernelTasks
<1>3. running_tasks \in Seq(Task)
  BY DEF IInv, TypeOK
<1>4. Len(running_tasks) \in Nat /\ Len(running_tasks) # 0
  BY <1>2, <1>3 DEF ToSet
<1>5. Modules \in Seq(Task \ {Idle, Io})
  BY RuntimeAssumption
<1>6. Len(running_tasks) \in 1..Len(Modules)
  BY <1>1, <1>4, <1>5
<1>7. Modules[Len(running_tasks)] \in Task \ {Idle, Io}
  BY <1>5, <1>6
<1> QED
  BY <1>1, <1>7

(* Only the DMA action changes, or nothing the scheduler knows of. *)
LEMMA DmaStep ==
  ASSUME UNCHANGED schedulerButDma,
         dma_interrupt_action' = dma_interrupt_action \/ dma_interrupt_action' \in DmaJobs
  PROVE  [Next]_vars
<1>1. CASE dma_interrupt_action' = dma_interrupt_action
  BY <1>1 DEF schedulerButDma, vars
<1>2. CASE dma_interrupt_action' # dma_interrupt_action
  BY <1>2, RuntimeAssumption DEF schedulerButDma, Next, Interrupt, DmaActionChanges
<1> QED BY <1>1, <1>2

(* Every step of the kernel's tasks, of the modules and of the handlers is  *)
(* a step of Scheduler or none.                                            *)
LEMMA RuntimeStepsScheduler ==
  ASSUME IInv, io_pid \in Pids, [RuntimeNext]_allVars
  PROVE  [Next]_vars
<1>1. IdlePid \in Pids /\ Idle \in Task /\ Io \in Task
  BY TaskAssumption, KernelTasks DEF Pids, IdlePid
<1>2. ASSUME NEW n \in Task, CreateTask(Idle, n) PROVE [Next]_vars
  BY <1>1, <1>2 DEF Next, ThreadStep
<1>3. ASSUME NEW t \in Task, BlockCurrentTask(t) PROVE [Next]_vars
  BY <1>3 DEF Next, ThreadStep
<1>4. ASSUME NEW p \in Pids, HandlerWakeup(p) PROVE [Next]_vars
  BY <1>4 DEF Next, Interrupt
<1>5. CASE IdleStartsModule
  BY <1>2, <1>5, ModuleStarts
<1>6. CASE IdleStartsIo
  BY <1>1, <1>2, <1>6 DEF IdleStartsIo
<1>7. CASE IdleCleansUp
  BY <1>7 DEF IdleCleansUp, Next, ThreadStep
<1>8. CASE SearchContinues
  BY <1>8 DEF SearchContinues, Next, ThreadStep
<1>9. CASE IdleCreatesTask
  BY <1>2, <1>9 DEF IdleCreatesTask
<1>10. CASE IdleHasNoTask \/ IdleRunsSubtasks \/ IdleLooksAround \/ IdleSleeps
  BY <1>10 DEF IdleHasNoTask, IdleRunsSubtasks, IdleLooksAround, IdleSleeps
<1>11. CASE IdleClearsAction
  BY <1>11, DmaStep DEF IdleClearsAction, DmaJobs
<1>12. CASE IdleBlocks \/ IoBlocks
  BY <1>1, <1>3, <1>12 DEF IdleBlocks, IoBlocks
<1>13. CASE IoPrepares \/ IoTransfers \/ IoForgets \/ UartByte
  BY <1>13 DEF IoPrepares, IoTransfers, IoForgets, UartByte
<1>14. CASE IoExpects
  BY <1>14, DmaStep DEF IoExpects, DmaJobs
<1>15. CASE IoSchedules
  <2>1. SetQueues(Queues) => UNCHANGED queueVars
    BY DEF SetQueues, Queues, queueVars
  <2>2. CASE IdleIsQueued
    BY <1>15, <2>1, <2>2 DEF IoSchedules, vars, sleepVars, callVars, cpuVars, tcbVars
  <2>3. CASE ~IdleIsQueued
    <3>1. HandlerWakeup(IdlePid)
      BY <1>15, <2>3 DEF IoSchedules, HandlerWakeup
    <3> QED BY <1>1, <1>4, <3>1
  <2> QED BY <2>2, <2>3
<1>16. CASE ModuleStep
  BY <1>16 DEF ModuleStep, Next, ThreadStep
<1>17. CASE Switches
  BY <1>17 DEF Switches, Next, ThreadStep
<1>18. ASSUME NEW c \in Commands, UartCommand(c) PROVE [Next]_vars
  BY <1>4, <1>18 DEF UartCommand
<1>19. CASE DmaComplete \/ DmaFails
  BY <1>19, DmaStep DEF DmaComplete, DmaFails, DmaJobs
<1>20. ASSUME NEW p \in Pids, ModuleWakeup(p) PROVE [Next]_vars
  BY <1>4, <1>20 DEF ModuleWakeup
<1>21. CASE UNCHANGED allVars
  BY <1>21 DEF allVars
<1> QED
  BY <1>5, <1>6, <1>7, <1>8, <1>9, <1>10, <1>11, <1>12, <1>13, <1>14, <1>15, <1>16,
     <1>17, <1>18, <1>19, <1>20, <1>21 DEF RuntimeNext, IdleStep, IoStep, RuntimeInterrupt
-----------------------------------------------------------------------------
(***************************************************************************)
(* What a step does to the tcbs and queues, seen from external_io_runner.  *)
(***************************************************************************)

(* The queues become r; whoever is woken has the pid p. *)
Wakes(r, p) ==
  /\ SetQueues(r) /\ WakesPid(Queues, r, p) /\ UNCHANGED tcbVars

(* Who wakes the I/O task: the UART handler on its way, or a module. *)
MayWake(p) == p = IdlePid \/ p # io_pid \/ rx_interrupt \/ WakesIo

StepKinds ==
  \/ \E n \in Task \ {Idle, Io} : CreateTask(Idle, n)
  \/ IdleStartsIo
  \/ UNCHANGED <<queueVars, tcbVars>>
  \/ \E t \in Task \ {Io} : BlockCurrentTask(t)
  \/ IoBlocks
  \/ \E t \in Task \ {Idle, Io} : FinishTask(t)
  \/ CleanUpTask
  \/ \E r, p : Wakes(r, p) /\ MayWake(p)

(* wakeup_pid of any handler wakes a task with the pid it is given. *)
LEMMA HandlerWakes ==
  ASSUME IInv, NEW p, HandlerWakeup(p)
  PROVE  Wakes(Wakeup(Queues, pid, p), p)
BY InvHasPartition, WakeupWakesPid DEF HandlerWakeup, Wakes

(* Every step is of one of these kinds. *)
LEMMA StepsAreOfAKind ==
  ASSUME KernelInv, [RuntimeNext]_allVars
  PROVE  StepKinds
<1>1. IInv /\ IoKnown
  BY DEF KernelInv
<1>2. CASE IdleStartsModule
  BY <1>1, <1>2, ModuleStarts DEF StepKinds
<1>3. CASE IdleStartsIo
  BY <1>3 DEF StepKinds
<1>4. CASE IdleCleansUp
  <2>1. UNCHANGED <<queueVars, tcbVars>>
    BY <1>4 DEF IdleCleansUp, SearchStarts, vars
  <2> QED BY <2>1 DEF StepKinds
<1>5. CASE SearchContinues
  BY <1>5 DEF SearchContinues, SearchSkips, SearchEnds, StepKinds
<1>6. CASE IdleCreatesTask
  <2>1. CASE \E t \in Task : CreateTask(Idle, t)
    <3>1. PICK t \in Task : CreateTask(Idle, t)
      BY <2>1
    <3>2. state[t] = "FREE" /\ idle_pc # "startup"
      BY <1>6, <3>1 DEF CreateTask, IdleCreatesTask, IdleAt
    <3>3. t # Io /\ t # Idle
      BY <1>1, <3>2 DEF IInv, IdleKnownByPid, IoKnown
    <3> QED BY <3>1, <3>3 DEF StepKinds
  <2>2. CASE UNCHANGED vars
    BY <2>2 DEF vars, StepKinds
  <2> QED BY <1>6, <2>1, <2>2 DEF IdleCreatesTask
<1>7. CASE IdleHasNoTask \/ IdleRunsSubtasks \/ IdleLooksAround \/ IdleSleeps
           \/ IdleClearsAction
  <2>1. UNCHANGED <<queueVars, tcbVars>>
    BY <1>7 DEF IdleHasNoTask, IdleRunsSubtasks, IdleLooksAround, IdleSleeps,
       IdleClearsAction, vars, schedulerButDma
  <2> QED BY <2>1 DEF StepKinds
<1>8. CASE IdleBlocks
  BY <1>8, KernelTasks DEF IdleBlocks, StepKinds
<1>9. CASE IoPrepares \/ IoExpects \/ IoTransfers \/ IoForgets
  <2>1. UNCHANGED <<queueVars, tcbVars>>
    BY <1>9 DEF IoPrepares, IoExpects, IoTransfers, IoForgets, vars, schedulerButDma
  <2> QED BY <2>1 DEF StepKinds
<1>10. CASE IoSchedules
  <2>1. CASE IdleIsQueued
    BY <1>10, <2>1 DEF IoSchedules, SetQueues, Queues, queueVars, StepKinds
  <2>2. CASE ~IdleIsQueued
    <3>1. Wakes(Wakeup(Queues, pid, IdlePid), IdlePid)
      BY <1>1, <1>10, <2>2, InvHasPartition, WakeupWakesPid DEF IoSchedules, Wakes
    <3> QED BY <3>1 DEF StepKinds, MayWake
  <2> QED BY <2>1, <2>2
<1>11. CASE IoBlocks
  BY <1>11 DEF StepKinds
<1>12. CASE ModuleStep
  BY <1>12 DEF ModuleStep, YieldTask, StepKinds
<1>13. CASE Switches
  <2>1. CASE BlockYields
    BY <2>1 DEF BlockYields, StepKinds
  <2>2. CASE PendSV
    <3>1. WakesPid(Queues, SwitchTask.q, IdlePid)
      BY <1>1, InvHasPartition, SwitchWakesIdle DEF IInv, ProcessorAgreesWithQueues
    <3>2. Wakes(SwitchTask.q, IdlePid)
      BY <2>2, <3>1 DEF PendSV, Wakes
    <3> QED BY <3>2 DEF StepKinds, MayWake
  <2> QED BY <1>13, <2>1, <2>2 DEF Switches
<1>14. ASSUME NEW c \in Commands, UartCommand(c) PROVE StepKinds
  <2>1. Wakes(Wakeup(Queues, pid, io_pid), io_pid) /\ rx_interrupt
    BY <1>1, <1>14, HandlerWakes DEF UartCommand
  <2> QED BY <2>1 DEF StepKinds, MayWake
<1>15. CASE UartByte \/ DmaComplete \/ DmaFails
  <2>1. UNCHANGED <<queueVars, tcbVars>>
    BY <1>15 DEF UartByte, DmaComplete, DmaFails, vars, schedulerButDma
  <2> QED BY <2>1 DEF StepKinds
<1>16. ASSUME NEW p \in Pids, ModuleWakeup(p) PROVE StepKinds
  <2>1. Wakes(Wakeup(Queues, pid, p), p) /\ (p # io_pid \/ WakesIo)
    BY <1>1, <1>16, HandlerWakes DEF ModuleWakeup
  <2> QED BY <2>1 DEF StepKinds, MayWake
<1>17. CASE UNCHANGED allVars
  BY <1>17 DEF allVars, vars, StepKinds
<1> QED
  BY <1>2, <1>3, <1>4, <1>5, <1>6, <1>7, <1>8, <1>9, <1>10, <1>11, <1>12, <1>13, <1>14,
     <1>15, <1>16, <1>17 DEF RuntimeNext, IdleStep, IoStep, RuntimeInterrupt

(* finish_task of a module wakes nobody: its parent has not joined it. *)
LEMMA FinishWakesNobody ==
  ASSUME IInv, Children, NEW t \in Task \ {Idle}, FinishTask(t)
  PROVE  state' = [state EXCEPT ![t] = "FINISHED"] /\ UNCHANGED tcbVars
<1> DEFINE c == currently_running
           f == WithState(Queues, c, "FINISHED")
<1>1. c = t /\ state[t] = "READY"
  BY ExecutingTask DEF FinishTask
<1>2. parent_task[c] = Idle /\ join_pid[Idle] = NoPid
  BY <1>1, KernelTasks DEF Children
<1>3. state[Idle] # "FREE" /\ pid[c] \in Nat
  BY <1>1 DEF IInv, IdleKnownByPid, TypeOK
<1>4. join_pid[Idle] # pid[c]
  BY <1>2, <1>3 DEF NoPid
<1>5. f.state = [state EXCEPT ![t] = "FINISHED"]
  BY <1>1 DEF WithState, Queues
<1> HIDE DEF f
<1>6. AfterJoin(f, c) = {f}
  BY <1>2, <1>3, <1>4 DEF AfterJoin
<1>7. SetQueues(f)
  BY <1>6 DEF FinishTask, f
<1> QED
  BY <1>5, <1>7 DEF SetQueues, FinishTask

(* external_io_runner is created once, blocks itself, and is woken by the   *)
(* UART handler or by a module that may do so.                             *)
LEMMA IoTaskSteps ==
  ASSUME KernelInv, [RuntimeNext]_allVars
  PROVE  \/ state'[Io] = state[Io] /\ pid'[Io] = pid[Io]
         \/ IdleStartsIo
         \/ IoBlocks /\ state'[Io] = "WAITING" /\ pid'[Io] = pid[Io]
         \/ /\ state[Io] = "WAITING" /\ state'[Io] = "READY" /\ pid'[Io] = pid[Io]
            /\ rx_interrupt \/ WakesIo
<1>1. IInv /\ IoKnown /\ Children /\ Io \in Task /\ Idle \in Task /\ Io # Idle
  BY KernelTasks DEF KernelInv
<1>2. state \in [Task -> States] /\ pid \in [Task -> Nat]
  BY <1>1 DEF IInv, TypeOK, States
<1>3. ASSUME NEW t \in Task, BlockCurrentTask(t)
      PROVE  currently_running = t /\ state' = [state EXCEPT ![t] = "WAITING"] /\ pid' = pid
  BY <1>1, <1>3 DEF BlockCurrentTask, IInv, ProcessorAgreesWithQueues, tcbVars
<1>4. ASSUME NEW n \in Task \ {Idle, Io}, CreateTask(Idle, n)
      PROVE  state'[Io] = state[Io] /\ pid'[Io] = pid[Io]
  BY <1>1, <1>2, <1>4 DEF CreateTask
<1>5. CASE UNCHANGED <<queueVars, tcbVars>>
  BY <1>5 DEF queueVars, tcbVars
<1>6. ASSUME NEW t \in Task \ {Io}, BlockCurrentTask(t)
      PROVE  state'[Io] = state[Io] /\ pid'[Io] = pid[Io]
  BY <1>1, <1>2, <1>3, <1>6
<1>7. CASE IoBlocks
  BY <1>1, <1>2, <1>3, <1>7 DEF IoBlocks
<1>8. ASSUME NEW t \in Task \ {Idle, Io}, FinishTask(t)
      PROVE  state'[Io] = state[Io] /\ pid'[Io] = pid[Io]
  BY <1>1, <1>2, <1>8, FinishWakesNobody DEF tcbVars
<1>9. CASE CleanUpTask
  <2>1. state[scan.q] \in {"FINISHED", "INVALID"}
        /\ state' = [state EXCEPT ![scan.q] = "FREE"] /\ pid' = [pid EXCEPT ![scan.q] = IdlePid]
    BY <1>9 DEF CleanUpTask
  <2>2. scan.q # Io
    BY <1>1, <2>1 DEF IoKnown
  <2> QED BY <1>1, <1>2, <2>1, <2>2
<1>10. ASSUME NEW r, NEW p, Wakes(r, p), MayWake(p)
       PROVE  \/ state'[Io] = state[Io] /\ pid'[Io] = pid[Io]
              \/ /\ state[Io] = "WAITING" /\ state'[Io] = "READY" /\ pid'[Io] = pid[Io]
                 /\ rx_interrupt \/ WakesIo
  <2>1. /\ pid' = pid
        /\ \/ state'[Io] = state[Io]
           \/ state[Io] = "WAITING" /\ state'[Io] = "READY" /\ pid[Io] = p
    BY <1>1, <1>10 DEF Wakes, WakesPid, SetQueues, Queues, tcbVars
  <2>2. CASE state[Io] = "WAITING" /\ pid[Io] = p
    <3>1. p = io_pid /\ pid[Io] # IdlePid
      BY <1>1, <2>2 DEF IoKnown, IInv, IdleKnownByPid, Live
    <3>2. rx_interrupt \/ WakesIo
      BY <1>10, <2>2, <3>1 DEF MayWake
    <3> QED BY <2>1, <3>2
  <2> QED BY <2>1, <2>2
<1>11. StepKinds
  BY StepsAreOfAKind
<1> QED
  BY <1>4, <1>5, <1>6, <1>7, <1>8, <1>9, <1>10, <1>11 DEF StepKinds

(* Every task but the idle task stays a child of the idle task. *)
LEMMA ChildrenKept ==
  ASSUME KernelInv, [RuntimeNext]_allVars
  PROVE  Children'
<1>1. IInv /\ IoKnown /\ Children /\ Io \in Task /\ Idle \in Task /\ Io # Idle
  BY KernelTasks DEF KernelInv
<1>2. /\ state \in [Task -> States] /\ join_pid \in [Task -> Nat \cup {NoPid}]
      /\ parent_task \in [Task -> Task \cup {NULL}]
  BY <1>1 DEF IInv, TypeOK, States
<1>3. ASSUME UNCHANGED <<join_pid, parent_task>>,
             \A t \in Task : state'[t] = "FREE" \/ state[t] # "FREE"
      PROVE  Children'
  BY <1>1, <1>3 DEF Children
<1>4. ASSUME NEW n \in Task, CreateTask(Idle, n) PROVE Children'
  <2>1. currently_running = Idle
    BY <1>1, <1>4, ExecutingTask DEF CreateTask
  <2>2. /\ join_pid' = [join_pid EXCEPT ![n] = NoPid]
        /\ parent_task' = [parent_task EXCEPT ![n] = Idle]
        /\ \A t \in Task \ {n} : state'[t] = state[t]
    BY <1>2, <1>4, <2>1 DEF CreateTask
  <2> QED BY <1>1, <1>2, <2>2 DEF Children
<1>5. CASE UNCHANGED <<queueVars, tcbVars>>
  BY <1>3, <1>5 DEF queueVars, tcbVars
<1>6. ASSUME NEW t \in Task, BlockCurrentTask(t) PROVE Children'
  <2>1. currently_running = t /\ state[t] = "READY"
    BY <1>1, <1>6 DEF BlockCurrentTask, IInv, ProcessorAgreesWithQueues
  <2> QED BY <1>2, <1>3, <1>6, <2>1 DEF BlockCurrentTask, tcbVars
<1>7. ASSUME NEW t \in Task \ {Idle, Io}, FinishTask(t) PROVE Children'
  <2>1. state[t] = "READY"
    BY <1>1, <1>7, ExecutingTask DEF FinishTask
  <2> QED BY <1>1, <1>2, <1>3, <1>7, <2>1, FinishWakesNobody DEF tcbVars
<1>8. CASE CleanUpTask
  <2>1. /\ join_pid' = [join_pid EXCEPT ![scan.q] = NoPid]
        /\ parent_task' = [parent_task EXCEPT ![scan.q] = NULL]
        /\ state' = [state EXCEPT ![scan.q] = "FREE"]
    BY <1>8 DEF CleanUpTask
  <2> QED BY <1>1, <1>2, <2>1 DEF Children
<1>9. ASSUME NEW r, NEW p, Wakes(r, p) PROVE Children'
  BY <1>3, <1>9 DEF Wakes, WakesPid, SetQueues, Queues, tcbVars
<1>10. StepKinds
  BY StepsAreOfAKind
<1> QED
  BY <1>1, <1>4, <1>5, <1>6, <1>7, <1>8, <1>9, <1>10 DEF StepKinds, IdleStartsIo, IoBlocks
-----------------------------------------------------------------------------
(* The kernel's tasks keep the processor until they block; no interrupt     *)
(* takes it from them.                                                     *)
LEMMA KernelTaskKeepsProcessor ==
  ASSUME NEW t \in {Idle, Io}, Executes(t), [RuntimeNext]_allVars
  PROVE  \/ Executes(t)'
         \/ t = Idle /\ (IdleBlocks \/ IdleCleansUp)
         \/ t = Io /\ IoBlocks
<1> USE DEF Executes
<1>1. ASSUME UNCHANGED <<psp, pendsv, call>> PROVE Executes(t)'
  BY <1>1
<1>2. CASE IdleStartsModule \/ IdleStartsIo \/ IdleCreatesTask
  BY <1>1, <1>2 DEF IdleStartsModule, IdleStartsIo, IdleCreatesTask, CreateTask, vars,
     cpuVars, callVars
<1>3. CASE SearchContinues
  BY <1>3 DEF SearchContinues, SearchSkips, CleanUpTask, SearchEnds, Searching
<1>4. CASE IdleHasNoTask \/ IdleRunsSubtasks \/ IdleLooksAround \/ IdleSleeps
           \/ IdleClearsAction
  BY <1>1, <1>4 DEF IdleHasNoTask, IdleRunsSubtasks, IdleLooksAround, IdleSleeps,
     IdleClearsAction, vars, schedulerButDma, cpuVars, callVars
<1>5. CASE IdleBlocks \/ IdleCleansUp \/ IoBlocks
  BY <1>5, KernelTasks DEF IdleBlocks, IdleCleansUp, IoBlocks, IdleAt, IoAt
<1>6. CASE IoPrepares \/ IoExpects \/ IoTransfers \/ IoForgets \/ IoSchedules
  BY <1>1, <1>6 DEF IoPrepares, IoExpects, IoTransfers, IoForgets, IoSchedules, vars,
     schedulerButDma, cpuVars, callVars
<1>7. CASE ModuleStep
  BY <1>7 DEF ModuleStep, YieldTask, BlockCurrentTask, FinishTask
<1>8. CASE Switches
  BY <1>8 DEF Switches, BlockYields, PendSV
<1>9. ASSUME NEW p, HandlerWakeup(p) PROVE Executes(t)'
  BY <1>1, <1>9 DEF HandlerWakeup, cpuVars, callVars
<1>10. CASE UartByte \/ DmaComplete \/ DmaFails \/ UNCHANGED allVars
  BY <1>1, <1>10 DEF UartByte, DmaComplete, DmaFails, allVars, vars, schedulerButDma,
     cpuVars, callVars
<1> QED
  BY <1>2, <1>3, <1>4, <1>5, <1>6, <1>7, <1>8, <1>9, <1>10
  DEF RuntimeNext, IdleStep, IoStep, RuntimeInterrupt, UartCommand, ModuleWakeup

(* So the places they do not yield at are theirs. *)
LEMMA HeldKept ==
  ASSUME KernelInv, [RuntimeNext]_allVars
  PROVE  Held'
<1>1. Held /\ Io # Idle
  BY KernelTasks DEF KernelInv
<1>2. ASSUME io_pc' # "serve" PROVE Executes(Io)'
  <2>1. ~IoBlocks
    BY <1>2 DEF IoBlocks
  <2>2. Executes(Io)
    <3>1. CASE io_pc # "serve"
      BY <1>1, <3>1 DEF Held
    <3>2. CASE io_pc' # io_pc
      BY <1>2, <2>1, <3>2 DEF RuntimeNext, IdleStep, IoStep, RuntimeInterrupt, IdleStartsModule,
         IdleStartsIo, IdleCleansUp, SearchContinues, IdleCreatesTask, IdleHasNoTask,
         IdleClearsAction, IdleRunsSubtasks, IdleLooksAround, IdleSleeps, IdleBlocks,
         IoPrepares, IoExpects, IoTransfers, IoSchedules, IoForgets, IoAt, ModuleStep,
         Switches, UartCommand, UartByte, DmaComplete, DmaFails, ModuleWakeup,
         allVars, runtimeVars, ioVars
    <3> QED BY <1>2, <3>1, <3>2
  <2> QED BY <1>1, <2>1, <2>2, KernelTaskKeepsProcessor
<1>3. ASSUME idle_pc' = "clear" PROVE Executes(Idle)'
  <2>1. ~IdleBlocks /\ ~IdleCleansUp
    BY <1>3 DEF IdleBlocks, IdleCleansUp
  <2>2. Executes(Idle)
    <3>1. CASE idle_pc = "clear"
      BY <1>1, <3>1 DEF Held
    <3>2. CASE idle_pc' # idle_pc
      BY <1>3, <2>1, <3>2 DEF RuntimeNext, IdleStep, IoStep, RuntimeInterrupt, IdleStartsModule,
         IdleStartsIo, IdleAt, SearchContinues, IdleCreatesTask, IdleHasNoTask,
         IdleClearsAction, IdleRunsSubtasks, IdleLooksAround, IdleSleeps,
         IoPrepares, IoExpects, IoTransfers, IoSchedules, IoForgets, IoBlocks, ModuleStep,
         Switches, UartCommand, UartByte, DmaComplete, DmaFails, ModuleWakeup, EndsSleep,
         allVars, runtimeVars, ioVars
    <3> QED BY <1>3, <3>1, <3>2
  <2> QED BY <1>1, <2>1, <2>2, KernelTaskKeepsProcessor
<1> QED
  BY <1>2, <1>3 DEF Held

(* The variables of the runtime keep their types; the pid create_task gives *)
(* to external_io_runner is one of those there can be.                     *)
LEMMA RuntimeTypesKept ==
  ASSUME KernelInv, [RuntimeNext]_allVars
  PROVE  RuntimeTypeOK'
<1>1. RuntimeTypeOK /\ IInv /\ Io \in Task
  BY KernelTasks DEF KernelInv
<1>2. CASE UNCHANGED <<runtimeVars, dma_interrupt_action>>
  BY <1>1, <1>2 DEF RuntimeTypeOK, runtimeVars, ioVars
<1>3. CASE IdleStartsModule \/ SearchContinues \/ ModuleStep \/ Switches
           \/ UNCHANGED allVars
  <2>1. UNCHANGED dma_interrupt_action
    BY <1>3 DEF IdleStartsModule, CreateTask, SearchContinues, SearchSkips, CleanUpTask,
       SearchEnds, ModuleStep, YieldTask, BlockCurrentTask, FinishTask, Switches,
       BlockYields, PendSV, allVars, vars
  <2>2. UNCHANGED runtimeVars
    BY <1>3 DEF IdleStartsModule, SearchContinues, ModuleStep, Switches, allVars
  <2> QED BY <1>2, <2>1, <2>2
<1>4. CASE IdleStartsIo
  <2>1. pid'[Io] = Len(running_tasks) + Len(waiting_tasks)
    BY <1>1, <1>4 DEF IdleStartsIo, CreateTask, IInv, TypeOK
  <2>2. Len(Queues.running) + Len(Queues.waiting) \in Pids
    BY <1>1, InvHasPartition, QueuesFitTasks
  <2>3. pid'[Io] \in Pids
    BY <2>1, <2>2, QueuesFields
  <2> QED BY <1>1, <1>4, <2>3 DEF IdleStartsIo, CreateTask, RuntimeTypeOK
<1>5. CASE IdleCleansUp \/ IdleCreatesTask \/ IdleHasNoTask \/ IdleClearsAction
           \/ IdleRunsSubtasks \/ IdleLooksAround \/ IdleSleeps \/ IdleBlocks
  <2>1. UNCHANGED ioVars /\ subtasks' \in {0, subtasks} /\ received' \subseteq received
    BY <1>5 DEF IdleCleansUp, IdleCreatesTask, IdleHasNoTask, IdleClearsAction,
       IdleRunsSubtasks, IdleLooksAround, IdleSleeps, IdleBlocks
  <2>2. idle_pc' \in {"external", "clear", "subtasks", "alone", "undefined", "wfi", "block",
                      "asleep", "clean_up"}
    BY <1>5 DEF IdleCleansUp, IdleCreatesTask, IdleHasNoTask, IdleClearsAction,
       IdleRunsSubtasks, IdleLooksAround, IdleSleeps, IdleBlocks
  <2>3. dma_interrupt_action' \in {"DmaIsIdle", dma_interrupt_action}
    BY <1>5 DEF IdleCleansUp, IdleCreatesTask, IdleHasNoTask, IdleClearsAction,
       IdleRunsSubtasks, IdleLooksAround, IdleSleeps, IdleBlocks, SearchStarts, CreateTask,
       BlockCurrentTask, vars
  <2>4. subtasks' \in 0..SubtaskSlots /\ dma_interrupt_action' \in DmaJobs
    BY <1>1, <2>1, <2>3 DEF RuntimeTypeOK, DmaJobs, SubtaskSlots
  <2> QED BY <1>1, <2>1, <2>2, <2>4 DEF RuntimeTypeOK, ioVars
<1>6. CASE IoPrepares \/ IoExpects \/ IoTransfers \/ IoForgets \/ IoBlocks
  <2>1. dma_interrupt_action' \in {"DmaWaitsForExternalTask", dma_interrupt_action}
    BY <1>6 DEF IoPrepares, IoExpects, IoTransfers, IoForgets, IoBlocks, BlockCurrentTask,
       vars
  <2>2. dma_interrupt_action' \in DmaJobs
    BY <1>1, <2>1 DEF RuntimeTypeOK, DmaJobs
  <2>3. /\ UNCHANGED <<idle_pc, io_pid, rx_state, subtasks>>
        /\ io_pc' \in {"serve", "expect", "transfer", "block"} /\ received' \subseteq received
        /\ start_adress' \in Chunk \cup {start_adress}
        /\ stream' \in {stream, start_adress} /\ rx_interrupt' \in {FALSE, rx_interrupt}
    BY <1>6 DEF IoPrepares, IoExpects, IoTransfers, IoForgets, IoBlocks
  <2> QED BY <1>1, <2>2, <2>3 DEF RuntimeTypeOK
<1>7. CASE IoSchedules
  <2>1. subtasks' \in 0..SubtaskSlots
    BY <1>1, <1>7 DEF IoSchedules, RuntimeTypeOK, SubtaskSlots
  <2> QED BY <1>1, <1>7, <2>1 DEF IoSchedules, RuntimeTypeOK
<1>8. ASSUME EndsSleep PROVE idle_pc' \in {"block", idle_pc}
  BY <1>8 DEF EndsSleep
<1>9. ASSUME NEW c \in Commands, UartCommand(c) PROVE RuntimeTypeOK'
  BY <1>1, <1>8, <1>9 DEF UartCommand, HandlerWakeup, RuntimeTypeOK
<1>10. CASE UartByte \/ \E p \in Pids : ModuleWakeup(p)
  BY <1>1, <1>8, <1>10 DEF UartByte, ModuleWakeup, HandlerWakeup, RuntimeTypeOK, ioVars, vars
<1>11. CASE DmaComplete \/ DmaFails
  <2>1. dma_interrupt_action' \in DmaJobs
    BY <1>1, <1>11 DEF DmaComplete, DmaFails, RuntimeTypeOK, DmaJobs
  <2>2. received' \subseteq Chunk
    BY <1>1, <1>11 DEF DmaComplete, DmaFails, RuntimeTypeOK
  <2> QED BY <1>1, <1>8, <1>11, <2>1, <2>2 DEF DmaComplete, DmaFails, RuntimeTypeOK
<1> QED
  BY <1>3, <1>4, <1>5, <1>6, <1>7, <1>9, <1>10, <1>11
  DEF RuntimeNext, IdleStep, IoStep, RuntimeInterrupt

(* The I/O task waits after it has blocked, under the same pid. *)
LEMMA IoBlocksWaits ==
  ASSUME IInv, IoBlocks
  PROVE  state[Io] = "READY" /\ state'[Io] = "WAITING" /\ pid'[Io] = pid[Io]
<1>1. currently_running = Io /\ state[Io] = "READY" /\ BlockCurrentTask(Io)
  BY KernelTasks, ExecutingTask DEF IoBlocks, IoAt
<1> QED
  BY <1>1, KernelTasks DEF BlockCurrentTask, IInv, TypeOK, tcbVars

(* The start-up ends with the creation of external_io_runner. *)
LEMMA IoKnownKept ==
  ASSUME KernelInv, [RuntimeNext]_allVars
  PROVE  IoKnown'
<1>1. IInv /\ IoKnown /\ RuntimeTypeOK /\ Io \in Task /\ Io # Idle
  BY KernelTasks DEF KernelInv
<1>2. CASE IdleStartsIo
  <2>1. /\ CreateTask(Idle, Io) /\ io_pid' = pid'[Io] /\ idle_pc' = "clean_up"
        /\ state \in [Task -> States]
    BY <1>1, <1>2 DEF IdleStartsIo, IInv, TypeOK, States
  <2>2. state'[Io] \in {"READY", "WAITING"}
    BY <1>1, <2>1 DEF CreateTask
  <2> QED BY <2>1, <2>2 DEF IoKnown
<1>3. CASE ~IdleStartsIo
  <2>1. io_pid' = io_pid /\ (idle_pc' = "startup" <=> idle_pc = "startup")
    BY <1>3 DEF RuntimeNext, IdleStep, IoStep, RuntimeInterrupt, IdleStartsModule,
         IdleCleansUp, IdleAt, SearchContinues, IdleCreatesTask, IdleHasNoTask,
         IdleClearsAction, IdleRunsSubtasks, IdleLooksAround, IdleSleeps, IdleBlocks,
         IoPrepares, IoExpects, IoTransfers, IoSchedules, IoForgets, IoBlocks, ModuleStep,
         Switches, UartCommand, UartByte, DmaComplete, DmaFails, ModuleWakeup, EndsSleep,
         allVars, runtimeVars, ioVars
  <2>2. CASE IoBlocks
    <3>1. state[Io] = "READY" /\ state'[Io] = "WAITING" /\ pid'[Io] = pid[Io]
      BY <1>1, <2>2, IoBlocksWaits
    <3> QED BY <1>1, <2>1, <3>1 DEF IoKnown
  <2>3. CASE ~IoBlocks
    BY <1>1, <1>3, <2>1, <2>3, IoTaskSteps DEF IoKnown
  <2> QED BY <2>2, <2>3
<1> QED
  BY <1>2, <1>3

-----------------------------------------------------------------------------
(* Whatever modules wake, the kernel's part of the invariant is inductive. *)
LEMMA KernelInvHolds == RuntimeSpec => []KernelInv
<1>1. RuntimeInit => KernelInv
  <2> SUFFICES ASSUME RuntimeInit PROVE KernelInv
    OBVIOUS
  <2>1. IInv /\ Init
    BY InitInv DEF RuntimeInit
  <2>2. RuntimeTypeOK
    BY <2>1, TaskAssumption DEF RuntimeInit, Init, RuntimeTypeOK, Commands, Pids, IdlePid,
       SubtaskSlots, DmaJobs
  <2>3. IoKnown /\ Children /\ Held
    BY <2>1, KernelTasks DEF RuntimeInit, Init, IoKnown, Children, Held
  <2> QED BY <2>1, <2>2, <2>3 DEF KernelInv
<1>2. KernelInv /\ [RuntimeNext]_allVars => KernelInv'
  <2> SUFFICES ASSUME KernelInv, [RuntimeNext]_allVars PROVE KernelInv'
    OBVIOUS
  <2>1. IInv'
    BY RuntimeStepsScheduler, NextInv DEF KernelInv, RuntimeTypeOK
  <2> QED BY <2>1, RuntimeTypesKept, IoKnownKept, ChildrenKept, HeldKept DEF KernelInv
<1> QED
  BY <1>1, <1>2, PTL DEF RuntimeSpec

(***************************************************************************)
(* idle_runner, external_io_runner, the modules and the handlers of the    *)
(* UART and of the DMA stream use the scheduler as module Scheduler allows,*)
(* so whatever is proved of the scheduler holds of the kernel.             *)
(***************************************************************************)
THEOREM RuntimeImplementsScheduler == RuntimeSpec => UsesScheduler
<1>1. RuntimeInit => Init
  BY DEF RuntimeInit
<1>2. KernelInv /\ [RuntimeNext]_allVars => [Next]_vars
  BY RuntimeStepsScheduler DEF KernelInv, RuntimeTypeOK
<1> QED
  BY <1>1, <1>2, KernelInvHolds, PTL DEF RuntimeSpec, UsesScheduler, Spec

(***************************************************************************)
(* The variables of the kernel's tasks keep their types, whatever modules  *)
(* wake: the pid of external_io_runner is one create_task can give, and no *)
(* more subtasks are stored than the array has room for.                   *)
(***************************************************************************)
THEOREM RuntimeTypeCorrect == RuntimeSpec => []RuntimeTypeOK
<1>1. KernelInv => RuntimeTypeOK
  BY DEF KernelInv
<1> QED
  BY <1>1, KernelInvHolds, PTL
-----------------------------------------------------------------------------
(***************************************************************************)
(* A transfer, from its command to the task that is made of it, when no    *)
(* module wakes external_io_runner.                                        *)
(***************************************************************************)

(* As long as the stream runs, external_io_runner does not come back to     *)
(* serve a command, so only the DMA handler changes what describes the     *)
(* transfer.                                                               *)
LEMMA TransferKept ==
  ASSUME WakesIo = FALSE, KernelInv, Transfer, [RuntimeNext]_allVars
  PROVE  Transfer'
<1>1. IInv /\ RuntimeTypeOK /\ IoKnown /\ Held /\ Io \in Task /\ Idle \in Task /\ Io # Idle
      /\ NULL \notin Chunk
  BY KernelTasks, RuntimeAssumption DEF KernelInv
<1>2. /\ rx_interrupt <=> stream = NULL
      /\ stream # NULL => /\ dma_interrupt_action = "DmaWaitsForExternalTask"
                          /\ start_adress = stream
                          /\ io_pc = "block" \/ (io_pc = "serve" /\ state[Io] = "WAITING")
                          /\ idle_pc # "clear"
      /\ io_pc \in {"expect", "transfer"} => start_adress \in Chunk
      /\ io_pc = "transfer" => dma_interrupt_action = "DmaWaitsForExternalTask"
  BY DEF Transfer, TransferIsExpected
<1>3. /\ Executes(Io) => state[Io] = "READY" /\ idle_pc # "clear"
      /\ Executes(Idle) => io_pc = "serve"
  BY <1>1, ExecutingTask DEF Executes, Held
<1>4. ASSUME stream' = NULL, rx_interrupt', io_pc' \notin {"expect", "transfer"} PROVE Transfer'
  BY <1>4 DEF Transfer, TransferIsExpected
<1>5. ASSUME UNCHANGED <<rx_interrupt, stream, start_adress, dma_interrupt_action, io_pc>>,
             ~IdleStartsIo, ~IoBlocks, idle_pc' = "clear" => idle_pc = "clear"
      PROVE  Transfer'
  <2>1. stream # NULL /\ state[Io] = "WAITING" => state'[Io] = "WAITING"
    BY <1>2, <1>5, IoTaskSteps
  <2> QED BY <1>2, <1>5, <2>1 DEF Transfer, TransferIsExpected
<1>6. CASE IdleStartsIo
  <2>1. stream = NULL /\ io_pc = "serve"
    BY <1>1, <1>2, <1>3, <1>6 DEF IdleStartsIo, IdleAt, IoKnown
  <2> QED BY <1>2, <1>4, <1>6, <2>1 DEF IdleStartsIo
<1>7. CASE IdleCreatesTask \/ IdleClearsAction
  <2>1. stream = NULL /\ io_pc = "serve"
    BY <1>2, <1>3, <1>7 DEF IdleCreatesTask, IdleClearsAction, IdleAt
  <2> QED BY <1>2, <1>4, <1>7, <2>1 DEF IdleCreatesTask, IdleClearsAction, ioVars
<1>8. CASE /\ IdleStartsModule \/ IdleCleansUp \/ SearchContinues \/ IdleHasNoTask \/ IdleRunsSubtasks
              \/ IdleLooksAround \/ IdleSleeps \/ IdleBlocks \/ ModuleStep \/ Switches
              \/ UartByte \/ (\E c \in Commands : UartCommand(c))
              \/ (\E p \in Pids : ModuleWakeup(p)) \/ UNCHANGED allVars
           /\ ~IdleStartsIo /\ ~IoBlocks
  <2>1. UNCHANGED <<rx_interrupt, stream, start_adress, io_pc>>
    BY <1>8 DEF IdleStartsModule, IdleCleansUp, SearchContinues, IdleHasNoTask, IdleRunsSubtasks,
       IdleLooksAround, IdleSleeps, IdleBlocks, ModuleStep, Switches, UartByte, UartCommand,
       ModuleWakeup, allVars, runtimeVars, ioVars
  <2>2. UNCHANGED dma_interrupt_action
    BY <1>8 DEF IdleStartsModule, CreateTask, IdleCleansUp, SearchStarts, SearchContinues,
       SearchSkips, CleanUpTask, SearchEnds, IdleHasNoTask, IdleRunsSubtasks, IdleLooksAround,
       IdleSleeps, IdleBlocks, BlockCurrentTask, ModuleStep, YieldTask, FinishTask, Switches,
       BlockYields, PendSV, UartByte, UartCommand, ModuleWakeup, HandlerWakeup, allVars, vars
  <2>3. idle_pc' = "clear" => idle_pc = "clear"
    BY <1>8 DEF IdleStartsModule, IdleCleansUp, SearchContinues, IdleHasNoTask, IdleRunsSubtasks,
       IdleLooksAround, IdleSleeps, IdleBlocks, ModuleStep, Switches, UartByte, UartCommand,
       ModuleWakeup, EndsSleep, allVars, runtimeVars
  <2> QED BY <1>5, <1>8, <2>1, <2>2, <2>3
<1>9. CASE IoSchedules \/ IoForgets
  <2>1. stream = NULL
    BY <1>2, <1>3, <1>9 DEF IoSchedules, IoForgets, IoAt
  <2> QED BY <1>2, <1>4, <1>9, <2>1 DEF IoSchedules, IoForgets
<1>10. CASE IoPrepares
  <2>1. stream = NULL
    BY <1>2, <1>3, <1>10 DEF IoPrepares, IoAt
  <2> QED BY <1>2, <1>10, <2>1 DEF IoPrepares, Transfer, TransferIsExpected
<1>11. CASE IoExpects
  <2>1. stream = NULL
    BY <1>2, <1>11 DEF IoExpects, IoAt
  <2> QED BY <1>2, <1>11, <2>1 DEF IoExpects, IoAt, Transfer, TransferIsExpected
<1>12. CASE IoTransfers
  <2>1. /\ stream' = start_adress /\ start_adress \in Chunk /\ start_adress' = start_adress
        /\ rx_interrupt' = FALSE /\ io_pc' = "block" /\ idle_pc' = idle_pc /\ idle_pc # "clear"
        /\ dma_interrupt_action = "DmaWaitsForExternalTask"
        /\ UNCHANGED dma_interrupt_action
    BY <1>2, <1>3, <1>12 DEF IoTransfers, IoAt, vars
  <2> QED BY <1>1, <2>1 DEF Transfer, TransferIsExpected
<1>13. CASE IoBlocks
  <2>1. state'[Io] = "WAITING"
    BY <1>1, <1>13, IoBlocksWaits
  <2>2. /\ UNCHANGED <<idle_pc, rx_interrupt, stream, start_adress, dma_interrupt_action>>
        /\ io_pc' = "serve"
    BY <1>13 DEF IoBlocks, BlockCurrentTask
  <2> QED BY <1>2, <2>1, <2>2 DEF Transfer, TransferIsExpected
<1>14. CASE DmaComplete \/ DmaFails
  <2>1. io_pc \notin {"expect", "transfer"}
    BY <1>2, <1>14 DEF DmaComplete, DmaFails
  <2> QED BY <1>4, <1>14, <2>1 DEF DmaComplete, DmaFails
<1> QED
  BY <1>6, <1>7, <1>8, <1>9, <1>10, <1>11, <1>12, <1>13, <1>14
  DEF RuntimeNext, IdleStep, IoStep, RuntimeInterrupt

(* The end of a transfer completes the chunk tInfo describes; it stays      *)
(* complete until it is taken or given up.                                 *)
LEMMA CompleteKept ==
  ASSUME KernelInv, Transfer, Complete, [RuntimeNext]_allVars
  PROVE  Complete'
<1>1. ASSUME UNCHANGED <<start_adress, received>>,
             dma_interrupt_action' = "DmaTransferedExternalTask"
               => dma_interrupt_action' = dma_interrupt_action,
             idle_pc = "clear" => idle_pc' = "clear", io_pc = "expect" => io_pc' = "expect"
      PROVE  Complete'
  BY <1>1 DEF Complete
<1>2. CASE IdleCreatesTask \/ IdleClearsAction \/ IoPrepares \/ IoExpects \/ DmaFails
  BY <1>2 DEF IdleCreatesTask, IdleClearsAction, IoPrepares, IoExpects, DmaFails, Complete
<1>3. CASE DmaComplete
  <2>1. start_adress = stream
    BY <1>3 DEF DmaComplete, Transfer, TransferIsExpected
  <2> QED BY <1>3, <2>1 DEF DmaComplete, Complete
<1>4. CASE \/ IdleStartsModule \/ IdleStartsIo \/ IdleCleansUp \/ SearchContinues
           \/ IdleHasNoTask \/ IdleRunsSubtasks \/ IdleLooksAround \/ IdleSleeps \/ IdleBlocks
           \/ IoTransfers \/ IoSchedules \/ IoForgets \/ IoBlocks
           \/ ModuleStep \/ Switches \/ UartByte \/ (\E c \in Commands : UartCommand(c))
           \/ (\E p \in Pids : ModuleWakeup(p)) \/ UNCHANGED allVars
  <2>1. UNCHANGED <<start_adress, received>> /\ (io_pc = "expect" => io_pc' = "expect")
        /\ (idle_pc = "clear" => idle_pc' = "clear")
    BY <1>4 DEF IdleStartsModule, IdleStartsIo, IdleCleansUp, SearchContinues, IdleHasNoTask,
       IdleRunsSubtasks, IdleLooksAround, IdleSleeps, IdleBlocks, IdleAt, IoTransfers,
       IoSchedules, IoForgets, IoBlocks, IoAt, ModuleStep, Switches, UartByte, UartCommand,
       ModuleWakeup, EndsSleep, allVars, runtimeVars, ioVars
  <2>2. UNCHANGED dma_interrupt_action
    BY <1>4 DEF IdleStartsModule, IdleStartsIo, CreateTask, IdleCleansUp, SearchStarts,
       SearchContinues, SearchSkips, CleanUpTask, SearchEnds, IdleHasNoTask, IdleRunsSubtasks,
       IdleLooksAround, IdleSleeps, IdleBlocks, BlockCurrentTask, IoTransfers, IoSchedules,
       IoForgets, IoBlocks, ModuleStep, YieldTask, FinishTask, Switches, BlockYields, PendSV,
       UartByte, UartCommand, ModuleWakeup, HandlerWakeup, allVars, vars
  <2> QED BY <1>1, <2>1, <2>2
<1> QED
  BY <1>2, <1>3, <1>4 DEF RuntimeNext, IdleStep, IoStep, RuntimeInterrupt

(* When no module wakes external_io_runner, both parts hold for ever. *)
LEMMA TransferInvHolds ==
  ASSUME WakesIo = FALSE
  PROVE  RuntimeSpec => []TransferInv
<1>1. RuntimeInit => TransferInv
  BY RuntimeAssumption DEF RuntimeInit, Init, TransferInv, Transfer, TransferIsExpected, Complete
<1>2. KernelInv /\ TransferInv /\ [RuntimeNext]_allVars => TransferInv'
  BY TransferKept, CompleteKept DEF TransferInv
<1> QED
  BY <1>1, <1>2, KernelInvHolds, PTL DEF RuntimeSpec

(***************************************************************************)
(* The DMA handler finds dma_interrupt_action and tInfo as                 *)
(* external_io_runner set them for the transfer that has ended, and the    *)
(* UART interrupts are off just as long as the stream runs, when no module *)
(* calls svc wakeupIoHandler.                                              *)
(***************************************************************************)
THEOREM TransfersAreExpected ==
  ASSUME WakesIo = FALSE
  PROVE  RuntimeSpec => []TransferIsExpected
<1>1. TransferInv => TransferIsExpected
  BY DEF TransferInv, Transfer
<1> QED
  BY <1>1, TransferInvHolds, PTL

(***************************************************************************)
(* idle_runner creates a task only of a chunk the stream has filled to the *)
(* end, and of each one once, although a new command may describe another  *)
(* chunk at any time, when no module calls svc wakeupIoHandler.            *)
(***************************************************************************)
THEOREM ArrivedCodeIsComplete ==
  ASSUME WakesIo = FALSE
  PROVE  RuntimeSpec => OnlyCompleteCodeRuns
<1>1. ASSUME KernelInv, TransferInv, RuntimeNext, CreatesTask
      PROVE  start_adress \in received
  <2>1. IdleCreatesTask
    BY <1>1 DEF CreatesTask, RuntimeNext, IdleStep, IoStep, RuntimeInterrupt, IdleStartsModule,
       IdleStartsIo, IdleCleansUp, IdleAt, SearchContinues, IdleHasNoTask, IdleClearsAction,
       IdleRunsSubtasks, IdleLooksAround, IdleSleeps, IdleBlocks, IoPrepares, IoExpects,
       IoTransfers, IoSchedules, IoForgets, IoBlocks, ModuleStep, Switches, UartCommand,
       UartByte, DmaComplete, DmaFails, ModuleWakeup, EndsSleep, runtimeVars
  <2>2. Executes(Idle) /\ dma_interrupt_action = "DmaTransferedExternalTask"
        /\ idle_pc = "external"
    BY <2>1 DEF IdleCreatesTask, IdleAt
  <2>3. io_pc = "serve"
    BY <1>1, <2>2, KernelTasks DEF KernelInv, Held, Executes
  <2> QED BY <1>1, <2>2, <2>3 DEF TransferInv, Complete
<1>2. KernelInv /\ TransferInv /\ [RuntimeNext]_allVars
        => [CreatesTask => start_adress \in received]_allVars
  BY <1>1
<1> QED
  BY <1>2, KernelInvHolds, TransferInvHolds, PTL DEF RuntimeSpec, OnlyCompleteCodeRuns
(* What the theorems of SchedulerProofs say of the scheduler holds of the    *)
(* kernel as its own tasks and handlers use it: every task is in the queue  *)
(* of its state, the processor runs the current task on its own stack, no   *)
(* task switch fails, and only finished tasks are freed, as many as were    *)
(* counted.                                                                 *)
THEOREM KernelKeepsScheduler ==
  RuntimeSpec => [](/\ QueuesPartitionTasks /\ ProcessorAgreesWithQueues /\ ContextsBelongToTasks
                    /\ NothingInUseIsFree /\ SwitchFindsTask /\ CleanUpRequestsExact)
BY RuntimeImplementsScheduler, QueuesStayPartitioned, ExecutingTaskIsCurrent, ContextsStayApart,
   CleanUpIsSafe, SwitchNeverFails, CleanUpCounterExact, PTL DEF UsesScheduler
=============================================================================
