--------------------------- MODULE SchedulerProofs --------------------------
(***************************************************************************)
(* IInv is an inductive invariant of Scheduler for any number of tasks,    *)
(* and with it the scheduler's type and safety invariants.                 *)
(***************************************************************************)
EXTENDS Scheduler, TaskQueuesProofs, FiniteSetTheorems

(* The queue part of IInv, for a record of queues. *)
States == {"READY", "WAITING", "FINISHED", "INVALID", "FREE"}

Partition(q) ==
  /\ q.running \in Seq(Task) /\ IsInjective(q.running)
  /\ q.waiting \in Seq(Task) /\ IsInjective(q.waiting)
  /\ q.state \in [Task -> States]
  /\ ToSet(q.running) = {t \in Task : q.state[t] \in {"READY", "FINISHED"}}
  /\ ToSet(q.waiting) = {t \in Task : q.state[t] = "WAITING"}

(* From q to r nothing happened but that waiting tasks have become READY. *)
OnlyWakes(q, r) ==
  \A t \in Task : r.state[t] = q.state[t] \/ (q.state[t] = "WAITING" /\ r.state[t] = "READY")

-----------------------------------------------------------------------------
(* wakeup_pid finds a waiting task with the pid it is given. *)
LEMMA FirstWithPidWaits ==
  ASSUME NEW q, q.waiting \in Seq(Task), NEW pp, NEW p, HasPid(q, pp, p) # {}
  PROVE  FirstWithPid(q, pp, p) \in ToSet(q.waiting) /\ pp[FirstWithPid(q, pp, p)] = p
<1>1. HasPid(q, pp, p) \in SUBSET Nat
  BY DEF HasPid
<1>2. Min(HasPid(q, pp, p)) \in HasPid(q, pp, p)
  BY <1>1, MinInSet
<1> QED
  BY <1>2 DEF HasPid, FirstWithPid, ToSet

(* Moving a waiting task to the running queue keeps the partition. *)
LEMMA MoveKeepsPartition ==
  ASSUME NEW q, Partition(q), NEW t \in ToSet(q.waiting)
  PROVE  /\ Partition(MoveToRunning(q, t))
         /\ OnlyWakes(q, MoveToRunning(q, t))
         /\ MoveToRunning(q, t).state[t] = "READY"
<1> DEFINE r == MoveToRunning(q, t)
<1>1. t \in Task /\ q.state[t] = "WAITING" /\ t \notin ToSet(q.running)
  BY DEF Partition
<1>2. /\ r.running = Append(q.running, t)
      /\ r.waiting = Isolate(q.waiting, t)
      /\ r.state = [q.state EXCEPT ![t] = "READY"]
  BY DEF MoveToRunning
<1> HIDE DEF r
<1>3. r.state \in [Task -> States]
  BY <1>2 DEF Partition, States
<1>4. /\ r.running \in Seq(Task) /\ IsInjective(r.running)
      /\ ToSet(r.running) = ToSet(q.running) \cup {t}
  BY <1>1, <1>2, AppendAdds DEF Partition
<1>5. /\ r.waiting \in Seq(Task) /\ IsInjective(r.waiting)
      /\ ToSet(r.waiting) = ToSet(q.waiting) \ {t}
  BY <1>2, IsolateRemoves DEF Partition
<1>6. \A x \in Task : r.state[x] = IF x = t THEN "READY" ELSE q.state[x]
  BY <1>2 DEF Partition
<1>7. ToSet(r.running) = {x \in Task : r.state[x] \in {"READY", "FINISHED"}}
  BY <1>1, <1>4, <1>6 DEF Partition
<1>8. ToSet(r.waiting) = {x \in Task : r.state[x] = "WAITING"}
  BY <1>1, <1>5, <1>6 DEF Partition
<1>9. Partition(r)
  BY <1>3, <1>4, <1>5, <1>7, <1>8 DEF Partition
<1> QED
  BY <1>1, <1>6, <1>9 DEF OnlyWakes, r

(* So does wakeup_pid, whether it finds a task or not. *)
LEMMA WakeupKeepsPartition ==
  ASSUME NEW q, Partition(q), NEW pp, NEW p
  PROVE  Partition(Wakeup(q, pp, p)) /\ OnlyWakes(q, Wakeup(q, pp, p))
<1>1. CASE HasPid(q, pp, p) = {}
  BY <1>1 DEF Wakeup, OnlyWakes
<1>2. CASE HasPid(q, pp, p) # {}
  <2>1. FirstWithPid(q, pp, p) \in ToSet(q.waiting)
    BY <1>2, FirstWithPidWaits DEF Partition
  <2> QED
    BY <1>2, <2>1, MoveKeepsPartition DEF Wakeup
<1> QED BY <1>1, <1>2

(* Setting READY in a tcb that is READY already changes nothing. *)
LEMMA SameStateKeepsPartition ==
  ASSUME NEW q, Partition(q), NEW t \in Task, q.state[t] = "READY"
  PROVE  /\ Partition(WithState(q, t, "READY"))
         /\ OnlyWakes(q, WithState(q, t, "READY"))
         /\ WithState(q, t, "READY").state[t] = "READY"
<1> DEFINE r == WithState(q, t, "READY")
<1>1. r.running = q.running /\ r.waiting = q.waiting /\ r.state = [q.state EXCEPT ![t] = "READY"]
  BY DEF WithState
<1>2. r.state = q.state
  BY <1>1 DEF Partition
<1> HIDE DEF r
<1>3. Partition(r)
  BY <1>1, <1>2 DEF Partition
<1>4. OnlyWakes(q, r)
  BY <1>2 DEF OnlyWakes
<1> QED BY <1>2, <1>3, <1>4 DEF r

-----------------------------------------------------------------------------
(***************************************************************************)
(* The task switch.  IdleIn(q): the idle task is READY or WAITING in q,    *)
(* and pid 0 is its pid alone.                                             *)
(***************************************************************************)
IdleIn(q) ==
  /\ q.state[Idle] \in {"READY", "WAITING"}
  /\ \A t \in Task : q.state[t] # "FREE" => (pid[t] = IdlePid <=> t = Idle)

(* A wake-up keeps the idle task where switch_task can find it. *)
LEMMA WakesKeepIdle ==
  ASSUME NEW q, NEW r, OnlyWakes(q, r), IdleIn(q)
  PROVE  IdleIn(r)
<1>1. \A t \in Task : r.state[t] # "FREE" => q.state[t] # "FREE"
  BY DEF OnlyWakes
<1>2. r.state[Idle] \in {"READY", "WAITING"}
  BY TaskAssumption DEF OnlyWakes, IdleIn
<1> QED BY <1>1, <1>2 DEF IdleIn

(* force_pid0_into_running is only reached with the idle task running. *)
LEMMA WakeIdleSelectsReady ==
  ASSUME NEW q, Partition(q), IdleIn(q)
  PROVE  /\ Partition(WakeIdle(q).q) /\ OnlyWakes(q, WakeIdle(q).q)
         /\ WakeIdle(q).current \in Task
         /\ WakeIdle(q).q.state[WakeIdle(q).current] = "READY"
<1>1. CASE HasPid(q, pid, IdlePid) # {}
  <2> DEFINE t == FirstWithPid(q, pid, IdlePid)
  <2>1. t \in ToSet(q.waiting) /\ t \in Task
    BY <1>1, FirstWithPidWaits DEF Partition
  <2>2. /\ WakeIdle(q).q = MoveToRunning(q, t)
        /\ WakeIdle(q).current = t
    BY <1>1 DEF WakeIdle, Wakeup
  <2> HIDE DEF t
  <2> QED BY <2>1, <2>2, MoveKeepsPartition
<1>2. CASE HasPid(q, pid, IdlePid) = {}
  <2>1. pid[Idle] = IdlePid /\ Idle \in Task
    BY TaskAssumption DEF IdleIn
  <2>2. Idle \notin ToSet(q.waiting)
    BY <1>2, <2>1 DEF HasPid, ToSet
  <2>3. q.state[Idle] = "READY" /\ Idle \in ToSet(q.running)
    BY <2>1, <2>2 DEF Partition, IdleIn
  <2>4. Pid0(q) # {} /\ Pid0(q) \in SUBSET Nat
    BY <2>1, <2>3 DEF Pid0, ToSet, IdlePid, Partition
  <2> DEFINE z == q.running[Min(Pid0(q))]
  <2>5. z \in ToSet(q.running) /\ pid[z] = 0
    BY <2>4, MinInSet DEF Pid0, ToSet
  <2>6. z = Idle
    BY <2>5 DEF Partition, IdleIn, IdlePid
  <2>7. /\ WakeIdle(q).q = WithState(q, z, "READY")
        /\ WakeIdle(q).current = z
    BY <1>2, <2>4 DEF WakeIdle, ForcePid0
  <2> HIDE DEF z
  <2> QED BY <2>1, <2>3, <2>6, <2>7, SameStateKeepsPartition
<1> QED BY <1>1, <1>2

(* switch_task ends with a READY task of the running queue as the current one. *)
LEMMA SwitchSelectsReady ==
  ASSUME Partition(Queues), IdleIn(Queues),
         currently_running \in ToSet(running_tasks) \cup {NULL}
  PROVE  /\ Partition(SwitchTask.q) /\ OnlyWakes(Queues, SwitchTask.q)
         /\ SwitchTask.current \in Task
         /\ SwitchTask.q.state[SwitchTask.current] = "READY"
<1> DEFINE c == currently_running
           q == IF dma_interrupt_action = "DmaTransferedExternalTask"
                  THEN Wakeup(Queues, pid, IdlePid)
                  ELSE Queues
<1>0. OnlyWakes(Queues, Queues)
  BY DEF OnlyWakes
<1>1. Partition(q) /\ OnlyWakes(Queues, q) /\ IdleIn(q)
  BY <1>0, WakeupKeepsPartition, WakesKeepIdle
<1>2. SwitchTask = IF c = NULL THEN WakeIdle(Queues)
                   ELSE IF ReadyDistances(q, c) # {}
                     THEN [q |-> q, current |-> NextReady(q, c)]
                     ELSE WakeIdle(q)
  BY DEF SwitchTask
<1>3. CASE c = NULL
  BY <1>2, <1>3, WakeIdleSelectsReady
<1>4. CASE c # NULL /\ ReadyDistances(q, c) # {}
  <2>1. c \in ToSet(q.running)
    <3>1. c \in Task /\ Queues.state[c] \in {"READY", "FINISHED"}
      BY <1>4 DEF Partition, Queues
    <3> QED BY <1>1, <3>1 DEF Partition, OnlyWakes
  <2> HIDE DEF q
  <2>2. ReadyDistances(q, c) \in SUBSET Nat
    BY DEF ReadyDistances
  <2> DEFINE d == Min(ReadyDistances(q, c))
  <2>3. d \in 1..Len(q.running) /\ q.state[RingNext(q.running, c, d)] = "READY"
    BY <1>4, <2>2, MinInSet DEF ReadyDistances
  <2>4. NextReady(q, c) \in ToSet(q.running) /\ q.state[NextReady(q, c)] = "READY"
    BY <1>1, <2>1, <2>3, RingNextMember DEF NextReady, Partition
  <2>5. SwitchTask.q = q /\ SwitchTask.current = NextReady(q, c)
    BY <1>2, <1>4
  <2> QED BY <1>1, <2>4, <2>5 DEF Partition
<1>5. CASE c # NULL /\ ReadyDistances(q, c) = {}
  <2>1. SwitchTask = WakeIdle(q)
    BY <1>2, <1>5
  <2> HIDE DEF q
  <2>2. /\ Partition(SwitchTask.q) /\ OnlyWakes(q, SwitchTask.q)
        /\ SwitchTask.current \in Task
        /\ SwitchTask.q.state[SwitchTask.current] = "READY"
    BY <1>1, <2>1, WakeIdleSelectsReady
  <2> QED BY <1>1, <2>2 DEF OnlyWakes
<1> QED BY <1>3, <1>4, <1>5

-----------------------------------------------------------------------------
(***************************************************************************)
(* The inductive invariant, with its queue part as Partition(Queues).      *)
(***************************************************************************)
LEMMA QueuesFields ==
  /\ Queues.running = running_tasks
  /\ Queues.waiting = waiting_tasks
  /\ Queues.state = state
BY DEF Queues

LEMMA InvHasPartition ==
  ASSUME IInv
  PROVE  Partition(Queues) /\ IdleIn(Queues)
BY DEF IInv, TypeOK, QueuesPartitionTasks, IdleKnownByPid, Live, Partition, IdleIn,
       Queues, States

(* setup_kernel_runtime establishes it. *)
LEMMA InitInv == Init => IInv
<1> SUFFICES ASSUME Init PROVE IInv
  OBVIOUS
<1> USE TaskAssumption DEF Init
<1>1. TypeOK
  <2>1. running_tasks \in Seq(Task) /\ waiting_tasks \in Seq(Task)
    OBVIOUS
  <2>2. /\ pid \in [Task -> Nat]
        /\ state \in [Task -> {"READY", "WAITING", "FINISHED", "INVALID", "FREE"}]
        /\ join_pid \in [Task -> Nat \cup {NoPid}]
        /\ parent_task \in [Task -> Task \cup {NULL}]
        /\ sp \in [Task -> Task]
    BY DEF IdlePid
  <2>3. /\ arg \in Nat \cup {NoPid} /\ scan \in [q : Task, j : Nat]
        /\ clean_up_requests \in 0..(CleanUpModulus - 1)
        /\ dma_interrupt_action \in DmaActions /\ pid_of_sleeping_task \in Nat
    BY DmaAssumption DEF NoScan, IdlePid, CleanUpModulus
  <2> QED BY <2>1, <2>2, <2>3 DEF TypeOK
<1>2. QueuesPartitionTasks
  <2>1. ToSet(running_tasks) = {Idle} /\ ToSet(waiting_tasks) = {}
    BY DEF ToSet
  <2>2. IsInjective(running_tasks) /\ IsInjective(waiting_tasks)
    BY DEF IsInjective
  <2> QED BY <2>1, <2>2 DEF QueuesPartitionTasks
<1>3. ProcessorAgreesWithQueues
  BY DEF ProcessorAgreesWithQueues, ToSet
<1>4. ContextsBelongToTasks /\ IdleKnownByPid /\ CallsInOrder
  BY DEF ContextsBelongToTasks, IdleKnownByPid, CallsInOrder, Live
<1> QED BY <1>1, <1>2, <1>3, <1>4 DEF IInv

(* svcall(yieldTask). *)
LEMMA YieldInv ==
  ASSUME IInv, NEW t \in Task, YieldTask(t)
  PROVE  IInv'
<1> USE DEF IInv, YieldTask, queueVars, tcbVars, callVars, sleepVars
<1>1. TypeOK'
  BY DEF TypeOK
<1>2. QueuesPartitionTasks' /\ IdleKnownByPid'
  BY DEF QueuesPartitionTasks, IdleKnownByPid, Live
<1>3. ProcessorAgreesWithQueues' /\ ContextsBelongToTasks' /\ CallsInOrder'
  BY DEF ProcessorAgreesWithQueues, ContextsBelongToTasks, CallsInOrder, Executes
<1> QED BY <1>1, <1>2, <1>3

(***************************************************************************)
(* create_task: the idle task is in one of the queues, so the new task     *)
(* never gets pid 0, and a tcb that was free is in neither queue.          *)
(***************************************************************************)
LEMMA CreateInv ==
  ASSUME IInv, NEW t \in Task, NEW n \in Task, CreateTask(t, n)
  PROVE  IInv'
<1> DEFINE p == Len(running_tasks) + Len(waiting_tasks)
<1>0. Partition(Queues) /\ IdleIn(Queues)
  BY InvHasPartition
<1>1. p \in Nat /\ p # 0
  <2>1. Len(running_tasks) \in Nat /\ Len(waiting_tasks) \in Nat
    BY DEF IInv, TypeOK
  <2>2. Idle \in ToSet(running_tasks) \/ Idle \in ToSet(waiting_tasks)
    BY TaskAssumption DEF IInv, QueuesPartitionTasks, IdleKnownByPid
  <2>3. 1 <= Len(running_tasks) \/ 1 <= Len(waiting_tasks)
    BY <2>1, <2>2 DEF ToSet, IInv, TypeOK
  <2> QED BY <2>1, <2>3
<1>2. /\ state[n] = "FREE" /\ n # Idle /\ psp # n
      /\ n \notin ToSet(running_tasks) /\ n \notin ToSet(waiting_tasks)
  BY DEF CreateTask, IInv, QueuesPartitionTasks, IdleKnownByPid, CallsInOrder
<1>3. /\ state' = [state EXCEPT ![n] = "READY"]
      /\ running_tasks' = Append(running_tasks, n)
      /\ waiting_tasks' = waiting_tasks
      /\ pid' = [pid EXCEPT ![n] = p]
  BY <1>1 DEF CreateTask
<1>4. /\ running_tasks' \in Seq(Task) /\ IsInjective(running_tasks')
      /\ ToSet(running_tasks') = ToSet(running_tasks) \cup {n}
  <2>1. running_tasks \in Seq(Task) /\ IsInjective(running_tasks)
    BY DEF IInv, TypeOK, QueuesPartitionTasks
  <2> QED BY <1>2, <1>3, <2>1, AppendAdds
<1> HIDE DEF p
<1>5. TypeOK'
  BY <1>1, <1>3, <1>4 DEF IInv, TypeOK, CreateTask, NoPid, callVars, sleepVars,
     Executes
<1>6. QueuesPartitionTasks'
  BY <1>2, <1>3, <1>4 DEF IInv, QueuesPartitionTasks, TypeOK
<1>7. ProcessorAgreesWithQueues'
  BY <1>2, <1>3, <1>4 DEF IInv, ProcessorAgreesWithQueues, TypeOK, CreateTask,
     Executes, callVars
<1>8. ContextsBelongToTasks'
  BY DEF IInv, ContextsBelongToTasks, TypeOK, CreateTask
<1>9. IdleKnownByPid'
  BY <1>1, <1>2, <1>3 DEF IInv, IdleKnownByPid, Live, TypeOK, IdlePid
<1>10. CallsInOrder'
  BY <1>2, <1>3, <1>4 DEF IInv, CallsInOrder, TypeOK, CreateTask, Executes, callVars
<1> QED BY <1>5, <1>6, <1>7, <1>8, <1>9, <1>10 DEF IInv

(***************************************************************************)
(* block_current_task: with another node in the ring, prev of the blocked  *)
(* node is another node, and stays in the ring.                            *)
(***************************************************************************)
LEMMA BlockInv ==
  ASSUME IInv, NEW t \in Task, BlockCurrentTask(t)
  PROVE  IInv'
<1> DEFINE c == currently_running
           rest == Isolate(running_tasks, c)
<1>1. c = psp /\ c \in Task /\ c \in ToSet(running_tasks) /\ state[c] = "READY"
  BY DEF IInv, TypeOK, ProcessorAgreesWithQueues, QueuesPartitionTasks,
     BlockCurrentTask
<1>2. /\ rest \in Seq(Task) /\ IsInjective(rest)
      /\ Len(rest) = Len(running_tasks) - 1
      /\ ToSet(rest) = ToSet(running_tasks) \ {c}
  BY <1>1, IsolateRemoves DEF IInv, TypeOK, QueuesPartitionTasks
<1>3. /\ running_tasks' = rest
      /\ waiting_tasks' = Append(waiting_tasks, c)
      /\ state' = [state EXCEPT ![c] = "WAITING"]
      /\ currently_running' = IF Len(rest) > 0 THEN RingPrev(running_tasks, c) ELSE NULL
  BY DEF BlockCurrentTask
<1>4. currently_running' \in ToSet(rest) \cup {NULL}
  <2>1. CASE Len(rest) > 0
    <3>1. Len(running_tasks) - 1 \in 1..(Len(running_tasks) - 1)
      BY <1>2, <2>1 DEF IInv, TypeOK
    <3>2. RingPrev(running_tasks, c) # c
      BY <1>1, <3>1, RingNextOther DEF RingPrev, IInv, TypeOK, QueuesPartitionTasks
    <3>3. RingPrev(running_tasks, c) \in ToSet(running_tasks)
      BY <1>1, <3>1, RingNextMember DEF RingPrev, IInv, TypeOK
    <3> QED BY <1>2, <1>3, <2>1, <3>2, <3>3
  <2> QED BY <1>3, <2>1
<1> HIDE DEF rest
<1>5. /\ waiting_tasks' \in Seq(Task) /\ IsInjective(waiting_tasks')
      /\ ToSet(waiting_tasks') = ToSet(waiting_tasks) \cup {c}
  BY <1>1, <1>3, AppendAdds DEF IInv, TypeOK, QueuesPartitionTasks
<1>6. TypeOK'
  <2>1. currently_running' \in Task \cup {NULL}
    BY <1>2, <1>4 DEF IInv, QueuesPartitionTasks
  <2> QED
    BY <1>1, <1>2, <1>3, <1>5, <2>1 DEF IInv, TypeOK, BlockCurrentTask, tcbVars, sleepVars
<1>7. QueuesPartitionTasks'
  BY <1>1, <1>2, <1>3, <1>5 DEF IInv, QueuesPartitionTasks, TypeOK
<1>8. ProcessorAgreesWithQueues'
  BY <1>3, <1>4 DEF ProcessorAgreesWithQueues, BlockCurrentTask
<1>9. ContextsBelongToTasks'
  BY <1>1 DEF IInv, ContextsBelongToTasks, BlockCurrentTask
<1>10. IdleKnownByPid'
  BY <1>1, <1>3, TaskAssumption DEF IInv, IdleKnownByPid, Live, TypeOK,
     BlockCurrentTask, tcbVars
<1>11. CallsInOrder'
  BY <1>1, <1>3 DEF IInv, CallsInOrder, TypeOK, BlockCurrentTask
<1> QED BY <1>6, <1>7, <1>8, <1>9, <1>10, <1>11 DEF IInv

(***************************************************************************)
(* Steps that leave the queues, the pids and the processor alone.          *)
(***************************************************************************)
LEMMA QuietStepInv ==
  ASSUME IInv, UNCHANGED <<queueVars, pid, cpuVars>>, TypeOK', CallsInOrder',
         call = "yield" => call' = "yield"
  PROVE  IInv'
<1> USE DEF IInv, queueVars, cpuVars
<1>1. QueuesPartitionTasks' /\ ContextsBelongToTasks' /\ IdleKnownByPid'
  BY DEF QueuesPartitionTasks, ContextsBelongToTasks, IdleKnownByPid, Live
<1>2. ProcessorAgreesWithQueues'
  BY DEF ProcessorAgreesWithQueues
<1> QED BY <1>1, <1>2

(* task_sleep before it blocks. *)
LEMMA SleepInv ==
  ASSUME IInv, NEW t \in Task, TaskSleep(t)
  PROVE  IInv'
<1> USE DEF IInv, TaskSleep, Executes, queueVars, tcbVars, cpuVars
<1>1. pid[currently_running] \in Nat
  BY DEF TypeOK, ProcessorAgreesWithQueues
<1>2. TypeOK'
  BY <1>1 DEF TypeOK
<1>3. CallsInOrder'
  BY DEF CallsInOrder
<1> QED BY <1>2, <1>3, QuietStepInv

(* join_task is entered. *)
LEMMA JoinInv ==
  ASSUME IInv, NEW t \in Task, NEW p \in Pids, JoinTask(t, p)
  PROVE  IInv'
<1> USE DEF IInv, JoinTask, Executes, queueVars, tcbVars, cpuVars, sleepVars
<1>1. p \in Nat
  BY FS_CardinalityType, TaskAssumption DEF Pids
<1>2. TypeOK'
  BY <1>1 DEF TypeOK
<1>3. CallsInOrder'
  BY DEF CallsInOrder
<1> QED BY <1>2, <1>3, QuietStepInv

(* join_task returns or goes on to block. *)
LEMMA JoinDecidesInv ==
  ASSUME IInv, JoinDecides
  PROVE  IInv'
<1> USE DEF IInv, JoinDecides, queueVars, cpuVars, sleepVars
<1>1. join_pid' \in [Task -> Nat \cup {NoPid}]
  BY DEF TypeOK
<1>2. TypeOK'
  BY <1>1 DEF TypeOK
<1>3. CallsInOrder'
  BY DEF CallsInOrder
<1> QED BY <1>2, <1>3, QuietStepInv

(* The system call that ends block_current_task. *)
LEMMA BlockYieldsInv ==
  ASSUME IInv, BlockYields
  PROVE  IInv'
<1> USE DEF IInv, BlockYields, queueVars, tcbVars, sleepVars
<1>1. TypeOK'
  BY DEF TypeOK
<1>2. QueuesPartitionTasks' /\ ContextsBelongToTasks' /\ IdleKnownByPid'
  BY DEF QueuesPartitionTasks, ContextsBelongToTasks, IdleKnownByPid, Live
<1>3. ProcessorAgreesWithQueues' /\ CallsInOrder'
  BY DEF ProcessorAgreesWithQueues, CallsInOrder
<1> QED BY <1>1, <1>2, <1>3

(* search_invalidate_tasks starts at the node of the idle task ... *)
LEMMA SearchStartsInv ==
  ASSUME IInv, SearchStarts
  PROVE  IInv'
<1> USE DEF IInv, SearchStarts, Executes, queueVars, tcbVars, cpuVars, sleepVars
<1>1. currently_running \in ToSet(running_tasks) /\ currently_running \in Task
  BY DEF ProcessorAgreesWithQueues, QueuesPartitionTasks, TypeOK
<1>2. TypeOK'
  BY <1>1 DEF TypeOK
<1>3. CallsInOrder'
  BY <1>1 DEF CallsInOrder
<1> QED BY <1>2, <1>3, QuietStepInv

(* ... walks along the ring ... *)
LEMMA SearchSkipsInv ==
  ASSUME IInv, SearchSkips
  PROVE  IInv'
<1> USE DEF IInv, SearchSkips, Searching, Advance, queueVars, tcbVars, cpuVars,
            sleepVars
<1>1. scan.q \in ToSet(running_tasks) /\ running_tasks \in Seq(Task)
  BY DEF CallsInOrder, TypeOK
<1>2. 1 \in 0..Len(running_tasks)
  BY <1>1 DEF ToSet
<1>3. scan'.q \in ToSet(running_tasks) /\ scan'.q \in Task
  BY <1>1, <1>2, RingNextMember DEF QueuesPartitionTasks
<1>4. TypeOK'
  BY <1>3 DEF TypeOK
<1>5. CallsInOrder'
  BY <1>3 DEF CallsInOrder
<1> QED BY <1>4, <1>5, QuietStepInv

(* ... and returns. *)
LEMMA SearchEndsInv ==
  ASSUME IInv, SearchEnds
  PROVE  IInv'
<1> USE DEF IInv, SearchEnds, queueVars, tcbVars, cpuVars, sleepVars
<1>1. TypeOK'
  BY TaskAssumption DEF TypeOK, NoScan
<1>2. CallsInOrder'
  BY DEF CallsInOrder
<1> QED BY <1>1, <1>2, QuietStepInv

(* The DMA interrupt. *)
LEMMA DmaInv ==
  ASSUME IInv, DmaActionChanges
  PROVE  IInv'
<1> USE DEF IInv, DmaActionChanges, queueVars, tcbVars, cpuVars, callVars, sleepVars
<1>1. TypeOK'
  BY DEF TypeOK
<1>2. CallsInOrder'
  BY DEF CallsInOrder
<1> QED BY <1>1, <1>2, QuietStepInv

(***************************************************************************)
(* Interrupt handlers that only wake tasks up.                             *)
(***************************************************************************)
LEMMA WakesInv ==
  ASSUME IInv, NEW r, SetQueues(r), Partition(r), OnlyWakes(Queues, r),
         UNCHANGED <<tcbVars, cpuVars, callVars>>, TypeOK'
  PROVE  IInv'
<1> USE DEF IInv, tcbVars, cpuVars, callVars
<1>1. running_tasks' = r.running /\ waiting_tasks' = r.waiting /\ state' = r.state
  BY DEF SetQueues
<1>2. \A t \in Task : state'[t] = state[t] \/ (state[t] = "WAITING" /\ state'[t] = "READY")
  BY <1>1 DEF OnlyWakes, Queues
<1>3. QueuesPartitionTasks'
  BY <1>1 DEF QueuesPartitionTasks, Partition
<1>4. ToSet(running_tasks) \subseteq ToSet(running_tasks')
  BY <1>2, <1>3 DEF QueuesPartitionTasks
<1>5. ProcessorAgreesWithQueues'
  BY <1>2, <1>4 DEF ProcessorAgreesWithQueues, TypeOK
<1>6. ContextsBelongToTasks'
  BY DEF ContextsBelongToTasks
<1>7. IdleKnownByPid'
  BY <1>2, TaskAssumption DEF IdleKnownByPid, Live
<1>8. CallsInOrder'
  BY <1>2, <1>4 DEF CallsInOrder, TypeOK
<1> QED BY <1>3, <1>5, <1>6, <1>7, <1>8

LEMMA HandlerWakeupInv ==
  ASSUME IInv, NEW p \in Pids, HandlerWakeup(p)
  PROVE  IInv'
<1> DEFINE r == Wakeup(Queues, pid, p)
<1>1. Partition(r) /\ OnlyWakes(Queues, r)
  BY InvHasPartition, WakeupKeepsPartition
<1> HIDE DEF r
<1>2. SetQueues(r)
  BY DEF HandlerWakeup, r
<1>3. TypeOK'
  BY <1>1, <1>2 DEF IInv, TypeOK, HandlerWakeup, Partition, SetQueues, States,
     tcbVars, cpuVars, callVars, sleepVars
<1> QED BY <1>1, <1>2, <1>3, WakesInv DEF HandlerWakeup

LEMMA Tim3IsrInv ==
  ASSUME IInv, Tim3Isr
  PROVE  IInv'
<1> DEFINE r == Wakeup(Queues, pid, pid_of_sleeping_task)
<1>1. Partition(r) /\ OnlyWakes(Queues, r)
  BY InvHasPartition, WakeupKeepsPartition
<1> HIDE DEF r
<1>2. SetQueues(r)
  BY DEF Tim3Isr, r
<1>3. TypeOK'
  BY <1>1, <1>2 DEF IInv, TypeOK, Tim3Isr, Partition, SetQueues, States,
     tcbVars, cpuVars, callVars, sleepVars
<1> QED BY <1>1, <1>2, <1>3, WakesInv DEF Tim3Isr

(***************************************************************************)
(* finish_task: the node stays in the running queue, and a wake-up of the  *)
(* parent, whatever its tcb holds, keeps the partition.                    *)
(***************************************************************************)
LEMMA FinishInv ==
  ASSUME IInv, NEW t \in Task, FinishTask(t)
  PROVE  IInv'
<1> DEFINE c == currently_running
           f == WithState(Queues, c, "FINISHED")
<1>1. c = t /\ c \in Task /\ state[c] = "READY" /\ c # Idle
  BY DEF IInv, TypeOK, ProcessorAgreesWithQueues, FinishTask, Executes
<1>2. /\ f.running = running_tasks /\ f.waiting = waiting_tasks
      /\ f.state = [state EXCEPT ![c] = "FINISHED"]
  BY DEF WithState, Queues
<1> HIDE DEF f
<1>3. Partition(f)
  BY <1>1, <1>2, InvHasPartition DEF Partition, Queues, States
<1>4. PICK r \in AfterJoin(f, c) : SetQueues(r)
  BY DEF FinishTask, f
<1>5. r = f \/ \E p : r = Wakeup(f, pid, p)
  BY DEF AfterJoin
<1>6. Partition(r) /\ OnlyWakes(f, r)
  BY <1>3, <1>5, WakeupKeepsPartition DEF OnlyWakes
<1>7. running_tasks' = r.running /\ waiting_tasks' = r.waiting /\ state' = r.state
  BY <1>4 DEF SetQueues
<1>8. /\ state'[c] = "FINISHED"
      /\ \A x \in Task \ {c} : \/ state'[x] = state[x]
                               \/ state[x] = "WAITING" /\ state'[x] = "READY"
  BY <1>1, <1>2, <1>6, <1>7 DEF OnlyWakes, IInv, TypeOK
<1>9. TypeOK'
  <2>1. /\ clean_up_requests' = (clean_up_requests + 1) % CleanUpModulus
        /\ pendsv' = TRUE
        /\ UNCHANGED <<tcbVars, currently_running, task_to_preserve, sp, psp,
                       callVars, sleepVars, dma_interrupt_action>>
    BY DEF FinishTask
  <2>2. clean_up_requests' \in 0..(CleanUpModulus - 1)
    BY <2>1 DEF IInv, TypeOK, CleanUpModulus
  <2>3. /\ running_tasks' \in Seq(Task) /\ waiting_tasks' \in Seq(Task)
        /\ state' \in [Task -> {"READY", "WAITING", "FINISHED", "INVALID", "FREE"}]
    BY <1>6, <1>7 DEF Partition, States
  <2> QED
    BY <2>1, <2>2, <2>3 DEF IInv, TypeOK, tcbVars, callVars, sleepVars
<1>10. QueuesPartitionTasks'
  BY <1>6, <1>7 DEF QueuesPartitionTasks, Partition
<1>11. ProcessorAgreesWithQueues'
  BY <1>1, <1>8, <1>10 DEF ProcessorAgreesWithQueues, QueuesPartitionTasks, FinishTask
<1>12. ContextsBelongToTasks'
  BY DEF IInv, ContextsBelongToTasks, FinishTask
<1>13. IdleKnownByPid'
  BY <1>1, <1>8, TaskAssumption DEF IInv, IdleKnownByPid, Live, FinishTask, tcbVars
<1>14. CallsInOrder'
  BY <1>1, <1>8 DEF IInv, CallsInOrder, FinishTask, Executes, callVars
<1> QED BY <1>9, <1>10, <1>11, <1>12, <1>13, <1>14 DEF IInv

(***************************************************************************)
(* clean_up_task: the idle task runs, so the finished task is not the only *)
(* one in the ring, and the next pointer read from its deallocated node    *)
(* leads to a task that is still there.                                    *)
(***************************************************************************)
LEMMA CleanUpInv ==
  ASSUME IInv, CleanUpTask
  PROVE  IInv'
<1> DEFINE t == scan.q
           rest == Isolate(running_tasks, t)
<1>1. /\ psp = Idle /\ currently_running = Idle /\ state[Idle] = "READY"
      /\ t \in ToSet(running_tasks) /\ t \in Task /\ Idle \in Task
      /\ state[t] = "FINISHED" /\ t # Idle /\ Idle \in ToSet(running_tasks)
  BY TaskAssumption DEF IInv, CallsInOrder, CleanUpTask, Searching,
     ProcessorAgreesWithQueues, QueuesPartitionTasks, TypeOK
<1>2. running_tasks \in Seq(Task) /\ IsInjective(running_tasks)
  BY DEF IInv, TypeOK, QueuesPartitionTasks
<1>3. /\ rest \in Seq(Task) /\ IsInjective(rest)
      /\ ToSet(rest) = ToSet(running_tasks) \ {t}
  BY <1>1, <1>2, IsolateRemoves
<1>4. 1 \in 1..(Len(running_tasks) - 1) /\ 1 \in 0..Len(running_tasks)
  <2>1. IndexOf(running_tasks, t) \in 1..Len(running_tasks)
        /\ IndexOf(running_tasks, Idle) \in 1..Len(running_tasks)
        /\ running_tasks[IndexOf(running_tasks, t)] = t
        /\ running_tasks[IndexOf(running_tasks, Idle)] = Idle
    BY <1>1, <1>2, IndexOfMember
  <2> QED BY <1>1, <1>2, <2>1
<1>5. RingNext(running_tasks, t, 1) \in ToSet(rest)
  <2>1. RingNext(running_tasks, t, 1) \in ToSet(running_tasks)
    BY <1>1, <1>2, <1>4, RingNextMember
  <2>2. RingNext(running_tasks, t, 1) # t
    BY <1>1, <1>2, <1>4, RingNextOther
  <2> QED BY <1>3, <2>1, <2>2
<1>6. /\ running_tasks' = rest
      /\ waiting_tasks' = waiting_tasks
      /\ state' = [state EXCEPT ![t] = "FREE"]
      /\ scan' = [q |-> RingNext(running_tasks, t, 1), j |-> scan.j + 1]
  BY DEF CleanUpTask, Advance
<1> HIDE DEF rest
<1>7. scan' \in [q : Task, j : Nat] /\ scan'.q \in ToSet(running_tasks')
  BY <1>3, <1>5, <1>6 DEF IInv, TypeOK, QueuesPartitionTasks
<1>8. TypeOK'
  BY <1>1, <1>3, <1>6, <1>7, TaskAssumption DEF IInv, TypeOK, CleanUpTask, cpuVars,
     sleepVars, CleanUpModulus, IdlePid, NoPid
<1>9. QueuesPartitionTasks'
  BY <1>1, <1>3, <1>6 DEF IInv, QueuesPartitionTasks, TypeOK
<1>10. ProcessorAgreesWithQueues'
  BY <1>1, <1>3, <1>6 DEF IInv, ProcessorAgreesWithQueues, TypeOK, CleanUpTask, cpuVars
<1>11. ContextsBelongToTasks'
  BY DEF IInv, ContextsBelongToTasks, CleanUpTask, cpuVars
<1>12. IdleKnownByPid'
  BY <1>1, <1>6 DEF IInv, IdleKnownByPid, Live, TypeOK, CleanUpTask
<1>13. CallsInOrder'
  BY <1>1, <1>6, <1>7 DEF IInv, CallsInOrder, TypeOK, CleanUpTask, cpuVars
<1> QED BY <1>8, <1>9, <1>10, <1>11, <1>12, <1>13 DEF IInv

(***************************************************************************)
(* pendsv_isr: saving to task_to_preserve changes no saved context, and    *)
(* the task that is loaded is READY and current.                           *)
(***************************************************************************)
LEMMA PendSVInv ==
  ASSUME IInv, PendSV
  PROVE  IInv'
<1> DEFINE n == SwitchTask
           r == n.q
           c == n.current
<1>1. /\ Partition(r) /\ OnlyWakes(Queues, r)
      /\ c \in Task /\ r.state[c] = "READY"
  BY InvHasPartition, SwitchSelectsReady DEF IInv, ProcessorAgreesWithQueues
<1>2. /\ running_tasks' = r.running /\ waiting_tasks' = r.waiting /\ state' = r.state
      /\ currently_running' = c /\ task_to_preserve' = c
      /\ sp' = [sp EXCEPT ![task_to_preserve] = psp]
      /\ psp' = IF c = NULL THEN NULL ELSE sp'[c]
      /\ ~pendsv' /\ pendsv' \in BOOLEAN
      /\ UNCHANGED <<tcbVars, callVars, sleepVars, clean_up_requests,
                     dma_interrupt_action>>
  BY DEF PendSV, SetQueues
<1> HIDE DEF n
<1>3. sp' = sp
  BY <1>2 DEF IInv, TypeOK, ContextsBelongToTasks
<1>4. psp' = c
  BY <1>1, <1>2, <1>3, TaskAssumption DEF IInv, ContextsBelongToTasks
<1>5. TypeOK'
  BY <1>1, <1>2, <1>3, <1>4 DEF IInv, TypeOK, Partition, States, tcbVars, callVars,
     sleepVars
<1>6. QueuesPartitionTasks'
  BY <1>1, <1>2 DEF QueuesPartitionTasks, Partition
<1>7. c \in ToSet(running_tasks')
  BY <1>1, <1>2 DEF Partition
<1>8. ProcessorAgreesWithQueues' /\ ContextsBelongToTasks'
  BY <1>1, <1>2, <1>3, <1>4, <1>7 DEF IInv, ProcessorAgreesWithQueues,
     ContextsBelongToTasks
<1>9. IdleKnownByPid'
  <2>1. \A t \in Task : state'[t] = state[t] \/ (state[t] = "WAITING" /\ state'[t] = "READY")
    BY <1>1, <1>2 DEF OnlyWakes, Queues
  <2> QED
    BY <1>2, <2>1, TaskAssumption DEF IInv, IdleKnownByPid, Live, tcbVars
<1>10. CallsInOrder'
  BY <1>1, <1>2, <1>4 DEF IInv, CallsInOrder, PendSV, callVars
<1> QED BY <1>5, <1>6, <1>8, <1>9, <1>10 DEF IInv

-----------------------------------------------------------------------------
LEMMA NextInv == IInv /\ [Next]_vars => IInv'
<1> SUFFICES ASSUME IInv, [Next]_vars PROVE IInv'
  OBVIOUS
<1>1. CASE ThreadStep
  BY <1>1, YieldInv, CreateInv, BlockInv, SleepInv, JoinInv, JoinDecidesInv,
     BlockYieldsInv, FinishInv, SearchStartsInv, SearchSkipsInv, CleanUpInv,
     SearchEndsInv DEF ThreadStep
<1>2. CASE PendSV
  BY <1>2, PendSVInv
<1>3. CASE Interrupt
  BY <1>3, HandlerWakeupInv, Tim3IsrInv, DmaInv DEF Interrupt
<1>4. CASE UNCHANGED vars
  <2> USE <1>4 DEF IInv, vars, queueVars, tcbVars, cpuVars, callVars, sleepVars
  <2>1. TypeOK' /\ CallsInOrder'
    BY DEF TypeOK, CallsInOrder
  <2> QED BY <2>1, QuietStepInv
<1> QED BY <1>1, <1>2, <1>3, <1>4 DEF Next

(***************************************************************************)
(* The invariant of the scheduler.                                         *)
(***************************************************************************)
THEOREM SchedulerInvariant == Spec => []IInv
BY InitInv, NextInv, PTL DEF Spec

(***************************************************************************)
(* The variables keep their types: in particular psp and task_to_preserve  *)
(* always are tasks, so pendsv_isr never dereferences a null pointer.      *)
(***************************************************************************)
THEOREM SchedulerTypeCorrect == Spec => []TypeOK
<1>1. IInv => TypeOK
  BY DEF IInv
<1> QED BY <1>1, SchedulerInvariant, PTL

(***************************************************************************)
(* No task is lost from the queues or queued twice, whatever interrupts    *)
(* block_current_task, finish_task or search_invalidate_tasks.             *)
(***************************************************************************)
THEOREM QueuesStayPartitioned == Spec => []QueuesPartitionTasks
<1>1. IInv => QueuesPartitionTasks
  BY DEF IInv
<1> QED BY <1>1, SchedulerInvariant, PTL

(***************************************************************************)
(* The executing task is the READY task currently_running points to.       *)
(***************************************************************************)
THEOREM ExecutingTaskIsCurrent == Spec => []ProcessorAgreesWithQueues
<1>1. IInv => ProcessorAgreesWithQueues
  BY DEF IInv
<1> QED BY <1>1, SchedulerInvariant, PTL

(***************************************************************************)
(* pendsv_isr saves every context into the tcb it belongs to.              *)
(***************************************************************************)
THEOREM ContextsStayApart == Spec => []ContextsBelongToTasks
<1>1. IInv => ContextsBelongToTasks
  BY DEF IInv
<1> QED BY <1>1, SchedulerInvariant, PTL

(***************************************************************************)
(* clean_up_task deallocates nothing that is still in use.                 *)
(***************************************************************************)
THEOREM CleanUpIsSafe == Spec => []NothingInUseIsFree
<1>1. IInv => NothingInUseIsFree
  BY DEF IInv, NothingInUseIsFree, CallsInOrder, ProcessorAgreesWithQueues,
     QueuesPartitionTasks, TypeOK, Live
<1> QED BY <1>1, SchedulerInvariant, PTL

(***************************************************************************)
(* switch_task always finds a task.                                        *)
(***************************************************************************)
THEOREM SwitchNeverFails == Spec => []SwitchFindsTask
<1>1. IInv => SwitchFindsTask
  BY InvHasPartition, SwitchSelectsReady, TaskAssumption
     DEF IInv, SwitchFindsTask, ProcessorAgreesWithQueues
<1> QED BY <1>1, SchedulerInvariant, PTL

-----------------------------------------------------------------------------
(***************************************************************************)
(* What a step does to one task's state.  A task becomes FINISHED by its   *)
(* own finish_task only, and leaves that state by clean_up_task only.      *)
(***************************************************************************)
LEMMA OnlyWakesUnfinished ==
  ASSUME IInv, NEW r, OnlyWakes(Queues, r), SetQueues(r)
  PROVE  \A t \in Task : state[t] = "FINISHED" <=> state'[t] = "FINISHED"
BY DEF OnlyWakes, SetQueues, Queues

LEMMA FinishedSteps ==
  ASSUME IInv, Next
  PROVE  \/ /\ \A t \in Task : state[t] = "FINISHED" <=> state'[t] = "FINISHED"
            /\ UNCHANGED clean_up_requests
         \/ /\ state[currently_running] # "FINISHED" /\ currently_running \in Task
            /\ \A t \in Task : state'[t] = "FINISHED" <=>
                                 state[t] = "FINISHED" \/ t = currently_running
            /\ clean_up_requests' = (clean_up_requests + 1) % CleanUpModulus
            /\ UNCHANGED psp
         \/ /\ state[scan.q] = "FINISHED" /\ scan.q \in Task
            /\ state' = [state EXCEPT ![scan.q] = "FREE"]
            /\ clean_up_requests' = (clean_up_requests - 1) % CleanUpModulus
            /\ UNCHANGED psp
<1> USE DEF queueVars, tcbVars, cpuVars, callVars, sleepVars
<1>1. CASE \/ \E t \in Task : YieldTask(t) \/ TaskSleep(t) \/ \E p \in Pids : JoinTask(t, p)
           \/ JoinDecides \/ BlockYields \/ SearchStarts \/ SearchSkips \/ SearchEnds
           \/ DmaActionChanges
  BY <1>1 DEF YieldTask, TaskSleep, JoinTask, JoinDecides, BlockYields, SearchStarts,
     SearchSkips, SearchEnds, DmaActionChanges
<1>2. ASSUME NEW t \in Task, BlockCurrentTask(t)
      PROVE  /\ \A x \in Task : state[x] = "FINISHED" <=> state'[x] = "FINISHED"
             /\ UNCHANGED clean_up_requests
  <2>1. state[currently_running] = "READY" /\ currently_running \in Task
    BY <1>2 DEF IInv, TypeOK, ProcessorAgreesWithQueues, BlockCurrentTask
  <2> QED BY <1>2, <2>1 DEF BlockCurrentTask, IInv, TypeOK
<1>3. ASSUME NEW t \in Task, NEW n \in Task, CreateTask(t, n)
      PROVE  /\ \A x \in Task : state[x] = "FINISHED" <=> state'[x] = "FINISHED"
             /\ UNCHANGED clean_up_requests
  BY <1>3 DEF CreateTask, IInv, TypeOK
<1>4. ASSUME NEW t \in Task, FinishTask(t)
      PROVE  /\ state[currently_running] # "FINISHED" /\ currently_running \in Task
             /\ \A x \in Task : state'[x] = "FINISHED" <=>
                                  state[x] = "FINISHED" \/ x = currently_running
             /\ clean_up_requests' = (clean_up_requests + 1) % CleanUpModulus
             /\ UNCHANGED psp
  <2> DEFINE c == currently_running
             f == WithState(Queues, c, "FINISHED")
  <2>1. state[c] = "READY" /\ c \in Task
    BY <1>4 DEF IInv, TypeOK, ProcessorAgreesWithQueues, FinishTask, Executes
  <2>2. /\ f.running = running_tasks /\ f.waiting = waiting_tasks
        /\ f.state = [state EXCEPT ![c] = "FINISHED"]
    BY DEF WithState, Queues
  <2> HIDE DEF f
  <2>3. Partition(f)
    BY <2>1, <2>2, InvHasPartition DEF Partition, Queues, States
  <2>4. PICK r \in AfterJoin(f, c) : SetQueues(r)
    BY <1>4 DEF FinishTask, f
  <2>5. r = f \/ \E p : r = Wakeup(f, pid, p)
    BY DEF AfterJoin
  <2>6. OnlyWakes(f, r)
    BY <2>3, <2>5, WakeupKeepsPartition DEF OnlyWakes
  <2>7. \A x \in Task : f.state[x] = IF x = c THEN "FINISHED" ELSE state[x]
    BY <2>1, <2>2 DEF IInv, TypeOK
  <2>8. \A x \in Task : r.state[x] = "FINISHED" <=> state[x] = "FINISHED" \/ x = c
    BY <2>6, <2>7 DEF OnlyWakes
  <2> QED BY <1>4, <2>1, <2>4, <2>8 DEF FinishTask, SetQueues
<1>5. ASSUME CleanUpTask
      PROVE  /\ state[scan.q] = "FINISHED" /\ scan.q \in Task
             /\ state' = [state EXCEPT ![scan.q] = "FREE"]
             /\ clean_up_requests' = (clean_up_requests - 1) % CleanUpModulus
             /\ UNCHANGED psp
  BY <1>5 DEF IInv, TypeOK, CallsInOrder, QueuesPartitionTasks, CleanUpTask, Searching
<1>6. ASSUME PendSV
      PROVE  /\ \A x \in Task : state[x] = "FINISHED" <=> state'[x] = "FINISHED"
             /\ UNCHANGED clean_up_requests
  <2>1. OnlyWakes(Queues, SwitchTask.q)
    BY InvHasPartition, SwitchSelectsReady DEF IInv, ProcessorAgreesWithQueues
  <2> QED BY <1>6, <2>1, OnlyWakesUnfinished DEF PendSV
<1>7. ASSUME NEW p \in Pids, HandlerWakeup(p)
      PROVE  /\ \A x \in Task : state[x] = "FINISHED" <=> state'[x] = "FINISHED"
             /\ UNCHANGED clean_up_requests
  BY <1>7, InvHasPartition, WakeupKeepsPartition, OnlyWakesUnfinished DEF HandlerWakeup
<1>8. ASSUME Tim3Isr
      PROVE  /\ \A x \in Task : state[x] = "FINISHED" <=> state'[x] = "FINISHED"
             /\ UNCHANGED clean_up_requests
  BY <1>8, InvHasPartition, WakeupKeepsPartition, OnlyWakesUnfinished DEF Tim3Isr
<1> QED
  BY <1>1, <1>2, <1>3, <1>4, <1>5, <1>6, <1>7, <1>8 DEF Next, ThreadStep, Interrupt

(***************************************************************************)
(* The four bits of clean_up_requests suffice: the counter is the number   *)
(* of finished tasks at every step, so no finished task is forgotten.      *)
(***************************************************************************)
THEOREM CleanUpCounterExact == Spec => []CleanUpRequestsExact
<1> DEFINE F == {t \in Task : state[t] = "FINISHED"}
<1>0. /\ IsFiniteSet(F) /\ IsFiniteSet(F')
      /\ Cardinality(F) \in 0..12 /\ Cardinality(F') \in 0..12
  BY TaskAssumption, FS_Subset, FS_CardinalityType
<1>1. Init => CleanUpRequestsExact
  <2> SUFFICES ASSUME Init PROVE clean_up_requests = Cardinality(F)
    BY DEF CleanUpRequestsExact
  <2>1. F = {}
    BY DEF Init
  <2> QED BY <2>1, FS_EmptySet DEF Init
<1>2. ASSUME IInv, CleanUpRequestsExact, [Next]_vars
      PROVE  CleanUpRequestsExact'
  <2> SUFFICES clean_up_requests' = Cardinality(F')
    BY DEF CleanUpRequestsExact
  <2>0. clean_up_requests = Cardinality(F)
    BY <1>2 DEF CleanUpRequestsExact
  <2>1. CASE UNCHANGED vars
    BY <2>0, <2>1 DEF vars, queueVars
  <2>2. CASE /\ \A t \in Task : state[t] = "FINISHED" <=> state'[t] = "FINISHED"
             /\ UNCHANGED clean_up_requests
    <3>1. F' = F
      BY <2>2
    <3> QED BY <2>0, <2>2, <3>1
  <2>3. CASE /\ state[currently_running] # "FINISHED" /\ currently_running \in Task
             /\ \A t \in Task : state'[t] = "FINISHED" <=>
                                  state[t] = "FINISHED" \/ t = currently_running
             /\ clean_up_requests' = (clean_up_requests + 1) % CleanUpModulus
    <3>1. F' = F \cup {currently_running} /\ currently_running \notin F
      BY <2>3
    <3> HIDE DEF F
    <3>2. Cardinality(F') = Cardinality(F) + 1
      BY <1>0, <3>1, FS_AddElement
    <3> QED BY <1>0, <2>0, <2>3, <3>2 DEF CleanUpModulus
  <2>4. CASE /\ state[scan.q] = "FINISHED" /\ scan.q \in Task
             /\ state' = [state EXCEPT ![scan.q] = "FREE"]
             /\ clean_up_requests' = (clean_up_requests - 1) % CleanUpModulus
    <3>1. F' = F \ {scan.q} /\ scan.q \in F
      BY <1>2, <2>4 DEF IInv, TypeOK
    <3> HIDE DEF F
    <3>2. Cardinality(F') = Cardinality(F) - 1
      BY <1>0, <3>1, FS_RemoveElement
    <3> QED BY <1>0, <2>0, <2>4, <3>2 DEF CleanUpModulus
  <2> QED BY <1>2, <2>1, <2>2, <2>3, <2>4, FinishedSteps
<1> HIDE DEF F
<1> QED BY <1>1, <1>2, SchedulerInvariant, PTL DEF Spec

(***************************************************************************)
(* A finished task is never dispatched again and only ever becomes free.   *)
(***************************************************************************)
THEOREM FinishedTasksLeave == Spec => FinishedTasksOnlyLeave
<1> DEFINE A == \A t \in Task : state[t] = "FINISHED" =>
                  /\ state'[t] \in {"FINISHED", "FREE"}
                  /\ psp # t => psp' # t
<1>1. ASSUME IInv, Next
      PROVE  \A t \in Task : state[t] = "FINISHED" => state'[t] \in {"FINISHED", "FREE"}
  BY <1>1, FinishedSteps DEF IInv, TypeOK
<1>2. ASSUME IInv, Next, NEW t \in Task, state[t] = "FINISHED", psp # t
      PROVE  psp' # t
  <2>1. IInv'
    BY <1>2, NextInv
  <2>2. CASE PendSV
    <3>1. ~pendsv' /\ call' = "none"
      BY <1>2, <2>2 DEF PendSV, IInv, CallsInOrder, callVars
    <3>2. state'[psp'] = "READY"
      BY <2>1, <3>1 DEF IInv, ProcessorAgreesWithQueues
    <3>3. OnlyWakes(Queues, SwitchTask.q)
      BY <1>2, InvHasPartition, SwitchSelectsReady DEF IInv, ProcessorAgreesWithQueues
    <3>4. state'[t] = "FINISHED"
      BY <1>2, <2>2, <3>3, OnlyWakesUnfinished DEF PendSV
    <3> QED BY <3>2, <3>4
  <2>3. CASE ~PendSV
    <3>1. psp' = psp
      BY <1>2, <2>3 DEF Next, ThreadStep, Interrupt, YieldTask, CreateTask,
         BlockCurrentTask, BlockYields, TaskSleep, JoinTask, JoinDecides, FinishTask,
         SearchStarts, SearchSkips, CleanUpTask, SearchEnds, HandlerWakeup, Tim3Isr,
         DmaActionChanges, cpuVars
    <3> QED BY <1>2, <3>1
  <2> QED BY <2>2, <2>3
<1>3. IInv /\ [Next]_vars => [A]_vars
  BY <1>1, <1>2
<1> HIDE DEF A
<1>4. Spec => [][A]_vars
  BY <1>3, SchedulerInvariant, PTL DEF Spec
<1> QED BY <1>4 DEF A, FinishedTasksOnlyLeave

=============================================================================
