------------------------------ MODULE Runtime -------------------------------
(***************************************************************************)
(* The kernel's own tasks, on top of the scheduler: idle_runner and        *)
(* external_io_runner of os/src/core/runtime.c, and the two interrupt      *)
(* handlers they work with, of the UART (irq/uart_isr.c) and of its DMA    *)
(* stream (arch/f401/src/dma.c).  Together they load tasks into the        *)
(* running system and answer requests of the host:                         *)
(*                                                                         *)
(*   host --command--> UART handler --wakes--> external_io_runner          *)
(*   external_io_runner --starts--> DMA --done--> DMA handler              *)
(*   DMA handler, external_io_runner --work for--> idle_runner             *)
(*                                                                         *)
(* Here Idle and Io run the code of the kernel; the other tasks may yield, *)
(* block and finish whenever they run.  Task switches, queues and clean-up *)
(* are the actions of Scheduler.                                           *)
(***************************************************************************)
EXTENDS Scheduler

CONSTANTS
  Io,        \* the task of external_io_runner
  Modules,   \* the tasks of func_ptr, in order
  Chunk,     \* the chunks of memory that tasks are loaded into
  WakesIo    \* some wake-up by a module has the pid of the I/O task: it calls
             \* svc wakeupIoHandler, or a task it wakes has got the same pid

(* DmaJobType_t. *)
DmaJobs == {"DmaIsIdle", "DmaTransferedExternalTask", "DmaHadTransferError",
            "DmaWaitsForExternalTask"}

ASSUME RuntimeAssumption ==
  /\ Io \in Task \ {Idle}
  /\ Modules \in Seq(Task \ {Idle, Io}) /\ IsInjective(Modules)
  /\ IsFiniteSet(Chunk) /\ NULL \notin Chunk
  /\ WakesIo \in BOOLEAN
  /\ DmaJobs \subseteq DmaActions

VARIABLES
  idle_pc,        \* where idle_runner is
  io_pc,          \* where external_io_runner is
  io_pid,         \* kernel_pids.external_io_runner
  rx_state,       \* the last command
  rx_interrupt,   \* the UART interrupts for each byte (USART1_cr1, bit 5)
  stream,         \* the chunk the DMA stream fills, NULL when it is off
  start_adress,   \* tInfo.start_adress
  received,       \* history: chunks with the whole code, not yet made a task
  subtasks        \* number of subtasks that wait

ioVars == <<io_pc, io_pid, rx_state, rx_interrupt, stream, start_adress>>
runtimeVars == <<idle_pc, ioVars, received, subtasks>>
allVars == <<vars, runtimeVars>>
schedulerButDma == <<queueVars, tcbVars, cpuVars, callVars, sleepVars, clean_up_requests>>

-----------------------------------------------------------------------------
(***************************************************************************)
(* The commands external_io_runner tells apart.  RX_READY stands for all   *)
(* the others too: it serves the ones below 10 by forgetting them, and the *)
(* rest is for the module that registered io_handler.                      *)
(***************************************************************************)
Commands == {"RX_READY", "PREPARE_TASK_TRANSFER", "REQUEST_STATISTIC"}

(* Subtasks are stored from subtasks[1] on in an array of three. *)
SubtaskSlots == 2

RuntimeInit ==
  /\ Init
  /\ idle_pc = "startup"
  /\ io_pc = "serve"
  /\ io_pid = IdlePid
  /\ rx_state = "RX_READY"
  /\ rx_interrupt = TRUE
  /\ stream = NULL
  /\ start_adress = NULL
  /\ received = {}
  /\ subtasks = 0

-----------------------------------------------------------------------------
(***************************************************************************)
(* idle_runner.                                                            *)
(***************************************************************************)
IdleAt(pc) == Executes(Idle) /\ idle_pc = pc

(* create_task for the modules in turn; the queue holds what has been created. *)
IdleStartsModule ==
  /\ IdleAt("startup")
  /\ Len(running_tasks) <= Len(Modules)
  /\ CreateTask(Idle, Modules[Len(running_tasks)])
  /\ UNCHANGED runtimeVars

IdleStartsIo ==
  /\ IdleAt("startup")
  /\ Len(running_tasks) > Len(Modules)
  /\ CreateTask(Idle, Io)
  /\ io_pid' = pid'[Io]
  /\ idle_pc' = "clean_up"
  /\ UNCHANGED <<io_pc, rx_state, rx_interrupt, stream, start_adress, received, subtasks>>

IdleCleansUp ==
  /\ IdleAt("clean_up")
  /\ IF clean_up_requests # 0 THEN SearchStarts ELSE UNCHANGED vars
  /\ idle_pc' = "external"
  /\ UNCHANGED <<ioVars, received, subtasks>>

SearchContinues ==
  /\ SearchSkips \/ CleanUpTask \/ SearchEnds
  /\ UNCHANGED runtimeVars

(* The task is created; nothing happens when there is no memory left for it. *)
IdleCreatesTask ==
  /\ IdleAt("external")
  /\ dma_interrupt_action = "DmaTransferedExternalTask"
  /\ IF \E t \in Task : state[t] = "FREE"
       THEN /\ \E t \in Task : CreateTask(Idle, t)
            /\ received' = received \ {start_adress}
       ELSE UNCHANGED <<vars, received>>
  /\ idle_pc' = "clear"
  /\ UNCHANGED <<ioVars, subtasks>>

IdleHasNoTask ==
  /\ IdleAt("external")
  /\ dma_interrupt_action # "DmaTransferedExternalTask"
  /\ idle_pc' = "subtasks"
  /\ UNCHANGED <<vars, ioVars, received, subtasks>>

(* Mutant: the action stays. *)
IdleClearsAction_Not ==
  /\ IdleAt("clear")
  /\ idle_pc' = "subtasks"
  /\ UNCHANGED <<vars, ioVars, received, subtasks>>

IdleClearsAction ==
  /\ IdleAt("clear")
  /\ dma_interrupt_action' = "DmaIsIdle"
  /\ idle_pc' = "subtasks"
  /\ UNCHANGED <<schedulerButDma, ioVars, received, subtasks>>

(***************************************************************************)
(* The loop over the subtasks, which no handler looks at.  After a full    *)
(* array it reads subtasks[3], outside of it, and calls what it finds      *)
(* there unless that is zero.                                              *)
(***************************************************************************)
IdleRunsSubtasks ==
  /\ IdleAt("subtasks")
  /\ subtasks' = 0
  /\ idle_pc' \in {"alone"} \cup (IF subtasks = SubtaskSlots THEN {"undefined"} ELSE {})
  /\ UNCHANGED <<vars, ioVars, received>>

IdleLooksAround ==
  /\ IdleAt("alone")
  /\ idle_pc' = IF Len(running_tasks) = 1 THEN "wfi" ELSE "block"
  /\ UNCHANGED <<vars, ioVars, received, subtasks>>

IdleSleeps ==
  /\ IdleAt("wfi")
  /\ idle_pc' = "asleep"
  /\ UNCHANGED <<vars, ioVars, received, subtasks>>

IdleBlocks ==
  /\ IdleAt("block")
  /\ BlockCurrentTask(Idle)
  /\ idle_pc' = "clean_up"
  /\ UNCHANGED <<ioVars, received, subtasks>>

-----------------------------------------------------------------------------
(***************************************************************************)
(* external_io_runner.                                                     *)
(***************************************************************************)
IoAt(pc) == Executes(Io) /\ io_pc = pc

(* PREPARE_TASK_TRANSFER up to the answer: memory is allocated and the host told. *)
IoPrepares ==
  /\ IoAt("serve") /\ rx_state = "PREPARE_TASK_TRANSFER"
  /\ start_adress' \in Chunk \ {start_adress}
  /\ received' = received \ {start_adress'}
  /\ io_pc' = "expect"
  /\ UNCHANGED <<vars, idle_pc, io_pid, rx_state, rx_interrupt, stream, subtasks>>

(* Mutant: the action is not set. *)
IoExpects_Nothing ==
  /\ IoAt("expect")
  /\ io_pc' = "transfer"
  /\ UNCHANGED <<vars, idle_pc, io_pid, rx_state, rx_interrupt, stream, start_adress,
                 received, subtasks>>

IoExpects ==
  /\ IoAt("expect")
  /\ dma_interrupt_action' = "DmaWaitsForExternalTask"
  /\ io_pc' = "transfer"
  /\ UNCHANGED <<schedulerButDma, idle_pc, io_pid, rx_state, rx_interrupt, stream,
                 start_adress, received, subtasks>>

(* dma_transfer: the bytes now go to the DMA stream and not to the handler. *)
IoTransfers ==
  /\ IoAt("transfer")
  /\ stream' = start_adress
  /\ rx_interrupt' = FALSE
  /\ io_pc' = "block"
  /\ UNCHANGED <<vars, idle_pc, io_pid, rx_state, start_adress, received, subtasks>>

(* is_task_currently_running(idle_task). *)
IdleIsQueued == \E i \in DOMAIN running_tasks : pid[running_tasks[i]] = IdlePid

(* Mutant: the index is not compared with the length of the array. *)
IoSchedules_NoBound ==
  /\ IoAt("serve") /\ rx_state = "REQUEST_STATISTIC"
  /\ subtasks' = subtasks + 1
  /\ SetQueues(IF IdleIsQueued THEN Queues ELSE Wakeup(Queues, pid, IdlePid))
  /\ io_pc' = "block"
  /\ UNCHANGED <<tcbVars, cpuVars, callVars, sleepVars, clean_up_requests,
                 dma_interrupt_action, idle_pc, io_pid, rx_state, rx_interrupt, stream,
                 start_adress, received>>

(* Mutant: the idle task is left asleep. *)
IoSchedules_NoWake ==
  /\ IoAt("serve") /\ rx_state = "REQUEST_STATISTIC"
  /\ subtasks' = IF subtasks < SubtaskSlots THEN subtasks + 1 ELSE subtasks
  /\ io_pc' = "block"
  /\ UNCHANGED <<vars, idle_pc, io_pid, rx_state, rx_interrupt, stream, start_adress,
                 received>>

(* REQUEST_STATISTIC: schedule_kernel_subtask. *)
IoSchedules ==
  /\ IoAt("serve") /\ rx_state = "REQUEST_STATISTIC"
  /\ subtasks' = IF subtasks < SubtaskSlots THEN subtasks + 1 ELSE subtasks
  /\ SetQueues(IF IdleIsQueued THEN Queues ELSE Wakeup(Queues, pid, IdlePid))
  /\ io_pc' = "block"
  /\ UNCHANGED <<tcbVars, cpuVars, callVars, sleepVars, clean_up_requests,
                 dma_interrupt_action, idle_pc, io_pid, rx_state, rx_interrupt, stream,
                 start_adress, received>>

IoForgets ==
  /\ IoAt("serve") /\ rx_state = "RX_READY"
  /\ io_pc' = "block"
  /\ UNCHANGED <<vars, idle_pc, io_pid, rx_state, rx_interrupt, stream, start_adress,
                 received, subtasks>>

IoBlocks ==
  /\ IoAt("block")
  /\ BlockCurrentTask(Io)
  /\ io_pc' = "serve"
  /\ UNCHANGED <<idle_pc, io_pid, rx_state, rx_interrupt, stream, start_adress, received,
                 subtasks>>

-----------------------------------------------------------------------------
(***************************************************************************)
(* Interrupts.  Every one of them ends wfi.                                *)
(***************************************************************************)
EndsSleep == idle_pc' = IF idle_pc = "asleep" THEN "block" ELSE idle_pc

(* Mutant: the task is linked into the running queue and stays in the other. *)
UartCommand_LinksTwice(c) ==
  /\ rx_interrupt
  /\ rx_state' = c
  /\ running_tasks' = Append(running_tasks, Io)
  /\ UNCHANGED <<waiting_tasks, state>>
  /\ EndsSleep
  /\ UNCHANGED <<tcbVars, cpuVars, callVars, sleepVars, clean_up_requests,
                 dma_interrupt_action, io_pc, io_pid, rx_interrupt, stream,
                 start_adress, received, subtasks>>

(* uart_isr_handler with the last byte of a command. *)
UartCommand(c) ==
  /\ rx_interrupt
  /\ rx_state' = c
  /\ HandlerWakeup(io_pid)
  /\ EndsSleep
  /\ UNCHANGED <<io_pc, io_pid, rx_interrupt, stream, start_adress, received, subtasks>>

(***************************************************************************)
(* uart_isr_handler with any other byte, or with an overrun: the host is   *)
(* told once and the bytes are counted anew, so that what comes next may   *)
(* be taken for any command.                                               *)
(***************************************************************************)
UartByte ==
  /\ rx_interrupt
  /\ EndsSleep
  /\ UNCHANGED <<vars, ioVars, received, subtasks>>

(* dma2_stream5_ir_handler: the stream has filled the chunk. *)
DmaComplete ==
  /\ stream # NULL
  /\ dma_interrupt_action' = IF dma_interrupt_action = "DmaWaitsForExternalTask"
                               THEN "DmaTransferedExternalTask"
                               ELSE dma_interrupt_action
  /\ received' = received \cup {stream}
  /\ stream' = NULL
  /\ rx_interrupt' = TRUE
  /\ EndsSleep
  /\ UNCHANGED <<schedulerButDma, io_pc, io_pid, rx_state, start_adress, subtasks>>

(* Mutant: the error flag is taken for the end of the transfer. *)
DmaFails_Completes ==
  /\ stream # NULL
  /\ dma_interrupt_action' = "DmaTransferedExternalTask"
  /\ stream' = NULL
  /\ rx_interrupt' = TRUE
  /\ EndsSleep
  /\ UNCHANGED <<schedulerButDma, io_pc, io_pid, rx_state, start_adress, received,
                 subtasks>>

(* dma2_stream5_ir_handler: the stream has stopped with an error. *)
DmaFails ==
  /\ stream # NULL
  /\ dma_interrupt_action' = "DmaHadTransferError"
  /\ stream' = NULL
  /\ rx_interrupt' = TRUE
  /\ EndsSleep
  /\ UNCHANGED <<schedulerButDma, io_pc, io_pid, rx_state, start_adress, received,
                 subtasks>>

(* wakeup_pid by the handlers and tasks of modules. *)
ModuleWakeup(p) ==
  /\ p # io_pid \/ WakesIo
  /\ HandlerWakeup(p)
  /\ EndsSleep
  /\ UNCHANGED <<ioVars, received, subtasks>>

-----------------------------------------------------------------------------
IdleStep ==
  \/ IdleStartsModule
  \/ IdleStartsIo
  \/ IdleCleansUp
  \/ SearchContinues
  \/ IdleCreatesTask
  \/ IdleHasNoTask
  \/ IdleClearsAction
  \/ IdleRunsSubtasks
  \/ IdleLooksAround
  \/ IdleSleeps
  \/ IdleBlocks

IoStep ==
  \/ IoPrepares
  \/ IoExpects
  \/ IoTransfers
  \/ IoSchedules
  \/ IoForgets
  \/ IoBlocks

ModuleStep ==
  /\ \E t \in Task \ {Idle, Io} : YieldTask(t) \/ BlockCurrentTask(t) \/ FinishTask(t)
  /\ UNCHANGED runtimeVars

Switches == (BlockYields \/ PendSV) /\ UNCHANGED runtimeVars

RuntimeInterrupt ==
  \/ \E c \in Commands : UartCommand(c)
  \/ UartByte
  \/ DmaComplete
  \/ DmaFails
  \/ \E p \in Pids : ModuleWakeup(p)

RuntimeNext == IdleStep \/ IoStep \/ ModuleStep \/ Switches \/ RuntimeInterrupt

RuntimeSpec == RuntimeInit /\ [][RuntimeNext]_allVars

(***************************************************************************)
(* Fairness: the kernel's tasks go on while they have the processor, a     *)
(* pending task switch is made, and no other task keeps the processor for  *)
(* ever.  Nothing forces an interrupt to come.                             *)
(***************************************************************************)
RuntimeFairness ==
  /\ WF_allVars(IdleStep)
  /\ WF_allVars(IoStep)
  /\ WF_allVars(Switches)
  /\ SF_allVars(ModuleStep)

RuntimeFairSpec == RuntimeSpec /\ RuntimeFairness

-----------------------------------------------------------------------------
(***************************************************************************)
(* Properties.                                                             *)
(***************************************************************************)

(* The type invariant. *)
RuntimeTypeOK ==
  /\ idle_pc \in {"startup", "clean_up", "external", "clear", "subtasks", "alone", "wfi",
                  "asleep", "block", "undefined"}
  /\ io_pc \in {"serve", "expect", "transfer", "block"}
  /\ io_pid \in Pids
  /\ rx_state \in Commands
  /\ rx_interrupt \in BOOLEAN
  /\ stream \in Chunk \cup {NULL}
  /\ start_adress \in Chunk \cup {NULL}
  /\ received \subseteq Chunk
  /\ subtasks \in 0..SubtaskSlots
  /\ dma_interrupt_action \in DmaJobs

(***************************************************************************)
(* The kernel's tasks and handlers use the scheduler as module Scheduler   *)
(* allows, with the DMA action for one of its own.                         *)
(***************************************************************************)
UsesScheduler == Spec

(***************************************************************************)
(* The DMA handler knows what a transfer was for: as long as the stream    *)
(* runs, the action is the one external_io_runner has set for it and tInfo *)
(* describes the chunk it fills, and nobody but the DMA handler is left to *)
(* turn the reception of commands on again.                                *)
(***************************************************************************)
TransferIsExpected ==
  /\ rx_interrupt <=> stream = NULL
  /\ stream # NULL => /\ dma_interrupt_action = "DmaWaitsForExternalTask"
                      /\ start_adress = stream

(***************************************************************************)
(* idle_runner makes a task only of a chunk that the DMA stream has filled *)
(* to the end, and of each one once.                                       *)
(***************************************************************************)
CreatesTask == idle_pc = "external" /\ idle_pc' = "clear"

OnlyCompleteCodeRuns == [][CreatesTask => start_adress \in received]_allVars

(***************************************************************************)
(* A request for the statistics that has been stored is served in the end, *)
(* once modules and handlers have stopped waking tasks.                    *)
(***************************************************************************)
RequestIsServed == <>[][WakesOnlyIdle]_vars => (subtasks # 0 ~> subtasks = 0)

(***************************************************************************)
(* An arrived task is created, or another one expected, in the end, once   *)
(* modules and handlers have stopped waking tasks, as long as interrupts   *)
(* keep coming to end wfi and the idle task does not leave its array.      *)
(***************************************************************************)
ArrivedTaskIsTaken ==
  /\ <>[][WakesOnlyIdle]_vars
  /\ []<>(idle_pc # "asleep")
  /\ [](idle_pc # "undefined")
  => (dma_interrupt_action = "DmaTransferedExternalTask"
        ~> dma_interrupt_action # "DmaTransferedExternalTask")

(***************************************************************************)
(* runtime.c:179: "now, os enters sleep only if the idle runner is the     *)
(* only one in line".                                                      *)
(***************************************************************************)
SleepsOnlyWhenAlone == idle_pc = "asleep" => Len(running_tasks) = 1

=============================================================================
