# A TLA+ model of NextLevelRTOS

NextLevelRTOS is a small operating system for Cortex-M4 boards: one thread runs
at a time, gives the processor up only by a system call, and is interrupted by
handlers that wake tasks up. This directory models the kernel (who runs, with
which registers, and who owns which memory), the drivers and interrupts of an
F401 board under the programs of the repository, and the radio protocol two such
boards speak. It checks the models with TLC and proves their safety properties
with TLAPS.

Paths below are relative to the repository (`src/`): `scheduler.c` is
`os/src/process/scheduler.c`, `scheduler.h` is `os/include/process/scheduler.h`,
`task.c` is `os/src/process/task.c`, and so on.

## 1. Inventory

| component | state | operations | what makes it correct |
|---|---|---|---|
| scheduler (`scheduler.c`, `scheduler.h`) | `running_tasks`, `waiting_tasks`, state and pids in the tcbs, `currently_running`, `task_to_preserve`, `clean_up_requests`, the sleep request | `block_current_task`, `wakeup_pid`, `switch_task`, `pendsv_isr`, `join_task`, `task_sleep`, `finish_task`, `search_invalidate_tasks` | every task in exactly one queue, the right context saved, nothing in use freed, a task to run at every switch, no READY task starved |
| task creation (`task.c`) | a tcb, its stack and pid | `create_task` | fresh tcb, own stack, pid 0 only for the idle task |
| system calls (`core/exception.c`) | the pended PendSV | `svcall_isr` | a system call ends in a switch or returns to its caller |
| queues (`data/queue.c`) | nodes with `next`, `prev`; `size`, `head`, `tail` | `enqueue_element`, `move_node`, `isolate_node`, `dequeue_element` | intact rings in first-in first-out order |
| allocator (`memory.c`) | a table of 64 chunks, a mutex | `allocate`, `deallocate` (`defrag` is never called) | blocks do not overlap, each is given back exactly |
| mutex (`mutex.s`) | one word | `lock_mutex`, `release_mutex` | mutual exclusion, released after every call |
| idle task and kernel runtime (`core/runtime.c`) | subtasks, `rx_state`, the callback for commands | `idle_runner`, `external_io_runner`, `schedule_kernel_subtask` | sleeps only when nobody is READY, serves every request, creates every task that arrives |
| UART (`irq/uart_isr.c`) | receive buffer, transfer list | `uart_isr_handler`, `setup_transfer` | no command lost or mixed with another |
| DMA (`arch/f401/src/dma.c`) | `dma_interrupt_action` | `dma_transfer`, `dma2_stream5_ir_handler` | a transferred task is created once |
| sleep timer (`irq/tim3_isr.c`) | TIM3 | `tim3_isr_handler` | every sleeper is woken |
| context switch (`core/exception.c`, `core/exception_inlines.h`, `pendsv_isr`) | the registers, PSP, the stacks, `sp` in the tcbs | `svcall_isr`, `pendsv_isr`, `prepare_cpu_register` | every thread keeps its own registers whatever happens in between |
| timers (`arch/f401/src/tim2_5.c`) | the registers of TIM2 and TIM3 | `timer_init`, `set_ccr`, `timer_flush_counter`, `timer_start`, `timer_stop`, `timer_pwm_init` | a sleep lasts at least as long as asked for, the global timer keeps its pace |
| pins (`arch/f401/src/gpio.c`) | port clocks, modes, output types | `init_gpio`, `set_moder`, `set_otyper`, `into_af` | one driver leaves the pins of the others alone |
| EXTI, SYSCFG, NVIC (`irq/gpio_isr.c`, `exti.c`, `syscfg.c`, `hw/cpu.c`) | callback slots, vector, port selection, masks, pending bits | `link_exti_src`, `syscfg_exti_config_0_3`, `exti_*`, `exti0_isr_handler` and its siblings | an edge ends in the callback of the program, and no line requests its interrupt for ever |
| radio library (`packages/lib/nrf2401`, `nrf24l01.h`) | the registers and FIFOs of the nRF24L01, `tx_observe`, `receivedAckPackage` | `configure_device`, `transmit_with_autoack`, `tx_ack_receive_isr`, `transmit_all_packages`, `check_for_received_data` | calls return and are counted, messages stay in order, no interrupt is lost |
| radio programs (`nrf2401_transmit`, `nrf2401_receive`, `weathernodeV2`, `drone_rpm`) | their configuration, `ackPackagePreloaded` | `apply_nrf_config`, `rx_receive_isr`, the main loops | two programs that are meant for each other can hear each other |
| remote control (`packages/remote`) | `current_reading`, `mutex`, `idx`, `operating_state` | `main_routine`, `adc_isr`, `isr_switch_state` | handlers never wait for the thread, indices stay in range |
| weather node (`packages/weathernode`, `am2302.h`) | the bits read so far | `am2302_run` | a frame with a wrong bit is not sent |
| accelerometer (`packages/i2c`) | the I2C peripheral, the position | `write`, `read`, `read_xyz` | exactly the payload reaches the bus |
| list, panic, ports to other boards, tests, debug scripts | see PROJECT.json | | |

How they interact: user tasks and the idle task call kernel functions
directly (through a table of addresses) or by SVC. SVC pends PendSV, and
`pendsv_isr` switches tasks. UART, TIM3 and EXTI handlers call `wakeup_pid`;
the DMA handler sets a flag that `switch_task` and the idle task read. The
idle task cleans up finished tasks, creates tasks received by DMA and runs
kernel subtasks. Everything is allocated with `allocate`. Programs call the
drivers directly, register a callback for one pin, and share variables with it;
`execute_priviledged` enables its interrupt. Two boards meet in the air only.

What is hard about it: interrupt handlers strike between any two steps of the
thread, `block_current_task` moves `currently_running` away while its thread
is still running, memory of finished tasks is freed by another task, pids are
derived from queue lengths, and the queues are rings whose pointers five
functions keep in step. Drivers are set up while edges arrive, drivers share
ports and timers, registers are read, changed and written back although a bit
is cleared by writing one, and the radio protocol counts on the order in which
two handlers clear causes and empty FIFOs while frames and acks get lost.
PROJECT.json lists these hazards at their lines.

## 2. Modules

| module | models |
|---|---|
| `TaskQueues` | the two queues as sequences together with the task states; `isolate_node`, `wakeup_pid` and the walk of `switch_task` as operators |
| `Scheduler` | the scheduler with one action per function (or per part of a function between which interrupts can strike) |
| `MCScheduler` | the symmetry of the tasks, for TLC |
| `TaskQueuesProofs`, `SchedulerProofs` | lemmas about the operators; theorems about `Scheduler` |
| `Runtime`, `MCRuntime` | `idle_runner`, `external_io_runner`, the UART and the DMA handler on top of `Scheduler` |
| `RuntimeProofs` | theorems about `Runtime`, among them that it implements `Scheduler` |
| `QueueOrder` | what the queues promise: sequences, append at the tail, remove anywhere |
| `Queue`, `MCQueue` | the pointers of `queue.c`; refines `QueueOrder` |
| `QueueProofs` | theorems about `Queue` |
| `QueueInterrupted` | `enqueue_element` one assignment at a time, with `wakeup_pid` in a handler between them |
| `Heap` | what the allocator promises: blocks that do not overlap |
| `Allocator`, `MCAllocator` | the table of `memory.c` with its bit fields, and the word of the mutex; refines `Heap` |
| `AllocatorProofs` | theorems about `Allocator` and `Defrag` |
| `Defrag` | `defrag`, its comparator and `quicksortR` as functions of the table `Allocator` has |
| `Threads` | what the context switch promises: every thread has the registers to itself |
| `Contexts`, `MCContexts` | `svcall_isr`, `pendsv_isr` and the processor's exception entry, stack by stack; refines `Threads` |
| `ContextsProofs` | theorems about `Contexts` |
| `Timers` | the registers of a timer and the functions of `tim2_5.c`, as operators |
| `Pins` | the registers of the ports and what each driver configures |
| `Board` | one F401 board from the end of `bootstrap` on: the calls that set it up, EXTI, NVIC and callback slots |
| `Remote`, `Am2302`, `Accelerometer`, `SleepTimer` | main loops on top of `Board`: remote control, weather node, I2C package, two tasks that sleep |
| `Boards`, `MCBoards` | a `Board` with any of these programs |
| `BoardsProofs` | theorems about `Boards` |
| `RadioDevices` | the nRF24L01 of each program, its registers and the driver's operations |
| `RadioLink`, `MCRadioLink` | a sender and a receiver with thread, handler and chip each, and the air between them |
| `RadioProofs` | theorems about `RadioLink` |

### Scheduler

A task is its tcb, with its stack and its queue node; `Task` is the set of tcbs
that fit into memory and `"FREE"` the state of one that is not allocated. The
rings are sequences, head first. The other variables have the names of the code,
except:

* `psp` is the task whose stack the processor runs on, `sp[t]` the task whose
  stack the saved stack pointer of `t` points into, `pendsv` the pended switch;
* `call`, `arg` and `scan` say where inside a kernel function the thread is,
  where an interrupt can see the difference: after `timer_start` in `task_sleep`
  and after the check in `join_task` (`"block"`), after `enable_irq` in
  `block_current_task` (`"yield"`), inside `join_task`, and between two
  iterations of `search_invalidate_tasks` (`"search"`);
* `sleep_timer` says that TIM3 counts.

`Init` is the state in which `setup_kernel_runtime` has created and woken the
idle task and `execPspTask` has started it. `YieldTask`, `CreateTask`,
`BlockCurrentTask` with `BlockYields`, `TaskSleep`, `JoinTask` with
`JoinDecides` and `FinishTask` are what a thread does, `SearchStarts`,
`SearchSkips`, `CleanUpTask` and `SearchEnds` what the idle task does,
`PendSV` is `pendsv_isr` with `switch_task` and `force_pid0_into_running`, and
`HandlerWakeup`, `Tim3Isr` and `DmaActionChanges` are the other handlers. The
model leaves open what tasks do: every task may make every call whenever it
executes its own code, and every handler may wake every pid at any time.

Abstractions: `enqueue_element` and `dequeue_element` on the running ring, and
`finish_task`, are atomic with respect to interrupts (`QueueInterrupted` opens
the first up and shows what then goes wrong). `wakeup_pid` of a handler is
atomic in the code as well, since all handlers share one priority. A finished
task reads the tcb of its parent even when it has been freed; then anything it
may find there is allowed (`AfterJoin`). `DmaActions` are the values of
`dma_interrupt_action`; the scheduler only asks whether it is
`DmaTransferedExternalTask`, so its runs have that and one other. Child lists are left out, nothing reads
them. `kill_child_task` and `kill_all_child_tasks` are called by nothing,
`invalidate_current_task` stops at a breakpoint, `systick_isr` is empty.

### Runtime

`Runtime` extends `Scheduler`: two tasks run the kernel's own code, with a
program counter each (`idle_pc`, `io_pc`), and the others yield, block and
finish as they like. Each part of `idle_runner` and `external_io_runner` between
which an interrupt can make a difference is an action; those that call the
scheduler contain the action of `Scheduler`. `UsesScheduler` says that every step is
a step or a stutter of `Scheduler` with the four jobs of the DMA for `DmaActions`, so
what holds of `Scheduler` holds here.

* A command arrives with `UartCommand`, at its last byte. `UartByte` is the handler
  at any other byte and at an overrun, which is reported to the host and starts the
  count anew. How many bytes are missing is left open, so after an overrun, which
  puts host and board out of step, anything may be taken for a command.
* `stream` is the chunk the DMA stream fills. While it is on, the interrupt of
  the UART for single bytes is off, so no command comes.
* `received` is a history of the chunks whose code is complete. The allocator is
  represented by a set of chunks of which the next one is any other than the last.
* `subtasks` counts `subtasks[1]` and `subtasks[2]`, which are filled in this order and
  emptied together. With both filled `idle_runner` also looks behind the array; then
  it may go on or not (`"undefined"`). A third request is dropped.
* wfi ends at the next interrupt. Every one of `RuntimeInterrupt` may end it.
* `WakesIo` says whether a wake-up by a module may have the pid of the I/O task. That is
  so when a module calls `svc wakeupIoHandler`, which no program in the repository does
  but `os_api.h` offers, and when a task it wakes has been given the same pid, which
  `task.c:71` does not rule out for tasks that are loaded later. The run assumes neither;
  otherwise `OnlyCompleteCodeRuns` fails, because `rx_state` still holds the last command
  and a transfer is started again while it is going on.
* Ordinary tasks neither sleep, join nor create tasks here (they do in
  `Scheduler`). The reboot command leads back to the initial state and is left out.

### Queue, QueueOrder, QueueInterrupted

`Queue` has the fields of every node and queue in one record `heap`, and
`MoveNode`, `IsolateNode` and `DequeueElement` make the assignments of the
code. `Contents` walks from the head along `next`; under this mapping
`Queue` implements `QueueOrder`. `dequeue_element` is never applied to the last
node, because the idle task, which calls it, is a node of the same queue.
`QueueInterrupted` interrupts the six assignments of `enqueue_element`; the
statement `size++` is one step.

### Allocator, Heap

A slot of the table is a record of the three bit fields. `next_useable_chunk`
is the sum of the sizes of the slots passed so far, taken modulo 2^16 when it is
stored; chunk sizes are rounded to double words modulo 2^15. `held` are the
blocks the callers have not given back: callers give back what they were
given, once. `deallocate` takes the first entry with the offset, used or not, as
the code does. `mutex` has three values: 0, 1 (`lock_mutex` spins) and any
other; `lock_mutex` stores what register r1 happens to hold, so after the early
return for a bad size each is possible. Calls are atomic: no handler allocates
and threads switch only by system calls. The tick, off in this configuration, and
the statistics counters are left out.

The code compares neither the sum of the chunks with the 16 bits of an offset (or with
the RAM) nor a rounded size with the 15 bits of a chunk. `TableFits` says that all chunks
together take at most 65,536 bytes and none has been cut off to size zero. Sizes never
shrink, so once it is false it stays false. `BlocksBacked`, `ImplementsHeap` and
`DefragKeepsBlocks` promise nothing from then on, and blocks do overlap; types and
sorting hold all the same. Whether a program stays inside depends on what it asks for: 64
of the 1,600-byte stacks `create_task` allocates would be too much for the 64 slots.

`Defrag` adds what nothing in the repository calls: from every table the allocator
reaches, the quicksort must give a sorted permutation and `defrag` must keep the used
blocks. `sort`, the function inside `Quicksort`, is `quicksortR` on the parts of an
array; `loop` is in each function the state of the loop before or after an iteration.
`offset_comparator` shifts a signed word, so offsets from 32 KB on sort first, and
`DefragKeepsBlocks` asks for a last chunk that starts below, besides `TableFits`. Then no gap is larger
than the 15 bits of a size either, which the code fills without a mask (`WithSize`).
The order of the entries in `QuicksortSorts` is any, so the comparison of signed
words is what it sorts by.

### Contexts, Threads

A stack is a sequence of blocks of eight words: the ones the processor stores on an
exception, and r4-r11. `mode` is what executes: a thread, one of the handlers
(`svcall_isr`, `pendsv_isr`, any other interrupt), or the moment before the first
thread runs. `SystemCall` is the entry with the block the
handler pushes, `Yields` and `Serves` the branches of the switch, `ServiceReturns`
the way back, `PendSV` the save into `task_to_preserve`, the choice of a task (left
open here, `Scheduler` makes it) and the restore. `BlockCurrentTask` moves
`current` away first, and `FinishTask` leaves a thread of which nothing is kept.
The build modelled is the one with `HWFP=0`, as `packages/Makefile` makes it: nothing uses
the floating-point registers, and a frame has eight words. With `HWFP=1`
(`os/buildscripts/Makefile`) a frame may be the processor's extended one, and the handlers
save none of the registers it leaves out; that is not modelled.
`Threads` knows only registers; under the mapping that finds them on the stack or
in the processor, each step of the handlers is a step or a stutter of it.

### Board, Pins, Timers and the programs

`calls` are the initialising calls a program still has to make, in the order of
its `main`; each one is an action. `pins` has the clocks and the registers of the
ports, `wanted` (a ghost) what each driver asked for last. `nvic`, `exti`,
`vector` and `slots` are the registers and tables between an edge and the
callback; `owed` (a ghost) is an edge that was detected and not yet served. The
processor runs a handler to its end (all priorities are equal), and the thread only
while nothing is requested.

* `Timers` is a register file for each of the two timers. `GenerateUe` loads the
  prescaler unless UDIS is set, which is why what `timer_pwm_init` writes to TIM2
  never takes effect; only its new period does.
* `SleepTimer` lets each of two tasks run `task_sleep` one assignment at a time
  while the timer counts and `tim3_isr_handler` may run. The system is cooperative:
  a task gets into it only when no other is between its first line and its block.
  What is stored is a pid, and `pids` gives the two tasks any pids, the same one too,
  since `task.c:71` hands out the number of live tasks. `WakeupPid` looks for the first
  sleeper with the stored pid in the order of `waiting_tasks` (`ahead`), so that the time of
  one task may end the sleep of another. `SleepIsLongEnough` therefore has an exception
  for a task whose pid another one has stored since; apart from that it is what the
  timer promises. Wake-ups by other handlers are in `Scheduler` only.
* `Remote` starts with the zeros of the image: `link_external.ld` places `.bss` before
  `.data`, so the binary contains it. The handlers may run before `main` sets `idx` and
  `mutex`. It has the handler of the ADC, which waits for the mutex, and the one of the mode
  switch. A conversion does not end while its own handler runs. The last line of the
  loop, `sleep(50)`, is left out.
* `Am2302` initialises TIM2, the kernel's own timer, once more and starts, stops and
  flushes it while it measures. It lets an interrupt make the driver mistake one pulse or miss one (bound:
  one of them in the 5 ms of a frame). A result is the set of the positions of its
  ones, and `Shifted[k]` is `1 << k`.
* `Accelerometer` runs on the F303 board and uses nothing of `Board` but the processor.
* `drone_rpm` acknowledges with a null pointer; the pin is then whatever lies at
  address 4 of the vector table, and any of three answers is allowed.

### RadioDevices, RadioLink

A chip is its registers, CE and the two FIFOs, three payloads deep. `Configs` are
what `apply_nrf_config` of each program fills in; `configure_device` writes and reads
back. `Reaches` compares channel, address and width of a sender and a receiver. Of
the pairs that can hear each other and wait for acks the run checks
`nrf2401_transmit` with the `nrf2401_receive` module. Payloads are message numbers,
and `NoMessage` stands for an ack and for a frame whose checksum fails. A sender's
call is cut at each change of CE or mode and at each look at a shared variable; the
handlers at each look at a FIFO, since the other board's frames may arrive in
between. A handler that runs inside the thread's SPI write ends that transfer
(`cut`), and the ack may not be in the FIFO.

## 3. Runs

| run | properties | bounds and result |
|---|---|---|
| `scheduler` | type, `QueuesPartitionTasks`, `ProcessorAgreesWithQueues`, `ContextsBelongToTasks`, `NothingInUseIsFree`, `SwitchFindsTask`, `CleanUpRequestsExact`, `FinishedTasksOnlyLeave`, `ReadyTaskRuns` | idle and two tasks, 59,938 states, holds |
| `scheduler_sleep` | `SleepingTaskIsWoken` | violated: a second sleeper erases the first |
| `scheduler_join` | `JoinWaits` | violated: `join_task` returns at once |
| `runtime` | type, `TransferIsExpected`, `UsesScheduler`, `OnlyCompleteCodeRuns`, `RequestIsServed`, `ArrivedTaskIsTaken` | three tasks: idle, I/O and one module, two chunks; 62,862 states, holds when no wake-up by a module has the I/O task's pid |
| `runtime_sleep` | `SleepsOnlyWhenAlone` | violated: a wake-up between the check and wfi |
| `queue` | type, `RingsIntact`, `ImplementsOrder` | two queues, four nodes up to symmetry, holds |
| `queue_interrupted` | `PredecessorLeadsBack` | violated with three nodes |
| `allocator` | type, `BlocksBacked`, `ImplementsHeap`, `QuicksortSorts`, `DefragKeepsBlocks` | four slots, requests of 0, 4, 12, 24,000 and 32,764 bytes, 40,311 states, holds |
| `allocator_mutex` | `MutexReleased` | violated by a request of 0 bytes |
| `contexts` | type, `ImplementsThreads` | three threads, two values for a block of registers, 18,956 states up to symmetry, holds |
| `boards` | type, `PinsKeepTheirUse`, `EdgeIsServed`, `InitCompletes`, `AdcNeverSpins`, `OneWrongBitIsRejected`, `WritesArriveExactly`, `SleepIsLongEnough` | all nine programs; six edges, bytes of two bits, a sleep timer of five ticks and sleeps of one to three; 113,460 states, holds |
| `radio` | type, `AckIsNeverRefused`, `CallsAreCounted`, `NoInterruptIsLost`, `MessagesStayInOrder`, `CallReturns`, `HandlerReturns` | two calls with two attempts each, FIFOs of three; 99,421 states, holds |

Three tasks are enough for the shapes the scheduler distinguishes: idle, the
current one, and another one that waits, is ready, finished or not yet
created; tcbs are reused, pids are handed out twice, the running queue gets
empty, and all wake-ups race with all steps. `clean_up_requests` and pids need
no bound, since the tcbs bound them. Four nodes give rings of one, two and
more nodes and neighbours that are and are not the ends. Four slots with chunks of
8, 16 and 24,000 bytes give reuse of a chunk that is too big, free chunks that are
too small, and a full table; three chunks of 24,000 bytes are more than 16 bits
can address, and the chunk for 32,764 bytes has the size zero.

In `Runtime` the tcb of the module is used again for the task that is loaded when
the module has finished, so that tasks are created and cleaned up without end; two
chunks tell the current transfer from the one before it.

Three threads let one be interrupted, one be saved and one not exist yet, and two
values per block tell any two blocks apart; the permutations of the threads other
than the first are a symmetry of `Contexts`, and its run checks only safety.
In `boards` six edges are enough for one in each phase of the set-up, during a
handler and after it; bytes of two bits keep the carries of the checksum; five ticks
let the counter of TIM3 pass its match and wrap, and a sleep be shorter or longer
than what an earlier one left in the counter. In `radio` two calls of two attempts
are four payloads, one more than a FIFO holds: payloads stay over from the first call,
a FIFO is refused, and acks come late, twice or never.

The allocator may really stop: once a bad size has left 1 in the mutex every
further call spins. This is why its run does not look for deadlocks. `radio`
ends when the button has been pressed `MaxCalls` times, and `boards` when a
program whose loop only yields has seen its last edge.

**Fairness.** `FairSpec` assumes that a pended PendSV and TIM3 are served
(`WF`), that a kernel function which has been entered goes on (`WF` of
`KernelContinues`), and that the thread on the processor gives it up again and
again by yielding, blocking, sleeping or finishing (`SF` of
`GivesUpProcessor`). The last one is an assumption on user tasks, which the
README of the repository states as well: there is no preemption. It is strong
fairness because a pended switch disables the calls for a moment. Nothing is
assumed about handlers that wake tasks.

`RuntimeFairSpec` assumes that the kernel's own tasks go on while they have the
processor, that a pending switch is made, and that the module gives the processor
up again and again. No interrupt is forced to come: the system ticks only in
another configuration. So `ArrivedTaskIsTaken` needs the assumption that wfi always
ends (a task that arrives between the last look of `idle_runner` and wfi waits for
the next interrupt), and it excludes the step behind the array of subtasks.
Like `ReadyTaskRuns`, both properties hold once modules and handlers wake nobody
any more; before, the idle task can be overtaken again and again.

`ReadyTaskRuns` holds once wake-ups have ceased and no transfer is pending. Without this, a
task woken again and again before a READY one in the ring can starve it, because a
woken task is linked in before the head and not behind the last; and while a transfer
is pending, every switch wakes the idle task.

`BoardsSpec` assumes that the processor takes a requested interrupt (`SF` for EXTI
interrupts, which one of a lower number may overtake) and executes handlers, that
the thread goes on (`SF`, since interrupts stop it), and that the I2C peripheral
shifts. Edges, conversions, ticks and the answers of sensors come or do not.

`RadioSpec` assumes that threads and handlers of both boards go on and that a chip
with a payload and CE high transmits (`WF`). The air may lose or corrupt every frame,
and the button need not be pressed.

## 4. Proofs

Every safety property the runs check, invariant, action property or refinement, is
a theorem for every value of the constants that fulfils the assumptions in the
modules. What the theorems assume beyond these is said below.

**Scheduler.** `SchedulerProofs` proves, for any finite set of up to twelve tasks (64
slots, five per task), that each invariant of the run `scheduler` is an invariant of
`Spec`, and the action property. The inductive invariant is `IInv` in `Scheduler`. Its
parts need each other: to know that a switch loads a task at all, the idle task
must be the only one with pid 0 (`IdleKnownByPid`), which follows from
`QueuesPartitionTasks` because a new pid is the number of live tasks, at least
one; that a freed task is not current follows from
`ProcessorAgreesWithQueues`; that the search of the idle task stays inside the
ring, and that the interrupted thread is never free, is `CallsInOrder`.
`CleanUpRequestsExact` and its absence of wrap-around need the bound of twelve.
The lemmas in `TaskQueuesProofs` say what `isolate_node`, `move_node` and a
walk along the ring do to the members of a queue; "the first one" is a least
element by the well-foundedness of the naturals (`MinInSet`).

Induction over data is out of the prover's reach, so the other proofs that need it
use that least element too: a set of numbers for which something goes wrong has a
least one, and the one before it, if there is one, contradicts that. This is how a
recursive definition is shown to have the values its equations say, and how loops
keep their invariants, in `QueueProofs`, `AllocatorProofs` and `BoardsProofs`.

**Runtime.** `RuntimeProofs` proves `UsesScheduler`: every step of the kernel's own
tasks and handlers is a step or a stutter of `Scheduler`, so all its theorems hold here
(`KernelKeepsScheduler` collects the invariants). For the step in which
`external_io_runner` is created one has to know that it does not exist before and is
known by `io_pid` afterwards (`IoKnown`); that every task is a child of the idle task
and none is joined (`Children`) keeps `finish_task` to what it does here; `Held` says
where the two runners have the processor. `IInv`, the types and these are
`KernelInv`. `TransferIsExpected` and `OnlyCompleteCodeRuns` are proved for
`WakesIo = FALSE`: with a module whose wake-up has the I/O task's pid they are false
(section 2). Their
`TransferInv` says that while the stream runs the I/O task waits or is about to,
and that what has arrived is complete until the idle task has taken it or the I/O
task gives it up.

**Queues.** `QueueProofs` proves for any nodes and queues that the pointers are rings
(`RingsIntact`) and that `Queue` implements `QueueOrder`. The invariant `Rings` has a
sequence for every queue that its ring represents: `next` leads from each node to the
following one and from the last to the first, `prev` back, and `size`, `head`, `tail`
agree. `WalkMeetsRing` shows that the walk of `Contents` yields this sequence.
`isolate_node`, and `dequeue_element` with its cases for head and tail, make the same
update of the pointers (`Unlinked`), and `UnlinkedRing` shows that this leaves the ring
of the other nodes; `MoveNodeIntoEmpty` and `MoveNodeBehindTail` are the two cases of
appending. `OneRingChanges` adds that nobody else's ring is touched.

**Allocator.** `AllocatorProofs` proves for any length of the table and any set of
requests that the type invariant and `BlocksBacked` are invariants and that `Allocator`
implements `Heap`; nothing is assumed of the requests. The inductive invariant says
that used slots come first (`UsedFirst`), whatever happens, and, as long as `TableFits`,
that each chunk starts where the one before it ends (`ChunksInARow`), that it ends within
2^16 bytes (`ChunksFit`), and that held blocks and occupied chunks correspond
(`BlocksAreChunks`). No step makes `TableFits` true again, which is why the invariant can
be conditional. `LoopFindsEnd` proves that the sum the loop of `allocate` computes is the
end of the last chunk.

**Quicksort and defrag.** `QuicksortIsCorrect` holds of any array, `DefragIsSafe` as long as
`TableFits`; nothing calls either yet. `Rearranges` says that
one array is another with a part of it in a different order, and such rearrangements
can follow one another (`MovesTwice`) and keep the number of occurrences
(`OccurrencesStay`). `Divided` is the invariant of the loop of `make_partition`: what has
moved to the front is not beyond the pivot, the rest so far is. After it the pivot is
in its place (`PartitionDivides`), both parts that are left are smaller (`PartSplits`), so
quicksortR is defined on every part (`QuicksortCallsItself`), and two sorted parts
with the pivot between them are sorted (`SortedPartsJoin`). `DefragIsSafe` finds the
table in order already (`SortedStays`); `Row` is what the loop of `defrag` keeps: chunks in
a row, the last one where it was, no two free ones side by side up to the base.
`SizesAddUp` gives the size of a gap, `MergeKeepsRow` is one round.

**Context switch.** `ContextsProofs` proves for any set of threads and any contents of the
registers that the type invariant holds and that `Contexts` implements `Threads`. The
inductive invariant is the type invariant, that the first thread is never finished,
`Pushed` (inside `svcall_isr` the interrupted thread has its two blocks on its own
stack) and `Saved` (a thread that does not run has its context where its `sp` points to).
`Saved` is what makes the restore find the right registers; it is kept by
`block_current_task` only because `task_to_preserve`, not `currently_running`, says
where `pendsv_isr` saves. The lemmas say that a stored block is found again and that
no other is touched.

**Boards.** `BoardsProofs` has an invariant for each program:

* Remote control: the mutex is taken only where the interrupt of the ADC is
  disabled, and no conversion is pending where the thread takes it (`RemoteKnows`), because
  the thread runs only when nothing is requested. So the handler never finds it taken.
* Accelerometer: what is on the bus, with what is still in the shift and the transmit
  register, is a beginning of the payload; a byte from behind it is written only when
  nothing is left to be shifted (`AccelerometerKnows`).
* Sleep timer, for any width of the counter: as long as the requested time is not over,
  the counter is not ahead of the ticks since the request, and a match that is flagged
  belongs to a time that is over (`TimesAgree`); a match requests its interrupt at once
  (`MatchIsRequested`), and one task at a time is inside `task_sleep` (`OneInside`). All this
  is about the task that has called last (`by`), whose pid is the one stored; the handler
  wakes it or another one with its pid.
* Weather node, for bytes of any width: of two results that differ in one bit only one
  can have a valid checksum (`OneBitShows`). A bit of the four bytes changes the sum by
  a weight smaller than a byte, a bit of the checksum the sum not at all.
* Ports of all programs: pins have what was last asked for (`PinsKnow`). `set_otyper`
  spoils the pin above; each list of calls `Fits` when no pin that is spoilt is left so,
  and its ports have clocks. `ConfigureKeeps` shows that a list that fits configures
  exactly its pins, and one lemma per driver that its list fits. The weather node's
  port has its clock only from a call still to come, so its invariant counts the
  calls left.
* Types: each step writes timers, NVIC, EXTI lines and `idx` in one of a few ways
  (`StepsMoveTimers`, `StepsMoveIrqs`, `StepsMoveLines`, `IdxStays`), and each of these stays
  typed. The `idx` of the remote control is an index from the start, because the image is zero.

**Radio.** `RadioProofs` proves the run's invariants and `MessagesStayInOrder` for any two
programs of the set, any numbers of calls and attempts and any depth of the
FIFOs. The lemmas up to `ChipEvents` reduce the operations of the driver to what they do to
FIFOs, causes and the IRQ pin. The invariant has five parts: types (`StateOK`), what the
sender has counted at each point of a call (`Counted`), that a cause which holds the pin
low has its request pending or, at the receiver, its handler running, unless its edge
came before the interrupt was armed (`Served`), that `ackPackagePreloaded` and the
handler's state bound how many acks wait at the receiver: one of the thread, one of the
handler, none when none is said to be there (`Acks`), and that the payloads in the
sender's FIFO and in the receiver's are in the order of their calls and not older than
the one taken last (`Ordered`).

**Only model-checked.** Liveness under fairness is out of the prover's reach:
`ReadyTaskRuns`, `RequestIsServed`, `ArrivedTaskIsTaken`, `EdgeIsServed`, `InitCompletes`,
`CallReturns`, `HandlerReturns`. The five runs that expect a violation show a
counterexample, so there is nothing to prove, and `QueueInterrupted` belongs to one of
them. What the assumptions exclude is not proved either: more than twelve tasks, and
wake-ups by a module with the pid of the I/O task. Of a table beyond `TableFits` nothing is
promised but its types and the sorting.

## 5. Observations

What the models show of the code besides the five violated properties, without a
document of the repository that would say otherwise, or with one that is too vague
to be a property:

* Two sleepers may have the same pid (`task.c:71`); then the handler of TIM3 wakes the one
  that has waited longer, however long it asked for, when the other one's time is over.
* The allocator hands out overlapping blocks when the chunks add up to more than 65,536
  bytes, and a chunk of size zero for 32,761 to 32,764 bytes (`memory.c:304`).
* A woken task is linked in before the head of the running ring, so it may overtake
  a READY one; `README.md:11` calls the queues FiFo.
* A second transfer command gives up a task that has arrived and was not yet created
  (`runtime.c:89`).
* With both subtask slots filled `idle_runner` calls what lies behind the array
  (`runtime.c:168`).
* `transmit_with_autoack` may take the late ack of an earlier payload for the answer
  to its own, so a confirmed message need not have been received. The remark
  "Config MUST be transmitted succesful" (`nrf2401_transmit/src/main.c:149`) is
  behind a return.
* The handler of the sender clears `RX_DR` by writing back all causes, which clears
  `TX_DS` too, so its test for `TX_DS` never succeeds.
* An interrupt inside the thread's `spi_write` ends the transfer; the preloaded ack
  may be missing, and the call it should have answered is repeated.
* A frame that arrives between `start_listening` and `exti_detect_falling_edge` holds
  the IRQ pin down without an edge that anybody sees; the receiver is then deaf.
* `timer_get_prescaler(1000)` divides in single precision and cuts 999.99994 off: a tick
  of the sleep timer is 1.001 ms (`scheduler.h:36` says 1 ms). The first tick of a sleep
  is partial, since flushing the counter does not reset the prescaler. Times above
  65,535 are cut to the 16 bits of TIM3.
* `timer_init` reads one element beyond its array of four. `timer_pwm_init` makes the
  global timer wrap at 8,000, and its last line, `set_udis(~2)`, writes to a register
  of no timer.
* `set_otyper` makes the next pin of the port push-pull. The order in which the
  drivers run keeps this harmless.
* For pins above 3 the port is shifted out of its field of EXTICR. All programs
  use port A there, whose code is zero.
* The remote control sends on channel 2 and `drone_rpm` listens on channel 3.
* `weathernode`, `remote` and `drone_rpm` call `timer_init`, `nrf_transmit` and
  `timer_pwm_init` with parameters the present library no longer has. They are
  modelled as they are written.

## 6. Not modelled, and what could follow

* Code nothing calls: `setup_transfer` with `transfer_handler`, `kill_child_task`,
  `kill_all_child_tasks`, `collect_os_statistics`, `swap`, `single_list_pop`, `send` of
  `weathernodeV2`, `benchIt` behind its return, the polling variant of the receive
  module, `read_samples` and its helpers in the I2C package, `enable_crc`,
  `get_nrf_rpd`, `flush_current_tx_state`. `invalidate_current_task`, and with it the
  fault handlers, stop at a breakpoint; so do the handlers of the `nrf2401_receive` and
  `drone_rpm` packages.
* `reboot` and `soft_reset`: nothing is kept over a restart but `boot_flags`, which
  nobody reads, so a restart is another behaviour from the initial state.
* Statistics: read-outs of counters the models have or leave out, printed to the host.
* `bootstrap` up to enabling interrupts: it clears and copies memory with nothing
  else running.
* Registers with one value for the whole life of a program: baud rates, pull
  resistors, speeds, the CRC unit. `i2c.c` and `modules/weathernode` are copies of
  what is modelled elsewhere; `fdlibm` is vendored; `drohnentasks` belongs to no build.
* The radio's power-up delays and the length of a frame in microseconds: whether a
  window of `timeToSettle` is long enough is a choice of the model each time. The
  checksum is assumed to find every corrupted frame. SPI transfers are cut on the
  receiver only; those of the sender's thread count as one step.
* Memory of tasks: `Scheduler` has a set of tcbs, `Allocator` a table. Their
  composition would show the two slots per task that are never given back.
* `lock_mutex` instruction by instruction: with one processor and no preemption its
  exclusive store never fails.

Worth proving next: that the sequences of `Scheduler` are the rings of `Queue`, by one
theorem that takes `TaskQueues`' operations to those of `QueueOrder`; that the stacks of
`Contexts` are blocks `Allocator` has handed out; and that `defrag` from a table
`Allocator` reaches ends in a table from which `allocate` keeps `BlocksBacked`.
