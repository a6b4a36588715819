------------------------------ MODULE SleepTimer ------------------------------
(***************************************************************************)
(* task_sleep assignment by assignment on a Board, with the timer that     *)
(* counts meanwhile and its interrupt handler.  The scheduler is           *)
(* cooperative: another task runs only when this one has blocked.          *)
(* create_task takes the number of tasks for the new one's pid, so that    *)
(* two sleepers may have the same one (module Scheduler).                  *)
(***************************************************************************)
EXTENDS Board

CONSTANT Requests  \* times tasks ask for, in ticks
ASSUME SleepAssumption == Requests \subseteq 1..SleepTop

Sleepers == {1, 2}
Pids == {1, 2}
Tim3 == 29
Nobody == 0

(* at: the next assignment of each task's task_sleep; pid: the one stored   *)
(* in task_sleep_request; ahead: the sleepers before each one in           *)
(* waiting_tasks; by, since: ghosts, the task that has called last and the *)
(* ticks since each one's call.                                            *)
SleepersStart(pids) ==
  [pc |-> "tasks", at |-> [t \in Sleepers |-> "away"], pids |-> pids, pid |-> Nobody, by |-> Nobody,
   ahead |-> [t \in Sleepers |-> {}],
   wants |-> [t \in Sleepers |-> 0], since |-> [t \in Sleepers |-> 0]]

TaskAt(t, from) ==
  /\ ThreadRuns /\ program = "sleepers" /\ calls = <<>>
  /\ app.at[t] = from
  /\ UNCHANGED <<program, calls, pins, wanted, slots, vector, nvic, exti, handler, acked, edges, owed>>
TaskRuns(t, from, to) == TaskAt(t, from) /\ app' = [app EXCEPT !.at[t] = to]

\* Any task that is not asleep may be the one that runs, unless one is inside.
CallsTaskSleep(t) ==
  /\ ThreadRuns /\ program = "sleepers" /\ calls = <<>>
  /\ app.at[t] = "away" /\ \A u \in Sleepers : app.at[u] \in {"away", "asleep"}
  /\ \E time \in Requests :
       app' = [app EXCEPT !.at[t] = "set_ccr", !.pid = app.pids[t], !.by = t,
                          !.wants[t] = time, !.since[t] = 0]
  /\ UNCHANGED <<board, calls, nvic, handler>>

SetsCcr(t) ==
  /\ TaskRuns(t, "set_ccr", "flush")
  /\ timers' = [timers EXCEPT ![3] = SetCcr(@, app.wants[t], 1)]

FlushesCounter(t) ==
  /\ TaskRuns(t, "flush", "start")
  /\ timers' = [timers EXCEPT ![3] = TimerFlushCounter(@)]

StartsTimer(t) ==
  /\ TaskRuns(t, "start", "block")
  /\ timers' = [timers EXCEPT ![3] = TimerStart(@)]

Blocks(t) ==
  /\ TaskAt(t, "block")
  /\ app' = [app EXCEPT !.at[t] = "asleep", !.ahead[t] = {u \in Sleepers : app.at[u] = "asleep"}]
  /\ UNCHANGED timers

TaskSleep(t) == CallsTaskSleep(t) \/ SetsCcr(t) \/ FlushesCounter(t) \/ StartsTimer(t) \/ Blocks(t)

\* The timer counts, whatever the processor does (external).
Tick ==
  /\ program = "sleepers" /\ "CEN" \in timers[3].cr1
  /\ timers' = [timers EXCEPT ![3] = Counted(@)]
  /\ nvic' = IF timers'[3].sr \cap timers'[3].dier # {}
             THEN [nvic EXCEPT !.pending = @ \cup {Tim3}] ELSE nvic
  /\ app' = [app EXCEPT !.since = [t \in Sleepers |-> IF @[t] < app.wants[t] THEN @[t] + 1 ELSE @[t]]]
  /\ UNCHANGED <<program, calls, pins, wanted, slots, vector, exti, handler, acked, edges, owed>>

\* wakeup_pid finds the first task in waiting_tasks that has the pid, ...
IsFirst(t, pid) ==
  /\ app.at[t] = "asleep" /\ app.pids[t] = pid
  /\ \A u \in app.ahead[t] : app.pids[u] # pid

\* ... or none.
WakeupPid(pid) ==
  \/ \E t \in Sleepers :
       /\ IsFirst(t, pid)
       /\ app' = [app EXCEPT !.at[t] = "away", !.ahead = [u \in Sleepers |-> @[u] \ {t}]]
  \/ (\A t \in Sleepers : ~IsFirst(t, pid)) /\ UNCHANGED app

\* tim3_isr_handler.
Tim3IsrRuns ==
  /\ handler = Tim3
  /\ IF 1 \in timers[3].sr
     THEN /\ timers' = [timers EXCEPT ![3] = TimerSetSr(TimerStop(@), @.sr \ {1})]
          /\ WakeupPid(app.pid)
     ELSE UNCHANGED <<timers, app>>
  /\ handler' = NoIrq
  /\ UNCHANGED <<program, calls, pins, wanted, slots, vector, nvic, exti, acked, edges, owed>>

SleepThread == \E t \in Sleepers : TaskSleep(t)

----------------------------------------------------------------------------
\* The timer lets a task sleep at least as long as it asked for, whatever it
\* counted before and whenever interrupts come, also when the task takes it over
\* from one that still sleeps.  The exception: another task that has the same
\* pid has called task_sleep since; then the first of the two may be woken when
\* the other one's time is over, or before the other one sleeps.
SleepIsLongEnough ==
  [][program = "sleepers" =>
       \A t \in Sleepers :
         app.at[t] = "asleep" /\ app'.at[t] = "away" =>
           \/ app.since[t] >= app.wants[t]
           \/ /\ app.by # t /\ app.pids[app.by] = app.pids[t]
              /\ app.at[app.by] = "asleep" => app.since[app.by] >= app.wants[app.by]]_vars
=============================================================================
