----------------------------- MODULE TaskQueues -----------------------------
(***************************************************************************)
(* The running and the waiting queue as the scheduler sees them: two       *)
(* sequences of tasks, head first, and the state of every task.  The three *)
(* travel together as one record                                           *)
(*                                                                         *)
(*     q = [running |-> ..., waiting |-> ..., state |-> ...]               *)
(*                                                                         *)
(* because wakeup_pid and switch_task update all three, one after the      *)
(* other.  A queue is a ring (data/queue.c): the successor of the tail is  *)
(* the head.  Module Queue holds the pointers behind these sequences.      *)
(***************************************************************************)
EXTENDS Integers, SequencesExt

(* Position of task t in sequence s. *)
IndexOf(s, t) == CHOOSE i \in DOMAIN s : s[i] = t

(* isolate_node: unlink t, the order of the others is kept. *)
Isolate(s, t) == RemoveAt(s, IndexOf(s, t))

(* The task reached from t by following node->next d times, d \in 0..Len(s). *)
RingNext(s, t, d) ==
  LET i == IndexOf(s, t) + d IN s[IF i > Len(s) THEN i - Len(s) ELSE i]

(* node->prev of t. *)
RingPrev(s, t) == RingNext(s, t, Len(s) - 1)

(* The queues after the state in the tcb of t has become st. *)
WithState(q, t, st) ==
  [running |-> q.running, waiting |-> q.waiting, state |-> [q.state EXCEPT ![t] = st]]

(***************************************************************************)
(* wakeup_pid: the first waiting task that carries the pid is moved to the *)
(* tail of the running queue and becomes READY; no such task, no effect.   *)
(***************************************************************************)
HasPid(q, pid, p) == {i \in DOMAIN q.waiting : pid[q.waiting[i]] = p}

FirstWithPid(q, pid, p) == q.waiting[Min(HasPid(q, pid, p))]

(* Mutant: the woken task stays WAITING. *)
MoveToRunning_StaysWaiting(q, t) ==
  [q EXCEPT !.running = Append(q.running, t), !.waiting = Isolate(q.waiting, t)]

MoveToRunning(q, t) ==
  [running |-> Append(q.running, t),
   waiting |-> Isolate(q.waiting, t),
   state   |-> [q.state EXCEPT ![t] = "READY"]]

Wakeup(q, pid, p) ==
  IF HasPid(q, pid, p) = {} THEN q ELSE MoveToRunning(q, FirstWithPid(q, pid, p))

(***************************************************************************)
(* The loop of switch_task: the READY tasks by their distance from c.      *)
(***************************************************************************)
(* Mutant: every task that does not wait can be selected. *)
ReadyDistances_NotWaiting(q, c) ==
  {d \in 1..Len(q.running) : q.state[RingNext(q.running, c, d)] # "WAITING"}

ReadyDistances(q, c) ==
  {d \in 1..Len(q.running) : q.state[RingNext(q.running, c, d)] = "READY"}

(* Mutant: the successor whatever its state. *)
NextReady_Successor(q, c) == RingNext(q.running, c, 1)

(* Mutant: every search starts at the head. *)
NextReady_FromHead(q, c) ==
  q.running[Min({i \in DOMAIN q.running : q.state[q.running[i]] = "READY"})]

NextReady(q, c) == RingNext(q.running, c, Min(ReadyDistances(q, c)))

=============================================================================
