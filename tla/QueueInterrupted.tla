-------------------------- MODULE QueueInterrupted --------------------------
(***************************************************************************)
(* enqueue_element as create_task calls it: in thread mode and with the    *)
(* interrupts enabled, so that a handler may call wakeup_pid between any   *)
(* two of its assignments to the ring of the running tasks.  Every other   *)
(* function on the queues runs undisturbed, as in module Queue.            *)
(***************************************************************************)
EXTENDS Queue

CONSTANTS Running, Waiting     \* the two members of Queue

VARIABLES
  new_node,     \* the node enqueue_element is about to link in, or NULL
  line          \* its next assignment, by the pointer it sets

Lines == <<"new_node->prev", "new_node->next", "tail->next", "tail", "head->prev", "size">>

(* The assignments of the branch for a queue that is not empty, in their order. *)
Assigned(h, q, n, l) ==
  CASE Lines[l] = "new_node->prev" -> [h EXCEPT !.prev[n] = h.tail[q]]
    [] Lines[l] = "new_node->next" -> [h EXCEPT !.next[n] = h.head[q]]
    [] Lines[l] = "tail->next"     -> [h EXCEPT !.next[h.tail[q]] = n]
    [] Lines[l] = "tail"           -> [h EXCEPT !.tail[q] = n]
    [] Lines[l] = "head->prev"     -> [h EXCEPT !.prev[h.head[q]] = h.tail[q]]
    [] Lines[l] = "size"           -> [h EXCEPT !.size[q] = @ + 1]

NoCall == new_node = NULL

InitI == Init /\ new_node = NULL /\ line = 1

(* setup_kernel_runtime creates the first task before any interrupt is served. *)
FirstTask(n) ==
  /\ heap.size[Running] = 0 /\ heap.size[Waiting] = 0
  /\ EnqueueElement(Waiting, n)
  /\ UNCHANGED <<new_node, line>>

EnqueueCalled(n) ==
  /\ NoCall
  /\ heap.size[Running] > 0
  /\ n \notin allocated
  /\ allocated' = allocated \cup {n}
  /\ new_node' = n
  /\ line' = 1
  /\ UNCHANGED heap

EnqueueAssigns ==
  /\ ~NoCall
  /\ heap' = Assigned(heap, Running, new_node, line)
  /\ IF line = Len(Lines)
       THEN line' = 1 /\ new_node' = NULL
       ELSE line' = line + 1 /\ UNCHANGED new_node
  /\ UNCHANGED allocated

(* block_current_task of any running task, and clean_up_task by the idle task. *)
ThreadCalls(n) ==
  /\ NoCall
  /\ Transfer(Running, Waiting, n) \/ CleanUp(Running, n)
  /\ UNCHANGED <<new_node, line>>

(* wakeup_pid in an interrupt handler. *)
HandlerWakes(n) ==
  /\ Transfer(Waiting, Running, n)
  /\ UNCHANGED <<new_node, line>>

NextI ==
  \/ \E n \in Node : \/ FirstTask(n)
                     \/ EnqueueCalled(n)
                     \/ ThreadCalls(n)
                     \/ HandlerWakes(n)
  \/ EnqueueAssigns

SpecI == InitI /\ [][NextI]_<<vars, new_node, line>>

(***************************************************************************)
(* scheduler.h:82, "Jump back one task here ensures that next task is in   *)
(* fact the successor of the one that gets blocked right now": outside     *)
(* enqueue_element, the successor of the predecessor of a running task is  *)
(* the task itself.                                                        *)
(***************************************************************************)
PredecessorLeadsBack ==
  NoCall => \A n \in Members(Running) : heap.next[heap.prev[n]] = n

=============================================================================
