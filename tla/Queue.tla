------------------------------- MODULE Queue --------------------------------
(***************************************************************************)
(* The doubly linked rings of os/src/data/queue.c, pointer by pointer: the *)
(* fields of every node and of every queue, and the assignments of each    *)
(* function.  Here a function runs undisturbed, as it does in              *)
(* block_current_task (interrupts disabled), in pendsv_isr and in the      *)
(* interrupt handlers; QueueInterrupted adds an interrupt in the middle of *)
(* enqueue_element, which runs in thread mode.                             *)
(***************************************************************************)
EXTENDS TaskQueues

CONSTANTS
  Node,      \* the queue nodes that fit into memory
  Queue,     \* running_tasks and waiting_tasks
  NULL       \* the null pointer

ASSUME NullAssumption == NULL \notin Node

VARIABLES
  heap,       \* the pointers: next and prev of a node; size, head and tail of a queue
  allocated   \* the nodes enqueue_element has allocated

vars == <<heap, allocated>>

Pointer == Node \cup {NULL}

-----------------------------------------------------------------------------
(***************************************************************************)
(* move_node: the node becomes the tail.  enqueue_element does the same    *)
(* with the node it has allocated.                                         *)
(***************************************************************************)
(* Mutant: the open todo of the code, "update head nodes prev to tail!". *)
MoveNode_KeepsHeadPrev(h, q, n) ==
  IF h.size[q] = 0
    THEN [h EXCEPT !.next[n] = n, !.prev[n] = n,
                   !.tail[q] = n, !.head[q] = n, !.size[q] = @ + 1]
    ELSE [h EXCEPT !.prev[n] = h.tail[q], !.next[n] = h.head[q],
                   !.next[h.tail[q]] = n, !.tail[q] = n, !.size[q] = @ + 1]

(* Mutant: the node becomes the head. *)
MoveNode_AtHead(h, q, n) ==
  IF h.size[q] = 0
    THEN [h EXCEPT !.next[n] = n, !.prev[n] = n,
                   !.tail[q] = n, !.head[q] = n, !.size[q] = @ + 1]
    ELSE [h EXCEPT !.prev[n] = h.tail[q], !.next[n] = h.head[q],
                   !.next[h.tail[q]] = n, !.head[q] = n,
                   !.prev[h.head[q]] = n, !.size[q] = @ + 1]

MoveNode(h, q, n) ==
  IF h.size[q] = 0
    THEN [h EXCEPT !.next[n] = n, !.prev[n] = n,
                   !.tail[q] = n, !.head[q] = n, !.size[q] = @ + 1]
    ELSE [h EXCEPT !.prev[n] = h.tail[q], !.next[n] = h.head[q],
                   !.next[h.tail[q]] = n, !.tail[q] = n,
                   !.prev[h.head[q]] = n, !.size[q] = @ + 1]

(***************************************************************************)
(* isolate_node: the node keeps its own pointers.                          *)
(***************************************************************************)
(* Mutant: the size is reduced once more with the pointers. *)
IsolateNode_CountsTwice(h, q, n) ==
  IF h.size[q] - 1 = 0
    THEN [h EXCEPT !.size[q] = @ - 2, !.head[q] = NULL, !.tail[q] = NULL]
    ELSE [h EXCEPT !.size[q] = @ - 1,
                   !.head[q] = IF n = @ THEN h.next[n] ELSE @,
                   !.tail[q] = IF n = @ THEN h.prev[n] ELSE @,
                   !.next[h.prev[n]] = h.next[n],
                   !.prev[h.next[n]] = h.prev[n]]

IsolateNode(h, q, n) ==
  IF h.size[q] - 1 = 0
    THEN [h EXCEPT !.size[q] = @ - 1, !.head[q] = NULL, !.tail[q] = NULL]
    ELSE [h EXCEPT !.size[q] = @ - 1,
                   !.head[q] = IF n = @ THEN h.next[n] ELSE @,
                   !.tail[q] = IF n = @ THEN h.prev[n] ELSE @,
                   !.next[h.prev[n]] = h.next[n],
                   !.prev[h.next[n]] = h.prev[n]]

(* dequeue_element: the new head or tail closes the ring, or the neighbours do. *)
DequeueHead(h, q, n) ==
  [h EXCEPT !.head[q] = h.next[n],
            !.prev[h.next[n]] = h.tail[q],
            !.next[h.tail[q]] = h.next[n],
            !.size[q] = @ - 1]

DequeueTail(h, q, n) ==
  [h EXCEPT !.tail[q] = h.prev[n],
            !.next[h.prev[n]] = h.head[q],
            !.prev[h.head[q]] = h.prev[n],
            !.size[q] = @ - 1]

DequeueMiddle(h, q, n) ==
  [h EXCEPT !.next[h.prev[n]] = h.next[n],
            !.prev[h.next[n]] = h.prev[n],
            !.size[q] = @ - 1]

DequeueElement(h, q, n) ==
  IF n = h.head[q] THEN DequeueHead(h, q, n)
  ELSE IF n = h.tail[q] THEN DequeueTail(h, q, n)
  ELSE DequeueMiddle(h, q, n)

(* The nodes met on the way from the head along next, size of them. *)
Contents(h, q) ==
  LET walk[i \in 1..h.size[q]] ==
        IF i = 1 THEN h.head[q] ELSE h.next[walk[i - 1]]
  IN  walk

Members(q) == ToSet(Contents(heap, q))

-----------------------------------------------------------------------------
(* init_scheduler: new_queue twice. *)
Init ==
  /\ heap = [size |-> [q \in Queue |-> 0],
             head |-> [q \in Queue |-> NULL],
             tail |-> [q \in Queue |-> NULL],
             next |-> [n \in Node |-> NULL],
             prev |-> [n \in Node |-> NULL]]
  /\ allocated = {}

(* enqueue_element: the fresh node is linked in at the tail. *)
EnqueueElement(q, n) ==
  /\ n \notin allocated
  /\ allocated' = allocated \cup {n}
  /\ heap' = MoveNode(heap, q, n)

(* block_current_task and wakeup_pid: isolate_node, then move_node. *)
Transfer(from, to, n) ==
  /\ from # to
  /\ n \in Members(from)
  /\ heap' = MoveNode(IsolateNode(heap, from, n), to, n)
  /\ UNCHANGED allocated

(***************************************************************************)
(* clean_up_task: dequeue_element, and the node is deallocated.  The idle  *)
(* task calls it and is a node of the same queue, so it is never asked for *)
(* the last node, for which it would leave head and tail dangling.         *)
(***************************************************************************)
CleanUp(q, n) ==
  /\ n \in Members(q)
  /\ heap.size[q] > 1
  /\ heap' = DequeueElement(heap, q, n)
  /\ allocated' = allocated \ {n}

Next ==
  \E q \in Queue, n \in Node : \/ EnqueueElement(q, n)
                               \/ \E to \in Queue : Transfer(q, to, n)
                               \/ CleanUp(q, n)

Spec == Init /\ [][Next]_vars

-----------------------------------------------------------------------------
(* The type invariant. *)
TypeOK ==
  /\ heap \in [size : [Queue -> Nat], head : [Queue -> Pointer], tail : [Queue -> Pointer],
               next : [Node -> Pointer], prev : [Node -> Pointer]]
  /\ allocated \in SUBSET Node

(***************************************************************************)
(* The pointers of queue q are those of a ring with the nodes of s in this *)
(* order: head and tail are its ends, next and prev are inverse to each    *)
(* other and close the circle.                                             *)
(***************************************************************************)
Represents(h, q, s) ==
  /\ h.size[q] = Len(s)
  /\ h.head[q] = IF s = <<>> THEN NULL ELSE s[1]
  /\ h.tail[q] = IF s = <<>> THEN NULL ELSE s[Len(s)]
  /\ \A i \in 1..Len(s) :
       /\ h.next[s[i]] = s[IF i = Len(s) THEN 1 ELSE i + 1]
       /\ h.prev[s[i]] = s[IF i = 1 THEN Len(s) ELSE i - 1]

(***************************************************************************)
(* Every queue is an intact ring, no node is in it twice or in two queues, *)
(* and every allocated node is in one: move_node and isolate_node keep     *)
(* both directions of the links, size, head and tail in step.              *)
(***************************************************************************)
RingsIntact ==
  /\ \A q \in Queue : /\ Contents(heap, q) \in Seq(Node)
                      /\ IsInjective(Contents(heap, q))
                      /\ Represents(heap, q, Contents(heap, q))
  /\ \A q, r \in Queue : q # r => Members(q) \cap Members(r) = {}
  /\ allocated = UNION {Members(q) : q \in Queue}

(***************************************************************************)
(* The rings implement first-in first-out sequences.                       *)
(***************************************************************************)
Order == INSTANCE QueueOrder WITH order <- [q \in Queue |-> Contents(heap, q)]

ImplementsOrder == Order!Spec

=============================================================================
