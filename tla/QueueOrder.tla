----------------------------- MODULE QueueOrder -----------------------------
(***************************************************************************)
(* What the queues of data/queue.c promise to the scheduler: each queue is *)
(* a sequence of nodes; a node is added at the tail, a node is taken out   *)
(* from anywhere, and the others keep their order.                         *)
(***************************************************************************)
EXTENDS TaskQueues

CONSTANTS Node, Queue

VARIABLE order      \* [Queue -> Seq(Node)], head first

Nodes(q) == ToSet(order[q])

Init == order = [q \in Queue |-> <<>>]

(* enqueue_element of a node that is in no queue. *)
Enqueue(q, n) ==
  /\ \A r \in Queue : n \notin Nodes(r)
  /\ order' = [order EXCEPT ![q] = Append(@, n)]

(* isolate_node followed by move_node. *)
Transfer(from, to, n) ==
  /\ from # to
  /\ n \in Nodes(from)
  /\ order' = [order EXCEPT ![from] = Isolate(@, n), ![to] = Append(@, n)]

(* dequeue_element: never the last node. *)
Dequeue(q, n) ==
  /\ n \in Nodes(q)
  /\ Len(order[q]) > 1
  /\ order' = [order EXCEPT ![q] = Isolate(@, n)]

Next ==
  \E q \in Queue, n \in Node : \/ Enqueue(q, n)
                               \/ \E to \in Queue : Transfer(q, to, n)
                               \/ Dequeue(q, n)

Spec == Init /\ [][Next]_order

=============================================================================
