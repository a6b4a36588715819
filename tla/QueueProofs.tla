----------------------------- MODULE QueueProofs -----------------------------
(***************************************************************************)
(* Theorems about Queue: for any number of nodes and queues the pointers   *)
(* of data/queue.c stay rings, and the rings are the sequences that        *)
(* QueueOrder promises and the scheduler's model works with.               *)
(***************************************************************************)
EXTENDS Queue, TaskQueuesProofs

-----------------------------------------------------------------------------
(* A walk from the head along next meets the nodes of the ring in order.   *)
LEMMA WalkMeetsRing ==
  ASSUME NEW h, NEW q, NEW s \in Seq(Node), Represents(h, q, s)
  PROVE  Contents(h, q) = s
<1> DEFINE n == Len(s)
           Step(f) == [i \in 1..n |-> IF i = 1 THEN h.head[q] ELSE h.next[f[i - 1]]]
           w == Contents(h, q)
<1>1. n \in Nat /\ DOMAIN s = 1..n /\ h.size[q] = n
  BY DEF Represents
<1>2. s = Step(s)
  <2>1. ASSUME NEW i \in 1..n
        PROVE  s[i] = IF i = 1 THEN h.head[q] ELSE h.next[s[i - 1]]
    <3>1. CASE i = 1
      <4>1. s # <<>>
        BY <1>1
      <4> QED BY <3>1, <4>1 DEF Represents
    <3>2. CASE i # 1
      <4>1. i - 1 \in 1..n /\ i - 1 # n /\ (i - 1) + 1 = i
        BY <1>1, <3>2
      <4> QED BY <3>2, <4>1 DEF Represents
    <3> QED BY <3>1, <3>2
  <2> QED BY <1>1, <2>1
<1>3. w = CHOOSE f : f = Step(f)
  BY <1>1 DEF Contents
<1>4. w = Step(w)
  <2> HIDE DEF w
  <2>1. \E f : f = Step(f)
    BY <1>2
  <2> QED BY <1>3, <2>1
<1> HIDE DEF w
<1>5. DOMAIN w = 1..n /\ \A i \in 1..n : w[i] = IF i = 1 THEN h.head[q] ELSE h.next[w[i - 1]]
  BY <1>4
<1>6. DOMAIN s = 1..n /\ \A i \in 1..n : s[i] = IF i = 1 THEN h.head[q] ELSE h.next[s[i - 1]]
  BY <1>1, <1>2
<1> HIDE DEF n
<1>7. \A i \in 1..n : w[i] = s[i]
  <2> DEFINE Wrong == {i \in 1..n : w[i] # s[i]}
             first == Min(Wrong)
  <2>1. SUFFICES ASSUME Wrong # {} PROVE FALSE
    OBVIOUS
  <2>2. first \in Wrong /\ \A i \in Wrong : first <= i
    <3>1. Wrong \in SUBSET Nat
      BY <1>1
    <3> HIDE DEF Wrong
    <3> QED BY <2>1, <3>1, MinInSet
  <2> HIDE DEF first
  <2>3. first \in 1..n /\ first # 1
    BY <1>5, <1>6, <2>2
  <2>4. first - 1 \in 1..n /\ ~(first <= first - 1)
    BY <1>1, <2>3
  <2>5. w[first - 1] = s[first - 1]
    BY <2>2, <2>4
  <2>6. w[first] = s[first]
    BY <1>5, <1>6, <2>3, <2>5
  <2> QED BY <2>2, <2>6
<1>8. w = [i \in 1..n |-> w[i]] /\ s = [i \in 1..n |-> s[i]]
  BY <1>4, <1>2 DEF n
<1> QED
  BY <1>7, <1>8 DEF w

-----------------------------------------------------------------------------
(* The heap of the type invariant. *)
Heaps == [size : [Queue -> Nat], head : [Queue -> Pointer], tail : [Queue -> Pointer],
          next : [Node -> Pointer], prev : [Node -> Pointer]]

(* A function called for queue q writes no field of the other queues, and  *)
(* no pointer of a node outside S.                                         *)
Elsewhere(h, g, q, S) ==
  /\ \A r \in Queue \ {q} : g.size[r] = h.size[r] /\ g.head[r] = h.head[r] /\ g.tail[r] = h.tail[r]
  /\ \A m \in Node \ S : g.next[m] = h.next[m] /\ g.prev[m] = h.prev[m]

(* The rings of the other queues stay what they are. *)
LEMMA OtherRingsStay ==
  ASSUME NEW h, NEW g, NEW q, NEW r \in Queue \ {q}, NEW S, NEW s \in Seq(Node),
         Elsewhere(h, g, q, S), ToSet(s) \cap S = {}, Represents(h, r, s)
  PROVE  Represents(g, r, s)
<1>1. g.size[r] = h.size[r] /\ g.head[r] = h.head[r] /\ g.tail[r] = h.tail[r]
  BY DEF Elsewhere
<1>2. ASSUME NEW i \in 1..Len(s)
      PROVE  g.next[s[i]] = h.next[s[i]] /\ g.prev[s[i]] = h.prev[s[i]]
  <2>1. s[i] \in Node /\ s[i] \in ToSet(s)
    BY DEF ToSet
  <2> QED BY <2>1 DEF Elsewhere
<1> QED
  BY <1>1, <1>2 DEF Represents

(* move_node into an empty queue ... *)
LEMMA MoveNodeIntoEmpty ==
  ASSUME NEW h \in Heaps, NEW q \in Queue, NEW n \in Node, h.size[q] = 0
  PROVE  /\ MoveNode(h, q, n) \in Heaps
         /\ Elsewhere(h, MoveNode(h, q, n), q, {n})
         /\ Represents(MoveNode(h, q, n), q, <<n>>)
<1> DEFINE g == MoveNode(h, q, n)
<1>1. g = [size |-> [h.size EXCEPT ![q] = h.size[q] + 1], head |-> [h.head EXCEPT ![q] = n],
           tail |-> [h.tail EXCEPT ![q] = n], next |-> [h.next EXCEPT ![n] = n],
           prev |-> [h.prev EXCEPT ![n] = n]]
  BY DEF MoveNode, Heaps
<1>2. g \in Heaps
  BY <1>1 DEF Heaps, Pointer
<1>3. Elsewhere(h, g, q, {n})
  BY <1>1 DEF Heaps, Elsewhere
<1>4. g.size[q] = 1 /\ g.head[q] = n /\ g.tail[q] = n /\ g.next[n] = n /\ g.prev[n] = n
  BY <1>1 DEF Heaps
<1> HIDE DEF g
<1> DEFINE s == <<n>>
<1>5. Len(s) = 1 /\ s[1] = n /\ s # <<>>
  OBVIOUS
<1> HIDE DEF s
<1>6. Represents(g, q, s)
  BY <1>4, <1>5 DEF Represents
<1> QED
  BY <1>2, <1>3, <1>6 DEF g, s

(* ... and behind the tail of one that is not. *)
LEMMA MoveNodeBehindTail ==
  ASSUME NEW h \in Heaps, NEW q \in Queue, NEW n \in Node, NEW s \in Seq(Node),
         h.size[q] # 0, IsInjective(s), n \notin ToSet(s), Represents(h, q, s)
  PROVE  /\ MoveNode(h, q, n) \in Heaps
         /\ Elsewhere(h, MoveNode(h, q, n), q, ToSet(s) \cup {n})
         /\ Represents(MoveNode(h, q, n), q, Append(s, n))
<1> DEFINE g == MoveNode(h, q, n)
           k == Len(s)
           r == Append(s, n)
<1>1. /\ k \in Nat \ {0} /\ s # <<>>
      /\ h.size[q] = k /\ h.head[q] = s[1] /\ h.tail[q] = s[k]
      /\ \A i \in 1..k : s[i] \in Node /\ s[i] \in ToSet(s) /\ s[i] # n
  BY DEF Represents, ToSet
<1>2. \A i \in 1..k : /\ h.next[s[i]] = s[IF i = k THEN 1 ELSE i + 1]
                      /\ h.prev[s[i]] = s[IF i = 1 THEN k ELSE i - 1]
  BY DEF Represents
<1>3. \A i, j \in 1..k : s[i] = s[j] => i = j
  BY DEF IsInjective
<1>4. g = [size |-> [h.size EXCEPT ![q] = k + 1], head |-> h.head,
           tail |-> [h.tail EXCEPT ![q] = n],
           next |-> [[h.next EXCEPT ![n] = s[1]] EXCEPT ![s[k]] = n],
           prev |-> [[h.prev EXCEPT ![n] = s[k]] EXCEPT ![s[1]] = n]]
  <2> HIDE DEF k
  <2> QED BY <1>1 DEF MoveNode, Heaps
<1> HIDE DEF k
<1>5. 1 \in 1..k /\ k \in 1..k
  BY <1>1
<1>6. g \in Heaps
  <2> DEFINE a == [h.size EXCEPT ![q] = k + 1]
             c == [h.tail EXCEPT ![q] = n]
             d == [[h.next EXCEPT ![n] = s[1]] EXCEPT ![s[k]] = n]
             e == [[h.prev EXCEPT ![n] = s[k]] EXCEPT ![s[1]] = n]
  <2>1. a \in [Queue -> Nat] /\ h.head \in [Queue -> Pointer]
    BY <1>1 DEF Heaps
  <2>2. c \in [Queue -> Pointer]
    BY DEF Heaps, Pointer
  <2>3. d \in [Node -> Pointer]
    BY <1>1, <1>5 DEF Heaps, Pointer
  <2>4. e \in [Node -> Pointer]
    BY <1>1, <1>5 DEF Heaps, Pointer
  <2>5. g = [size |-> a, head |-> h.head, tail |-> c, next |-> d, prev |-> e]
    BY <1>4
  <2> HIDE DEF a, c, d, e
  <2> QED BY <2>1, <2>2, <2>3, <2>4, <2>5 DEF Heaps
<1>7. Elsewhere(h, g, q, ToSet(s) \cup {n})
  BY <1>1, <1>4, <1>5 DEF Heaps, Elsewhere
<1>8. /\ g.size[q] = k + 1 /\ g.head[q] = s[1] /\ g.tail[q] = n
      /\ \A m \in Node : g.next[m] = IF m = s[k] THEN n ELSE IF m = n THEN s[1] ELSE h.next[m]
      /\ \A m \in Node : g.prev[m] = IF m = s[1] THEN n ELSE IF m = n THEN s[k] ELSE h.prev[m]
  BY <1>1, <1>4, <1>5 DEF Heaps
<1>9. /\ Len(r) = k + 1 /\ r # <<>> /\ r[k + 1] = n /\ r[1] = s[1]
      /\ \A i \in 1..k : r[i] = s[i]
  BY <1>5 DEF k
<1> HIDE DEF g, r
<1>10. ASSUME NEW i \in 1..(k + 1)
       PROVE  /\ g.next[r[i]] = r[IF i = k + 1 THEN 1 ELSE i + 1]
              /\ g.prev[r[i]] = r[IF i = 1 THEN k + 1 ELSE i - 1]
  <2>1. CASE i = k + 1
    BY <1>1, <1>5, <1>8, <1>9, <2>1
  <2>2. CASE i \in 1..k
    <3>1. r[i] = s[i] /\ s[i] \in Node /\ s[i] # n
      BY <1>1, <1>9, <2>2
    <3>2. g.next[r[i]] = r[IF i = k + 1 THEN 1 ELSE i + 1]
      <4>1. CASE i = k
        BY <1>1, <1>8, <1>9, <3>1, <4>1
      <4>2. CASE i # k
        <5>1. i + 1 \in 1..k /\ s[i] # s[k] /\ i # k + 1
          BY <1>1, <1>3, <1>5, <2>2, <4>2
        <5> QED BY <1>2, <1>8, <1>9, <2>2, <3>1, <4>2, <5>1
      <4> QED BY <4>1, <4>2
    <3>3. g.prev[r[i]] = r[IF i = 1 THEN k + 1 ELSE i - 1]
      <4>1. CASE i = 1
        BY <1>1, <1>8, <1>9, <3>1, <4>1
      <4>2. CASE i # 1
        <5>1. i - 1 \in 1..k /\ s[i] # s[1]
          BY <1>1, <1>3, <1>5, <2>2, <4>2
        <5>2. g.prev[r[i]] = h.prev[s[i]]
          BY <1>8, <3>1, <5>1
        <5> QED BY <1>2, <1>9, <2>2, <4>2, <5>1, <5>2
      <4> QED BY <4>1, <4>2
    <3> QED BY <3>2, <3>3
  <2> QED BY <1>1, <2>1, <2>2
<1>11. r[Len(r)] = n
  BY <1>9
<1>12. Represents(g, q, r)
  BY <1>8, <1>9, <1>10, <1>11 DEF Represents
<1> QED
  BY <1>6, <1>7, <1>12 DEF g, r
(* What isolate_node and dequeue_element do to a ring of more than one     *)
(* node: the neighbours of the node n get each other for neighbours.       *)
Unlinked(h, g, q, n) ==
  /\ g \in Heaps
  /\ g.size[q] = h.size[q] - 1
  /\ g.head[q] = IF n = h.head[q] THEN h.next[n] ELSE h.head[q]
  /\ g.tail[q] = IF n = h.tail[q] THEN h.prev[n] ELSE h.tail[q]
  /\ \A m \in Node : g.next[m] = IF m = h.prev[n] THEN h.next[n] ELSE h.next[m]
  /\ \A m \in Node : g.prev[m] = IF m = h.next[n] THEN h.prev[n] ELSE h.prev[m]
  /\ Elsewhere(h, g, q, {h.prev[n], h.next[n]})

(* The neighbours of the node at position k of a ring. *)
LEMMA Neighbours ==
  ASSUME NEW h, NEW q, NEW s \in Seq(Node), IsInjective(s), Represents(h, q, s),
         NEW k \in 1..Len(s), Len(s) > 1
  PROVE  /\ h.size[q] = Len(s) /\ h.head[q] = s[1] /\ h.tail[q] = s[Len(s)]
         /\ h.next[s[k]] = s[IF k = Len(s) THEN 1 ELSE k + 1]
         /\ h.prev[s[k]] = s[IF k = 1 THEN Len(s) ELSE k - 1]
         /\ h.next[s[k]] \in ToSet(s) /\ h.prev[s[k]] \in ToSet(s)
         /\ h.next[s[k]] \in Node /\ h.prev[s[k]] \in Node
         /\ s[k] = h.head[q] <=> k = 1
         /\ s[k] = h.tail[q] <=> k = Len(s)
<1> DEFINE n == Len(s)
           after == IF k = n THEN 1 ELSE k + 1
           before == IF k = 1 THEN n ELSE k - 1
<1>1. h.size[q] = n /\ h.head[q] = s[1] /\ h.tail[q] = s[n]
  BY DEF Represents
<1>2. h.next[s[k]] = s[after] /\ h.prev[s[k]] = s[before]
  BY DEF Represents
<1>3. after \in 1..n /\ before \in 1..n /\ 1 \in 1..n /\ n \in 1..n
  OBVIOUS
<1>4. \A i \in 1..n : s[i] \in Node /\ s[i] \in ToSet(s)
  BY DEF ToSet
<1>5. \A i, j \in 1..n : s[i] = s[j] => i = j
  BY DEF IsInjective
<1> HIDE DEF n, after, before
<1>6. s[k] = h.head[q] <=> k = 1
  BY <1>1, <1>3, <1>5 DEF n
<1>7. s[k] = h.tail[q] <=> k = n
  BY <1>1, <1>3, <1>5 DEF n
<1>8. s[after] \in ToSet(s) /\ s[before] \in ToSet(s) /\ s[after] \in Node /\ s[before] \in Node
  BY <1>3, <1>4
<1> QED
  BY <1>1, <1>2, <1>6, <1>7, <1>8 DEF n, after, before

Unlink(h, q, n) ==
  LET hd == IF n = h.head[q] THEN h.next[n] ELSE h.head[q]
      tl == IF n = h.tail[q] THEN h.prev[n] ELSE h.tail[q]
  IN  [size |-> [h.size EXCEPT ![q] = h.size[q] - 1],
       head |-> [h.head EXCEPT ![q] = hd],
       tail |-> [h.tail EXCEPT ![q] = tl],
       next |-> [h.next EXCEPT ![h.prev[n]] = h.next[n]],
       prev |-> [h.prev EXCEPT ![h.next[n]] = h.prev[n]]]

(* Such an update leaves a heap, and writes nothing else. *)
LEMMA UnlinkUnlinks ==
  ASSUME NEW h \in Heaps, NEW q \in Queue, NEW s \in Seq(Node), IsInjective(s),
         Represents(h, q, s), NEW n \in ToSet(s), Len(s) > 1
  PROVE  Unlinked(h, Unlink(h, q, n), q, n)
<1> DEFINE g == Unlink(h, q, n)
<1>1. PICK k \in 1..Len(s) : s[k] = n
  BY DEF ToSet
<1>2. /\ h.size[q] \in Nat \ {0, 1} /\ n \in Node
      /\ h.next[n] \in Node /\ h.prev[n] \in Node
  BY <1>1, Neighbours
<1>3. /\ h.size \in [Queue -> Nat] /\ h.head \in [Queue -> Pointer] /\ h.tail \in [Queue -> Pointer]
      /\ h.next \in [Node -> Pointer] /\ h.prev \in [Node -> Pointer]
  BY DEF Heaps
<1> DEFINE a == [h.size EXCEPT ![q] = h.size[q] - 1]
           b == [h.head EXCEPT ![q] = IF n = h.head[q] THEN h.next[n] ELSE h.head[q]]
           c == [h.tail EXCEPT ![q] = IF n = h.tail[q] THEN h.prev[n] ELSE h.tail[q]]
           d == [h.next EXCEPT ![h.prev[n]] = h.next[n]]
           e == [h.prev EXCEPT ![h.next[n]] = h.prev[n]]
<1>4. g = [size |-> a, head |-> b, tail |-> c, next |-> d, prev |-> e]
  BY DEF Unlink
<1>5. g \in Heaps
  <2>1. a \in [Queue -> Nat] /\ b \in [Queue -> Pointer] /\ c \in [Queue -> Pointer]
    BY <1>2, <1>3 DEF Pointer
  <2>2. d \in [Node -> Pointer] /\ e \in [Node -> Pointer]
    BY <1>2, <1>3 DEF Pointer
  <2> HIDE DEF a, b, c, d, e
  <2> QED BY <1>4, <2>1, <2>2 DEF Heaps
<1>6. g.size = a /\ g.head = b /\ g.tail = c /\ g.next = d /\ g.prev = e
  BY <1>4
<1> HIDE DEF g
<1>7. /\ g.size[q] = h.size[q] - 1
      /\ g.head[q] = IF n = h.head[q] THEN h.next[n] ELSE h.head[q]
      /\ g.tail[q] = IF n = h.tail[q] THEN h.prev[n] ELSE h.tail[q]
  BY <1>3, <1>6
<1>8. \A m \in Node : g.next[m] = IF m = h.prev[n] THEN h.next[n] ELSE h.next[m]
  BY <1>3, <1>6
<1>9. \A m \in Node : g.prev[m] = IF m = h.next[n] THEN h.prev[n] ELSE h.prev[m]
  BY <1>3, <1>6
<1>10. Elsewhere(h, g, q, {h.prev[n], h.next[n]})
  BY <1>3, <1>6, <1>8, <1>9 DEF Elsewhere
<1> QED
  BY <1>5, <1>7, <1>8, <1>9, <1>10 DEF Unlinked, g
(* isolate_node does so ... *)
LEMMA IsolateNodeUnlinks ==
  ASSUME NEW h \in Heaps, NEW q \in Queue, NEW s \in Seq(Node), IsInjective(s),
         Represents(h, q, s), NEW n \in ToSet(s), Len(s) > 1
  PROVE  IsolateNode(h, q, n) = Unlink(h, q, n)
<1>1. PICK k \in 1..Len(s) : s[k] = n
  BY DEF ToSet
<1>2. h.size[q] \in Nat \ {0, 1}
  BY <1>1, Neighbours
<1>3. h.size[q] - 1 # 0
  BY <1>2
<1> DEFINE hd == IF n = h.head[q] THEN h.next[n] ELSE h.head[q]
           tl == IF n = h.tail[q] THEN h.prev[n] ELSE h.tail[q]
<1>4. IsolateNode(h, q, n) =
        [h EXCEPT !.size[q] = h.size[q] - 1, !.head[q] = hd, !.tail[q] = tl,
                  !.next[h.prev[n]] = h.next[n], !.prev[h.next[n]] = h.prev[n]]
  BY <1>3 DEF IsolateNode
<1>5. Unlink(h, q, n) =
        [size |-> [h.size EXCEPT ![q] = h.size[q] - 1],
         head |-> [h.head EXCEPT ![q] = hd], tail |-> [h.tail EXCEPT ![q] = tl],
         next |-> [h.next EXCEPT ![h.prev[n]] = h.next[n]],
         prev |-> [h.prev EXCEPT ![h.next[n]] = h.prev[n]]]
  BY DEF Unlink
<1> HIDE DEF hd, tl
<1> QED
  BY <1>4, <1>5 DEF Heaps

(* ... and dequeue_element, which closes the ring at the head or the tail, *)
(* does the same.                                                          *)
LEMMA DequeueElementUnlinks ==
  ASSUME NEW h \in Heaps, NEW q \in Queue, NEW s \in Seq(Node), IsInjective(s),
         Represents(h, q, s), NEW n \in ToSet(s), Len(s) > 1
  PROVE  DequeueElement(h, q, n) = Unlink(h, q, n)
<1>1. PICK k \in 1..Len(s) : s[k] = n
  BY DEF ToSet
<1>2. /\ h.head[q] = s[1] /\ h.tail[q] = s[Len(s)]
      /\ n = h.head[q] <=> k = 1
      /\ n = h.tail[q] <=> k = Len(s)
      /\ h.next[n] = s[IF k = Len(s) THEN 1 ELSE k + 1]
      /\ h.prev[n] = s[IF k = 1 THEN Len(s) ELSE k - 1]
  BY <1>1, Neighbours
<1> DEFINE hd == IF n = h.head[q] THEN h.next[n] ELSE h.head[q]
           tl == IF n = h.tail[q] THEN h.prev[n] ELSE h.tail[q]
           a == [h.size EXCEPT ![q] = h.size[q] - 1]
           b == [h.head EXCEPT ![q] = hd]
           c == [h.tail EXCEPT ![q] = tl]
           d == [h.next EXCEPT ![h.prev[n]] = h.next[n]]
           e == [h.prev EXCEPT ![h.next[n]] = h.prev[n]]
<1>3. Unlink(h, q, n) = [size |-> a, head |-> b, tail |-> c, next |-> d, prev |-> e]
  BY DEF Unlink
<1>4. h.head \in [Queue -> Pointer] /\ h.tail \in [Queue -> Pointer]
  BY DEF Heaps
<1>5. CASE n = h.head[q]
  <2>1. h.prev[n] = h.tail[q] /\ n # h.tail[q]
    BY <1>2, <1>5
  <2>2. DequeueElement(h, q, n) =
          [size |-> a, head |-> [h.head EXCEPT ![q] = h.next[n]], tail |-> h.tail,
           next |-> [h.next EXCEPT ![h.tail[q]] = h.next[n]],
           prev |-> [h.prev EXCEPT ![h.next[n]] = h.tail[q]]]
    BY <1>5 DEF DequeueElement, DequeueHead, Heaps
  <2>3. b = [h.head EXCEPT ![q] = h.next[n]] /\ c = h.tail
    BY <1>4, <1>5, <2>1
  <2> HIDE DEF a, b, c
  <2> QED BY <1>3, <2>1, <2>2, <2>3
<1>6. CASE n # h.head[q] /\ n = h.tail[q]
  <2>1. h.next[n] = h.head[q]
    BY <1>2, <1>6
  <2>2. DequeueElement(h, q, n) =
          [size |-> a, head |-> h.head, tail |-> [h.tail EXCEPT ![q] = h.prev[n]],
           next |-> [h.next EXCEPT ![h.prev[n]] = h.head[q]],
           prev |-> [h.prev EXCEPT ![h.head[q]] = h.prev[n]]]
    BY <1>6 DEF DequeueElement, DequeueTail, Heaps
  <2>3. b = h.head /\ c = [h.tail EXCEPT ![q] = h.prev[n]]
    BY <1>4, <1>6
  <2> HIDE DEF a, b, c
  <2> QED BY <1>3, <2>1, <2>2, <2>3
<1>7. CASE n # h.head[q] /\ n # h.tail[q]
  <2>1. DequeueElement(h, q, n) =
          [size |-> a, head |-> h.head, tail |-> h.tail, next |-> d, prev |-> e]
    BY <1>7 DEF DequeueElement, DequeueMiddle, Heaps
  <2>2. b = h.head /\ c = h.tail
    BY <1>4, <1>7
  <2> HIDE DEF a, b, c, d, e
  <2> QED BY <1>3, <2>1, <2>2
<1> QED
  BY <1>5, <1>6, <1>7

(* A ring from which a node has been unlinked is the ring of the others in *)
(* their old order.                                                        *)
LEMMA UnlinkedRing ==
  ASSUME NEW h, NEW g, NEW q, NEW s \in Seq(Node), IsInjective(s), Represents(h, q, s),
         NEW n \in ToSet(s), Len(s) > 1, Unlinked(h, g, q, n)
  PROVE  Represents(g, q, Isolate(s, n))
<1> DEFINE k == IndexOf(s, n)
           N == Len(s)
           r == Isolate(s, n)
           after == IF k = N THEN 1 ELSE k + 1
           before == IF k = 1 THEN N ELSE k - 1
<1>1. k \in 1..N /\ s[k] = n /\ N \in Nat /\ N > 1
  BY IndexOfMember
<1>2. /\ r \in Seq(Node) /\ Len(r) = N - 1
      /\ \A i \in 1..(N - 1) : r[i] = IF i < k THEN s[i] ELSE s[i + 1]
  BY IsolateElements
<1> HIDE DEF k
<1>3. /\ h.size[q] = N /\ h.head[q] = s[1] /\ h.tail[q] = s[N]
      /\ h.next[n] = s[after] /\ h.prev[n] = s[before]
      /\ n = h.head[q] <=> k = 1
      /\ n = h.tail[q] <=> k = N
  BY <1>1, Neighbours
<1>4. \A i \in 1..N : /\ h.next[s[i]] = s[IF i = N THEN 1 ELSE i + 1]
                      /\ h.prev[s[i]] = s[IF i = 1 THEN N ELSE i - 1]
  BY DEF Represents
<1>5. \A i, j \in 1..N : s[i] = s[j] => i = j
  BY DEF IsInjective
<1>6. \A i \in 1..N : s[i] \in Node
  OBVIOUS
<1> HIDE DEF r, N
<1>7. after \in 1..N /\ before \in 1..N
  BY <1>1
<1>8. /\ g.size[q] = N - 1
      /\ g.head[q] = IF k = 1 THEN s[after] ELSE s[1]
      /\ g.tail[q] = IF k = N THEN s[before] ELSE s[N]
  BY <1>3 DEF Unlinked
<1>9. /\ \A i \in 1..N : g.next[s[i]] = IF i = before THEN s[after] ELSE s[IF i = N THEN 1 ELSE i + 1]
      /\ \A i \in 1..N : g.prev[s[i]] = IF i = after THEN s[before] ELSE s[IF i = 1 THEN N ELSE i - 1]
  <2> SUFFICES ASSUME NEW i \in 1..N
               PROVE  /\ g.next[s[i]] = IF i = before THEN s[after] ELSE h.next[s[i]]
                      /\ g.prev[s[i]] = IF i = after THEN s[before] ELSE h.prev[s[i]]
    BY <1>4
  <2> HIDE DEF after, before
  <2>1. s[i] = s[before] <=> i = before
    BY <1>5, <1>7
  <2>2. s[i] = s[after] <=> i = after
    BY <1>5, <1>7
  <2> QED BY <1>3, <1>6, <2>1, <2>2 DEF Unlinked
<1>10. g.head[q] = r[1] /\ g.tail[q] = r[N - 1]
  <2>1. 1 \in 1..(N - 1) /\ N - 1 \in 1..(N - 1)
    BY <1>1
  <2>2. r[1] = IF 1 < k THEN s[1] ELSE s[2]
    BY <1>2, <2>1
  <2>3. r[N - 1] = IF N - 1 < k THEN s[N - 1] ELSE s[N]
    BY <1>1, <1>2, <2>1
  <2>4. g.head[q] = r[1]
    BY <1>1, <1>8, <2>2
  <2>5. g.tail[q] = r[N - 1]
    BY <1>1, <1>8, <2>3
  <2> QED BY <2>4, <2>5
<1>11. ASSUME NEW i \in 1..(N - 1)
       PROVE  g.next[r[i]] = r[IF i = N - 1 THEN 1 ELSE i + 1]
  <2> DEFINE j == IF i < k THEN i ELSE i + 1
             x == IF i = N - 1 THEN 1 ELSE i + 1
  <2>1. j \in 1..N /\ r[i] = s[j]
    BY <1>1, <1>2
  <2>2. x \in 1..(N - 1)
    BY <1>1
  <2>3. r[x] = s[IF x < k THEN x ELSE x + 1]
    BY <1>2, <2>2
  <2>4. g.next[s[j]] = s[IF j = before THEN after ELSE IF j = N THEN 1 ELSE j + 1]
    BY <1>9, <2>1
  <2>5. (IF j = before THEN after ELSE IF j = N THEN 1 ELSE j + 1)
          = (IF x < k THEN x ELSE x + 1)
    BY <1>1
  <2> QED BY <2>1, <2>3, <2>4, <2>5
<1>12. ASSUME NEW i \in 1..(N - 1)
       PROVE  g.prev[r[i]] = r[IF i = 1 THEN N - 1 ELSE i - 1]
  <2> DEFINE j == IF i < k THEN i ELSE i + 1
             x == IF i = 1 THEN N - 1 ELSE i - 1
  <2>1. j \in 1..N /\ r[i] = s[j]
    BY <1>1, <1>2
  <2>2. x \in 1..(N - 1)
    BY <1>1
  <2>3. r[x] = s[IF x < k THEN x ELSE x + 1]
    BY <1>2, <2>2
  <2>4. g.prev[s[j]] = s[IF j = after THEN before ELSE IF j = 1 THEN N ELSE j - 1]
    BY <1>9, <2>1
  <2>5. (IF j = after THEN before ELSE IF j = 1 THEN N ELSE j - 1)
          = (IF x < k THEN x ELSE x + 1)
    BY <1>1
  <2> QED BY <2>1, <2>3, <2>4, <2>5
<1>13. r # <<>>
  BY <1>1, <1>2
<1> HIDE DEF after, before
<1> QED
  BY <1>2, <1>8, <1>10, <1>11, <1>12, <1>13 DEF Represents, r
-----------------------------------------------------------------------------
(* Every queue q is a ring with the nodes of s[q], and a are all of them.  *)
Rings(h, a, s) ==
  /\ h \in Heaps /\ s \in [Queue -> Seq(Node)]
  /\ \A q \in Queue : IsInjective(s[q]) /\ Represents(h, q, s[q])
  /\ \A q, r \in Queue : q # r => ToSet(s[q]) \cap ToSet(s[r]) = {}
  /\ a = UNION {ToSet(s[q]) : q \in Queue}

(* A step that rebuilds one ring out of its own nodes and nodes of no      *)
(* queue, and writes nothing elsewhere, leaves every queue a ring.         *)
LEMMA OneRingChanges ==
  ASSUME NEW h, NEW a, NEW s, Rings(h, a, s), NEW g \in Heaps, NEW q \in Queue,
         NEW t \in Seq(Node), IsInjective(t), Represents(g, q, t),
         NEW S, Elsewhere(h, g, q, S),
         \A r \in Queue \ {q} : ToSet(s[r]) \cap (S \cup ToSet(t)) = {}
  PROVE  Rings(g, (a \ ToSet(s[q])) \cup ToSet(t), [s EXCEPT ![q] = t])
<1> DEFINE z == [s EXCEPT ![q] = t]
<1>1. /\ z \in [Queue -> Seq(Node)] /\ z[q] = t
      /\ \A r \in Queue \ {q} : z[r] = s[r] /\ s[r] \in Seq(Node)
  BY DEF Rings
<1> HIDE DEF z
<1>2. ASSUME NEW r \in Queue PROVE IsInjective(z[r]) /\ Represents(g, r, z[r])
  <2>1. CASE r = q
    BY <1>1, <2>1
  <2>2. CASE r # q
    <3>1. z[r] = s[r] /\ s[r] \in Seq(Node) /\ IsInjective(s[r]) /\ Represents(h, r, s[r])
      BY <1>1, <2>2 DEF Rings
    <3>2. ToSet(s[r]) \cap S = {}
      BY <2>2
    <3>3. Represents(g, r, s[r])
      BY <2>2, <3>1, <3>2, OtherRingsStay
    <3> QED BY <3>1, <3>3
  <2> QED BY <2>1, <2>2
<1>3. ASSUME NEW r \in Queue, NEW u \in Queue, r # u
      PROVE  ToSet(z[r]) \cap ToSet(z[u]) = {}
  <2>1. ToSet(s[r]) \cap ToSet(s[u]) = {}
    BY <1>3 DEF Rings
  <2>2. CASE r = q
    BY <1>1, <1>3, <2>2
  <2>3. CASE u = q
    BY <1>1, <1>3, <2>3
  <2>4. CASE r # q /\ u # q
    <3>1. z[r] = s[r] /\ z[u] = s[u]
      BY <1>1, <2>4
    <3> QED BY <2>1, <3>1, Zenon
  <2> QED BY <2>2, <2>3, <2>4
<1>4. (a \ ToSet(s[q])) \cup ToSet(t) = UNION {ToSet(z[r]) : r \in Queue}
  <2>1. a = UNION {ToSet(s[r]) : r \in Queue}
    BY DEF Rings
  <2>2. \A r \in Queue \ {q} : ToSet(s[r]) \cap ToSet(s[q]) = {}
    BY DEF Rings
  <2> QED BY <1>1, <2>1, <2>2
<1> QED
  BY <1>1, <1>2, <1>3, <1>4 DEF Rings, z

(* move_node and enqueue_element. *)
LEMMA MoveNodeKeepsRings ==
  ASSUME NEW h, NEW a, NEW s, Rings(h, a, s), NEW q \in Queue, NEW n \in Node, n \notin a
  PROVE  Rings(MoveNode(h, q, n), a \cup {n}, [s EXCEPT ![q] = Append(s[q], n)])
<1> DEFINE g == MoveNode(h, q, n)
           t == Append(s[q], n)
<1>1. /\ h \in Heaps /\ s[q] \in Seq(Node) /\ IsInjective(s[q]) /\ Represents(h, q, s[q])
      /\ \A r \in Queue : n \notin ToSet(s[r])
      /\ \A r \in Queue \ {q} : ToSet(s[r]) \cap ToSet(s[q]) = {}
      /\ ToSet(s[q]) \subseteq a
  BY DEF Rings
<1>2. t \in Seq(Node) /\ IsInjective(t) /\ ToSet(t) = ToSet(s[q]) \cup {n}
  BY <1>1, AppendAdds
<1>3. g \in Heaps /\ Elsewhere(h, g, q, ToSet(s[q]) \cup {n}) /\ Represents(g, q, t)
  <2>1. CASE h.size[q] = 0
    <3>1. s[q] = <<>>
      <4> DEFINE u == s[q]
      <4>1. h.size[q] = Len(u) /\ u \in Seq(Node)
        BY <1>1 DEF Represents
      <4> HIDE DEF u
      <4>2. u = <<>>
        BY <2>1, <4>1, EmptySeq
      <4> QED BY <4>2 DEF u
    <3>2. t = <<n>> /\ ToSet(s[q]) = {}
      BY <3>1 DEF ToSet
    <3> QED BY <1>1, <2>1, <3>2, MoveNodeIntoEmpty
  <2>2. CASE h.size[q] # 0
    BY <1>1, <2>2, MoveNodeBehindTail
  <2> QED BY <2>1, <2>2
<1> HIDE DEF g, t
<1>4. \A r \in Queue \ {q} : ToSet(s[r]) \cap ((ToSet(s[q]) \cup {n}) \cup ToSet(t)) = {}
  BY <1>1, <1>2
<1>5. Rings(g, (a \ ToSet(s[q])) \cup ToSet(t), [s EXCEPT ![q] = t])
  BY <1>2, <1>3, <1>4, OneRingChanges
<1>6. (a \ ToSet(s[q])) \cup ToSet(t) = a \cup {n}
  BY <1>1, <1>2
<1> QED
  BY <1>5, <1>6 DEF g, t

(* The update isolate_node and dequeue_element have in common. *)
LEMMA UnlinkKeepsRings ==
  ASSUME NEW h, NEW a, NEW s, Rings(h, a, s), NEW q \in Queue, NEW n \in ToSet(s[q]),
         Len(s[q]) > 1
  PROVE  Rings(Unlink(h, q, n), a \ {n}, [s EXCEPT ![q] = Isolate(s[q], n)])
<1> DEFINE g == Unlink(h, q, n)
           t == Isolate(s[q], n)
           S == {h.prev[n], h.next[n]}
<1>1. /\ h \in Heaps /\ s[q] \in Seq(Node) /\ IsInjective(s[q]) /\ Represents(h, q, s[q])
      /\ \A r \in Queue \ {q} : ToSet(s[r]) \cap ToSet(s[q]) = {}
      /\ ToSet(s[q]) \subseteq a
  BY DEF Rings
<1>2. t \in Seq(Node) /\ IsInjective(t) /\ ToSet(t) = ToSet(s[q]) \ {n}
  BY <1>1, IsolateRemoves
<1>3. Unlinked(h, g, q, n)
  BY <1>1, UnlinkUnlinks
<1>4. g \in Heaps /\ Elsewhere(h, g, q, S)
  BY <1>3 DEF Unlinked
<1>5. Represents(g, q, t)
  BY <1>1, <1>3, UnlinkedRing
<1>6. S \subseteq ToSet(s[q])
  <2>1. PICK k \in 1..Len(s[q]) : s[q][k] = n
    BY DEF ToSet
  <2> QED BY <1>1, <2>1, Neighbours
<1> HIDE DEF g, t, S
<1>7. \A r \in Queue \ {q} : ToSet(s[r]) \cap (S \cup ToSet(t)) = {}
  BY <1>1, <1>2, <1>6
<1>8. Rings(g, (a \ ToSet(s[q])) \cup ToSet(t), [s EXCEPT ![q] = t])
  BY <1>2, <1>4, <1>5, <1>7, OneRingChanges
<1>9. (a \ ToSet(s[q])) \cup ToSet(t) = a \ {n}
  BY <1>1, <1>2
<1> QED
  BY <1>8, <1>9 DEF g, t

(* isolate_node, which may take the last node out of a queue. *)
LEMMA IsolateNodeKeepsRings ==
  ASSUME NEW h, NEW a, NEW s, Rings(h, a, s), NEW q \in Queue, NEW n \in ToSet(s[q])
  PROVE  Rings(IsolateNode(h, q, n), a \ {n}, [s EXCEPT ![q] = Isolate(s[q], n)])
<1> DEFINE g == IsolateNode(h, q, n)
           t == Isolate(s[q], n)
<1>1. /\ h \in Heaps /\ s[q] \in Seq(Node) /\ IsInjective(s[q]) /\ Represents(h, q, s[q])
      /\ \A r \in Queue \ {q} : ToSet(s[r]) \cap ToSet(s[q]) = {}
      /\ ToSet(s[q]) \subseteq a
  BY DEF Rings
<1>2. CASE Len(s[q]) > 1
  BY <1>1, <1>2, IsolateNodeUnlinks, UnlinkKeepsRings
<1>3. CASE ~(Len(s[q]) > 1)
  <2>1. t \in Seq(Node) /\ IsInjective(t) /\ ToSet(t) = ToSet(s[q]) \ {n} /\ Len(t) = Len(s[q]) - 1
    BY <1>1, IsolateRemoves
  <2>2. t = <<>> /\ h.size[q] = 1
    <3> DEFINE u == s[q]
    <3>1. /\ u \in Seq(Node) /\ t \in Seq(Node) /\ Len(t) = Len(u) - 1 /\ ~(Len(u) > 1)
          /\ h.size[q] = Len(u)
      BY <1>1, <1>3, <2>1 DEF Represents
    <3> HIDE DEF u, t
    <3>2. Len(t) \in Nat /\ Len(u) \in Nat
      BY <3>1
    <3>3. Len(t) = 0 /\ Len(u) = 1
      BY <3>1, <3>2
    <3> QED BY <3>1, <3>3, EmptySeq
  <2>3. g = [size |-> [h.size EXCEPT ![q] = 0], head |-> [h.head EXCEPT ![q] = NULL],
             tail |-> [h.tail EXCEPT ![q] = NULL], next |-> h.next, prev |-> h.prev]
    <3>1. h.size[q] - 1 = 0
      BY <2>2
    <3>2. g = [h EXCEPT !.size[q] = 0, !.head[q] = NULL, !.tail[q] = NULL]
      BY <3>1 DEF IsolateNode
    <3> HIDE DEF g, t
    <3> QED BY <1>1, <3>2 DEF Heaps
  <2>4. g \in Heaps
    BY <1>1, <2>3 DEF Heaps, Pointer
  <2>5. Elsewhere(h, g, q, {})
    BY <1>1, <2>3 DEF Heaps, Elsewhere
  <2>6. g.size[q] = 0 /\ g.head[q] = NULL /\ g.tail[q] = NULL
    BY <1>1, <2>3 DEF Heaps
  <2> HIDE DEF g, t
  <2>7. Represents(g, q, t)
    BY <2>2, <2>6 DEF Represents
  <2>8. \A r \in Queue \ {q} : ToSet(s[r]) \cap ({} \cup ToSet(t)) = {}
    BY <1>1, <2>1
  <2>9. Rings(g, (a \ ToSet(s[q])) \cup ToSet(t), [s EXCEPT ![q] = t])
    BY <2>1, <2>4, <2>5, <2>7, <2>8, OneRingChanges
  <2>10. (a \ ToSet(s[q])) \cup ToSet(t) = a \ {n}
    BY <1>1, <2>1
  <2> QED BY <2>9, <2>10 DEF g, t
<1> QED
  BY <1>2, <1>3

(* dequeue_element, which is never asked for the last node. *)
LEMMA DequeueElementKeepsRings ==
  ASSUME NEW h, NEW a, NEW s, Rings(h, a, s), NEW q \in Queue, NEW n \in ToSet(s[q]),
         Len(s[q]) > 1
  PROVE  Rings(DequeueElement(h, q, n), a \ {n}, [s EXCEPT ![q] = Isolate(s[q], n)])
<1>1. h \in Heaps /\ s[q] \in Seq(Node) /\ IsInjective(s[q]) /\ Represents(h, q, s[q])
  BY DEF Rings
<1> QED
  BY <1>1, DequeueElementUnlinks, UnlinkKeepsRings
-----------------------------------------------------------------------------
\* The sequences behind the rings, as Order sees them.
Sequences == [q \in Queue |-> Contents(heap, q)]

(* A heap of rings has only one way to be read. *)
LEMMA RingsAreRead ==
  ASSUME NEW h, NEW a, NEW s, Rings(h, a, s)
  PROVE  [q \in Queue |-> Contents(h, q)] = s
<1>1. ASSUME NEW q \in Queue PROVE Contents(h, q) = s[q]
  <2>1. s[q] \in Seq(Node) /\ Represents(h, q, s[q])
    BY DEF Rings
  <2> QED BY <2>1, WalkMeetsRing
<1>2. s = [q \in Queue |-> s[q]]
  BY DEF Rings
<1> QED
  BY <1>1, <1>2

\* The inductive invariant.
IInv == Rings(heap, allocated, Sequences)

(* It is what the two invariants of Queue say. *)
LEMMA InvariantMeansRings ==
  ASSUME IInv
  PROVE  TypeOK /\ RingsIntact
<1>1. \A q \in Queue : Sequences[q] = Contents(heap, q)
  BY DEF Sequences
<1>2. /\ heap \in Heaps /\ Sequences \in [Queue -> Seq(Node)]
      /\ \A q \in Queue : IsInjective(Sequences[q]) /\ Represents(heap, q, Sequences[q])
      /\ \A q, r \in Queue : q # r => ToSet(Sequences[q]) \cap ToSet(Sequences[r]) = {}
      /\ allocated = UNION {ToSet(Sequences[q]) : q \in Queue}
  BY DEF IInv, Rings
<1>3. \A q \in Queue : ToSet(Sequences[q]) \subseteq Node
  BY <1>2 DEF ToSet
<1>4. TypeOK
  BY <1>2, <1>3 DEF TypeOK, Heaps
<1>5. RingsIntact
  BY <1>1, <1>2 DEF RingsIntact, Members
<1> QED
  BY <1>4, <1>5

(* new_queue makes empty rings. *)
LEMMA InitRings ==
  ASSUME Init
  PROVE  Rings(heap, allocated, [q \in Queue |-> <<>>])
<1> DEFINE s == [q \in Queue |-> <<>>]
           z == [q \in Queue |-> 0]
           e == [q \in Queue |-> NULL]
           p == [n \in Node |-> NULL]
<1>1. heap = [size |-> z, head |-> e, tail |-> e, next |-> p, prev |-> p] /\ allocated = {}
  BY DEF Init
<1>2. z \in [Queue -> Nat] /\ e \in [Queue -> Pointer] /\ p \in [Node -> Pointer]
  BY DEF Pointer
<1>3. s \in [Queue -> Seq(Node)] /\ \A q \in Queue : s[q] = <<>>
  BY EmptySeq
<1>4. heap.size = z /\ heap.head = e /\ heap.tail = e
  BY <1>1
<1>5. heap \in Heaps
  <2> HIDE DEF z, e, p
  <2> QED BY <1>1, <1>2 DEF Heaps
<1>6. ASSUME NEW q \in Queue PROVE Represents(heap, q, <<>>)
  <2>1. heap.size[q] = 0 /\ heap.head[q] = NULL /\ heap.tail[q] = NULL
    BY <1>4
  <2> QED BY <2>1 DEF Represents
<1>7. IsInjective(<<>>) /\ ToSet(<<>>) = {}
  BY DEF IsInjective, ToSet
<1> HIDE DEF s
<1> QED
  BY <1>1, <1>3, <1>5, <1>6, <1>7 DEF Rings, s

(* enqueue_element appends the new node. *)
LEMMA EnqueueAppends ==
  ASSUME IInv, NEW q \in Queue, NEW n \in Node, EnqueueElement(q, n)
  PROVE  /\ Rings(heap', allocated', [Sequences EXCEPT ![q] = Append(Sequences[q], n)])
         /\ \A r \in Queue : n \notin ToSet(Sequences[r])
<1>1. n \notin allocated /\ allocated' = allocated \cup {n} /\ heap' = MoveNode(heap, q, n)
  BY DEF EnqueueElement
<1>2. Rings(heap, allocated, Sequences)
  BY DEF IInv
<1>3. \A r \in Queue : ToSet(Sequences[r]) \subseteq allocated
  BY <1>2 DEF Rings
<1> QED
  BY <1>1, <1>2, <1>3, MoveNodeKeepsRings

(* isolate_node and move_node take a node out of one queue and append it   *)
(* to the other.                                                           *)
LEMMA TransferMoves ==
  ASSUME IInv, NEW from \in Queue, NEW to \in Queue, NEW n \in Node, Transfer(from, to, n)
  PROVE  /\ Rings(heap', allocated',
                  [Sequences EXCEPT ![from] = Isolate(Sequences[from], n),
                                    ![to] = Append(Sequences[to], n)])
         /\ from # to /\ n \in ToSet(Sequences[from])
<1> DEFINE s == Sequences
           one == [s EXCEPT ![from] = Isolate(s[from], n)]
           g == IsolateNode(heap, from, n)
<1>1. /\ from # to /\ n \in ToSet(s[from])
      /\ heap' = MoveNode(g, to, n) /\ allocated' = allocated
  BY DEF Transfer, Members, Sequences
<1>2. Rings(heap, allocated, s)
  BY DEF IInv
<1>3. n \in allocated /\ s \in [Queue -> Seq(Node)]
  BY <1>1, <1>2 DEF Rings
<1> HIDE DEF s
<1>4. Rings(g, allocated \ {n}, one)
  BY <1>1, <1>2, IsolateNodeKeepsRings
<1> HIDE DEF g
<1>5. one[to] = s[to]
  BY <1>1, <1>3
<1>6. Rings(MoveNode(g, to, n), (allocated \ {n}) \cup {n}, [one EXCEPT ![to] = Append(one[to], n)])
  <2> HIDE DEF one
  <2> QED BY <1>4, MoveNodeKeepsRings
<1>7. (allocated \ {n}) \cup {n} = allocated'
  BY <1>1, <1>3
<1> QED
  BY <1>1, <1>5, <1>6, <1>7 DEF s

(* clean_up_task takes the node out. *)
LEMMA CleanUpRemoves ==
  ASSUME IInv, NEW q \in Queue, NEW n \in Node, CleanUp(q, n)
  PROVE  /\ Rings(heap', allocated', [Sequences EXCEPT ![q] = Isolate(Sequences[q], n)])
         /\ n \in ToSet(Sequences[q]) /\ Len(Sequences[q]) > 1
<1>1. /\ n \in ToSet(Sequences[q]) /\ heap.size[q] > 1
      /\ heap' = DequeueElement(heap, q, n) /\ allocated' = allocated \ {n}
  BY DEF CleanUp, Members, Sequences
<1>2. Rings(heap, allocated, Sequences)
  BY DEF IInv
<1>3. Len(Sequences[q]) > 1
  <2>1. Represents(heap, q, Sequences[q])
    BY <1>2 DEF Rings
  <2> QED BY <1>1, <2>1 DEF Represents
<1> QED
  BY <1>1, <1>2, <1>3, DequeueElementKeepsRings

(* After a step the heap is again a heap of rings, read as expected. *)
LEMMA NewSequences ==
  ASSUME NEW s, Rings(heap', allocated', s)
  PROVE  Sequences' = s /\ IInv'
<1>1. Sequences' = [q \in Queue |-> Contents(heap', q)]
  BY DEF Sequences
<1>2. Sequences' = s
  BY <1>1, RingsAreRead
<1> QED
  BY <1>2 DEF IInv

(* QueueOrder uses the operators of TaskQueues. *)
LEMMA SameOperators ==
  ASSUME NEW s, NEW n
  PROVE  Order!ToSet(s) = ToSet(s) /\ Order!Isolate(s, n) = Isolate(s, n)
<1>1. Order!ToSet(s) = ToSet(s)
  BY DEF Order!ToSet, ToSet
<1>2. Order!IndexOf(s, n) = IndexOf(s, n)
  BY DEF Order!IndexOf, IndexOf
<1>3. Order!Isolate(s, n) = Isolate(s, n)
  BY <1>2 DEF Order!Isolate, Isolate, Order!RemoveAt, RemoveAt
<1> QED
  BY <1>1, <1>3

(* Every step keeps the rings and is one of QueueOrder's. *)
LEMMA StepKeepsRings ==
  ASSUME IInv, Next
  PROVE  IInv' /\ Order!Next
<1>1. /\ Sequences = [q \in Queue |-> Contents(heap, q)]
      /\ Sequences' = [q \in Queue |-> Contents(heap, q)]'
  BY DEF Sequences
<1>2. ASSUME NEW q \in Queue, NEW n \in Node, EnqueueElement(q, n)
      PROVE  IInv' /\ Order!Enqueue(q, n)
  <2>1. /\ Rings(heap', allocated', [Sequences EXCEPT ![q] = Append(Sequences[q], n)])
        /\ \A r \in Queue : n \notin ToSet(Sequences[r])
    BY <1>2, EnqueueAppends
  <2>2. Sequences' = [Sequences EXCEPT ![q] = Append(Sequences[q], n)] /\ IInv'
    BY <2>1, NewSequences
  <2> QED BY <1>1, <2>1, <2>2, SameOperators DEF Order!Enqueue, Order!Nodes
<1>3. ASSUME NEW q \in Queue, NEW to \in Queue, NEW n \in Node, Transfer(q, to, n)
      PROVE  IInv' /\ Order!Transfer(q, to, n)
  <2> DEFINE s == [Sequences EXCEPT ![q] = Isolate(Sequences[q], n),
                                    ![to] = Append(Sequences[to], n)]
  <2>1. /\ Rings(heap', allocated', s)
        /\ q # to /\ n \in ToSet(Sequences[q])
    BY <1>3, TransferMoves
  <2>2. Sequences' = s /\ IInv'
    <3> HIDE DEF s
    <3> QED BY <2>1, NewSequences
  <2>3. /\ n \in Order!Nodes(q) <=> n \in ToSet(Sequences[q])
        /\ Order!Isolate(Sequences[q], n) = Isolate(Sequences[q], n)
    BY <1>1, SameOperators DEF Order!Nodes
  <2>4. Sequences' = [Sequences EXCEPT ![q] = Order!Isolate(Sequences[q], n),
                                       ![to] = Append(Sequences[to], n)]
    BY <2>2, <2>3
  <2> HIDE DEF s
  <2>5. Order!Transfer(q, to, n)
    BY <1>1, <2>1, <2>3, <2>4, Zenon DEF Order!Transfer, Sequences
  <2> QED BY <2>2, <2>5
<1>4. ASSUME NEW q \in Queue, NEW n \in Node, CleanUp(q, n)
      PROVE  IInv' /\ Order!Dequeue(q, n)
  <2>1. /\ Rings(heap', allocated', [Sequences EXCEPT ![q] = Isolate(Sequences[q], n)])
        /\ n \in ToSet(Sequences[q]) /\ Len(Sequences[q]) > 1
    BY <1>4, CleanUpRemoves
  <2>2. Sequences' = [Sequences EXCEPT ![q] = Isolate(Sequences[q], n)] /\ IInv'
    BY <2>1, NewSequences
  <2> QED BY <1>1, <2>1, <2>2, SameOperators DEF Order!Dequeue, Order!Nodes
<1> QED
  BY <1>2, <1>3, <1>4 DEF Next, Order!Next

(* The first state. *)
LEMMA InitKeepsRings ==
  ASSUME Init
  PROVE  IInv /\ Order!Init
<1>1. Rings(heap, allocated, [q \in Queue |-> <<>>])
  BY InitRings
<1>2. Sequences = [q \in Queue |-> <<>>]
  BY <1>1, RingsAreRead DEF Sequences
<1> QED
  BY <1>1, <1>2 DEF IInv, Order!Init, Sequences

(* The inductive invariant holds in every reachable state. *)
LEMMA InvariantHolds == Spec => []IInv
<1>1. Init => IInv
  BY InitKeepsRings
<1>2. ASSUME IInv, [Next]_vars PROVE IInv'
  <2>1. CASE Next
    BY <1>2, <2>1, StepKeepsRings
  <2>2. CASE UNCHANGED vars
    BY <1>2, <2>2 DEF vars, IInv, Sequences
  <2> QED BY <1>2, <2>1, <2>2
<1> QED
  BY <1>1, <1>2, PTL DEF Spec

-----------------------------------------------------------------------------
(***************************************************************************)
(* The fields of nodes and queues keep their types, for any number of      *)
(* nodes and queues: enqueue_element, move_node, isolate_node and          *)
(* dequeue_element store no pointer but to a node, or NULL.                *)
(***************************************************************************)
THEOREM QueueTypeCorrect == Spec => []TypeOK
<1>1. IInv => TypeOK
  BY InvariantMeansRings
<1> QED
  BY <1>1, InvariantHolds, PTL

(***************************************************************************)
(* The rings stay intact: both directions of the links, head, tail and     *)
(* size agree after every call of enqueue_element, move_node, isolate_node *)
(* and dequeue_element, no node is linked twice, and none gets lost.       *)
(***************************************************************************)
THEOREM RingsStayIntact == Spec => []RingsIntact
<1>1. IInv => RingsIntact
  BY InvariantMeansRings
<1> QED
  BY <1>1, InvariantHolds, PTL

(***************************************************************************)
(* queue.c implements first-in first-out sequences: the sequences on which *)
(* the operators of TaskQueues, and with them the scheduler's model, work. *)
(***************************************************************************)
THEOREM QueueImplementsOrder == Spec => ImplementsOrder
<1>1. Init => Order!Init
  BY InitKeepsRings
<1>2. ASSUME IInv, [Next]_vars
      PROVE  [Order!Next]_([q \in Queue |-> Contents(heap, q)])
  <2>1. CASE Next
    BY <1>2, <2>1, StepKeepsRings
  <2>2. CASE UNCHANGED vars
    BY <2>2 DEF vars
  <2> QED BY <1>2, <2>1, <2>2
<1> QED
  BY <1>1, <1>2, InvariantHolds, PTL DEF Spec, ImplementsOrder, Order!Spec
=============================================================================
