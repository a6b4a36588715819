-------------------------- MODULE TaskQueuesProofs --------------------------
(***************************************************************************)
(* Lemmas about the operators of TaskQueues: what isolate_node, move_node, *)
(* wakeup_pid and a walk along the ring do to the contents of a queue.     *)
(***************************************************************************)
EXTENDS TaskQueues, SequenceTheorems, WellFoundedInduction, TLAPS

(***************************************************************************)
(* A nonempty set of positions has a first one: the first match that       *)
(* wakeup_pid, switch_task, allocate or deallocate looks for exists.       *)
(***************************************************************************)
LEMMA MinInSet ==
  ASSUME NEW S \in SUBSET Nat, S # {}
  PROVE  Min(S) \in S /\ \A x \in S : Min(S) <= x
<1>1. \E n \in S : \A m \in S : n <= m
  <2> DEFINE Less == {ss \in Nat \X Nat : ss[1] < ss[2]}
  <2>1. OpToRel(<, Nat) = Less
    BY DEF OpToRel
  <2>2. IsWellFoundedOn(Less, Nat)
    BY <2>1, NatLessThanWellFounded
  <2> HIDE DEF Less
  <2>3. \E n \in S : \A m \in S : ~(<<m, n>> \in Less)
    BY <2>2, WFMin
  <2>4. PICK n \in S : \A m \in S : ~(<<m, n>> \in Less)
    BY <2>3
  <2>5. ASSUME NEW m \in S PROVE ~(m < n)
    <3>1. m \in Nat /\ n \in Nat
      OBVIOUS
    <3>2. (<<m, n>> \in Less) <=> (m < n)
      BY <3>1 DEF Less
    <3> QED BY <2>4, <3>2
  <2>6. \A m \in S : n <= m
    BY <2>5
  <2> QED BY <2>6
<1> QED
  BY <1>1 DEF Min

(* A task of a queue is found at its position. *)
LEMMA IndexOfMember ==
  ASSUME NEW S, NEW s \in Seq(S), NEW t \in ToSet(s)
  PROVE  IndexOf(s, t) \in 1..Len(s) /\ s[IndexOf(s, t)] = t
<1>1. \E i \in DOMAIN s : s[i] = t
  BY DEF ToSet
<1> QED
  BY <1>1 DEF IndexOf

(* isolate_node closes the gap: what was behind the node moves up by one. *)
LEMMA IsolateElements ==
  ASSUME NEW S, NEW s \in Seq(S), NEW t \in ToSet(s)
  PROVE  /\ Isolate(s, t) \in Seq(S)
         /\ Len(Isolate(s, t)) = Len(s) - 1
         /\ \A i \in 1..(Len(s) - 1) :
              Isolate(s, t)[i] = IF i < IndexOf(s, t) THEN s[i] ELSE s[i + 1]
<1> DEFINE k == IndexOf(s, t)
           n == Len(s)
           r == Isolate(s, t)
<1>0. k \in 1..n /\ s[k] = t /\ n \in Nat
  BY IndexOfMember
<1>1. /\ SubSeq(s, 1, k - 1) \in Seq(S) /\ Len(SubSeq(s, 1, k - 1)) = k - 1
      /\ \A i \in 1..(k - 1) : SubSeq(s, 1, k - 1)[i] = s[i]
  BY <1>0
<1>2. /\ SubSeq(s, k + 1, n) \in Seq(S) /\ Len(SubSeq(s, k + 1, n)) = n - k
      /\ \A i \in 1..(n - k) : SubSeq(s, k + 1, n)[i] = s[k + i]
  BY <1>0
<1> HIDE DEF k
<1>3. r = SubSeq(s, 1, k - 1) \o SubSeq(s, k + 1, n)
  BY DEF Isolate, RemoveAt, k
<1> HIDE DEF r, n
<1>4. r \in Seq(S) /\ Len(r) = n - 1
  BY <1>0, <1>1, <1>2, <1>3
<1>5. ASSUME NEW i \in 1..(n - 1) PROVE r[i] = IF i < k THEN s[i] ELSE s[i + 1]
  <2>1. CASE i < k
    BY <1>0, <1>1, <1>2, <1>3, <2>1
  <2>2. CASE i >= k
    <3> DEFINE a == SubSeq(s, 1, k - 1)
               b == SubSeq(s, k + 1, n)
    <3> HIDE DEF a, b
    <3>1. r[i] = b[i - (k - 1)]
      <4>1. a \in Seq(S) /\ Len(a) = k - 1 /\ b \in Seq(S) /\ Len(b) = n - k
        BY <1>1, <1>2 DEF a, b
      <4>2. r = a \o b
        BY <1>3 DEF a, b
      <4>3. i \in 1..(Len(a) + Len(b)) /\ ~(i \in 1..Len(a))
        BY <1>0, <2>2, <4>1
      <4>4. (a \o b)[i] = b[i - Len(a)]
        BY <4>1, <4>3, ConcatProperties
      <4> QED BY <4>1, <4>2, <4>4
    <3>2. i - (k - 1) \in 1..(n - k) /\ k + (i - (k - 1)) = i + 1
      BY <1>0, <2>2
    <3> QED BY <1>0, <1>2, <2>2, <3>1, <3>2 DEF b
  <2> QED BY <1>0, <2>1, <2>2
<1> QED BY <1>4, <1>5 DEF k, n, r

(* isolate_node removes the node it is given and no other. *)
LEMMA IsolateRemoves ==
  ASSUME NEW S, NEW s \in Seq(S), IsInjective(s), NEW t \in ToSet(s)
  PROVE  /\ Isolate(s, t) \in Seq(S)
         /\ Len(Isolate(s, t)) = Len(s) - 1
         /\ IsInjective(Isolate(s, t))
         /\ ToSet(Isolate(s, t)) = ToSet(s) \ {t}
<1> DEFINE k == IndexOf(s, t)
           n == Len(s)
           r == Isolate(s, t)
<1>1. k \in 1..n /\ s[k] = t /\ n \in Nat
  BY IndexOfMember
<1>2. /\ r \in Seq(S)
      /\ Len(r) = n - 1
      /\ \A i \in 1..(n - 1) : r[i] = IF i < k THEN s[i] ELSE s[i + 1]
  BY IsolateElements
<1> HIDE DEF k, r
<1>3. IsInjective(r)
  <2>1. DOMAIN r = 1..(n - 1) /\ DOMAIN s = 1..n
    BY <1>2
  <2> SUFFICES ASSUME NEW i \in 1..(n - 1), NEW j \in 1..(n - 1), r[i] = r[j]
               PROVE  i = j
    BY <2>1 DEF IsInjective
  <2>2. \A x, y \in 1..n : s[x] = s[y] => x = y
    BY <2>1 DEF IsInjective
  <2> QED BY <1>1, <1>2, <2>2
<1>4. ToSet(r) \subseteq ToSet(s) \ {t}
  BY <1>1, <1>2 DEF ToSet, IsInjective
<1>5. ASSUME NEW x \in ToSet(s), x # t PROVE x \in ToSet(r)
  <2>1. PICK i \in 1..n : s[i] = x
    BY DEF ToSet
  <2>2. CASE i < k
    BY <1>1, <1>2, <2>1, <2>2 DEF ToSet
  <2>3. CASE i > k
    <3>1. i - 1 \in 1..(n - 1) /\ r[i - 1] = s[i]
      BY <1>1, <1>2, <2>3
    <3> QED BY <1>2, <2>1, <3>1 DEF ToSet
  <2> QED BY <1>1, <1>5, <2>1, <2>2, <2>3
<1> QED
  BY <1>2, <1>3, <1>4, <1>5 DEF r

(* move_node and enqueue_element add the node at the tail. *)
LEMMA AppendAdds ==
  ASSUME NEW S, NEW s \in Seq(S), IsInjective(s), NEW t \in S, t \notin ToSet(s)
  PROVE  /\ Append(s, t) \in Seq(S)
         /\ Len(Append(s, t)) = Len(s) + 1
         /\ IsInjective(Append(s, t))
         /\ ToSet(Append(s, t)) = ToSet(s) \cup {t}
<1> DEFINE r == Append(s, t)
           n == Len(s)
<1>1. /\ r \in Seq(S) /\ Len(r) = n + 1 /\ n \in Nat
      /\ r[n + 1] = t /\ \A i \in 1..n : r[i] = s[i]
  OBVIOUS
<1> HIDE DEF r
<1>2. IsInjective(r)
  BY <1>1 DEF IsInjective, ToSet
<1>3. ToSet(r) = ToSet(s) \cup {t}
  <2>1. ASSUME NEW x \in ToSet(r) PROVE x \in ToSet(s) \cup {t}
    BY <1>1 DEF ToSet
  <2>2. ASSUME NEW x \in ToSet(s) PROVE x \in ToSet(r)
    BY <1>1 DEF ToSet
  <2>3. t \in ToSet(r)
    BY <1>1 DEF ToSet
  <2> QED BY <2>1, <2>2, <2>3
<1> QED
  BY <1>1, <1>2, <1>3 DEF r

(* Following node->next from a node of a ring stays in the ring ... *)
LEMMA RingNextMember ==
  ASSUME NEW S, NEW s \in Seq(S), NEW t \in ToSet(s), NEW d \in 0..Len(s)
  PROVE  RingNext(s, t, d) \in ToSet(s)
<1>1. IndexOf(s, t) \in 1..Len(s)
  BY IndexOfMember
<1> QED
  BY <1>1 DEF RingNext, ToSet

(* ... and leaves the node unless it goes all the way round. *)
LEMMA RingNextOther ==
  ASSUME NEW S, NEW s \in Seq(S), IsInjective(s), NEW t \in ToSet(s),
         NEW d \in 1..(Len(s) - 1)
  PROVE  RingNext(s, t, d) # t
<1>1. IndexOf(s, t) \in 1..Len(s) /\ s[IndexOf(s, t)] = t
  BY IndexOfMember
<1> QED
  BY <1>1 DEF RingNext, IsInjective

=============================================================================
