------------------------------- MODULE Defrag -------------------------------
(***************************************************************************)
(* defrag of os/src/memory.c, which merges neighbouring free chunks, and   *)
(* the quicksort it calls (os/src/data/quicksort.c), as functions of a     *)
(* table.  Nothing in the repository calls defrag, so there is no action:  *)
(* the functions are checked against what they should compute from the     *)
(* tables the allocator reaches.  Indices start at 1.                      *)
(***************************************************************************)
EXTENDS Allocator, FiniteSets, Functions

(* offset_comparator shifts a signed word: offsets from 32 KB on are        *)
(* negative.                                                               *)
Signed16(n) == IF n >= 32768 THEN n - 65536 ELSE n
OffsetOrder(a, b) == Signed16(a.offset) <= Signed16(b.offset)

Swapped(A, i, j) == [A EXCEPT ![i] = A[j], ![j] = A[i]]

\* One iteration of the partition: an entry not beyond the pivot moves to the
\* front, behind the i entries that have moved.
Partitioned(s, j, pivot) ==
  IF OffsetOrder(s.A[j], pivot) THEN [A |-> Swapped(s.A, s.i + 1, j), i |-> s.i + 1] ELSE s

(* Mutant: i starts at lo.                                                  *)
MakePartition_SkipsFirst(A, lo, hi) ==
  LET loop[j \in lo..hi] ==
        IF j = lo THEN [A |-> A, i |-> lo] ELSE Partitioned(loop[j - 1], j - 1, A[hi])
  IN  [A |-> Swapped(loop[hi].A, loop[hi].i, hi), p |-> loop[hi].i]

\* loop[j] is the state before the iteration for j; the pivot is A[hi].
MakePartition(A, lo, hi) ==
  LET loop[j \in lo..hi] ==
        IF j = lo THEN [A |-> A, i |-> lo - 1] ELSE Partitioned(loop[j - 1], j - 1, A[hi])
  IN  [A |-> Swapped(loop[hi].A, loop[hi].i + 1, hi), p |-> loop[hi].i + 1]

(* sort is quicksortR on any part of an array with the entries of A.        *)
Quicksort(A, lo, hi) ==
  LET Parts == [A : [DOMAIN A -> {A[i] : i \in DOMAIN A}], lo : 1..(hi + 1), hi : 0..hi]
      sort[part \in Parts] ==
        IF part.lo >= part.hi THEN part.A
        ELSE LET m == MakePartition(part.A, part.lo, part.hi)
                 left == sort[[A |-> m.A, lo |-> part.lo, hi |-> m.p - 1]]
             IN  sort[[A |-> left, lo |-> m.p + 1, hi |-> part.hi]]
  IN  sort[[A |-> A, lo |-> lo, hi |-> hi]]

-----------------------------------------------------------------------------
(* The entries before the first one that has never been used; a table       *)
(* without one would be left behind by the loop.                           *)
Used(t) == Min({i \in DOMAIN t : t[i] = Unused}) - 1

\* The end of the free entries that follow base.
EndOfGap(t, base, used) == Min({i \in base + 1..used : t[i].occupied} \cup {used + 1})

\* Bit by bit, in the 16 bits of an offset.
BitOr(a, b) ==
  LET low[k \in 0..16] ==
        IF k = 0 THEN [sum |-> 0, weight |-> 1]
        ELSE LET w == low[k - 1].weight
                 set == (a \div w) % 2 = 1 \/ (b \div w) % 2 = 1
             IN  [sum |-> low[k - 1].sum + IF set THEN w ELSE 0, weight |-> 2 * w]
  IN  low[16].sum

(* The new size is or-ed into the entry without a mask: what its 15 bits    *)
(* cannot hold goes into the offset.                                       *)
WithSize(entry, size) ==
  [offset |-> IF size <= 32767 THEN entry.offset ELSE BitOr(entry.offset, size \div 32768),
   size |-> size % 32768, occupied |-> FALSE]

\* new_size: the sum of the sizes from base to end, without end.
NewSize(t, base, end) ==
  LET sum[k \in base..end] == IF k = base THEN 0 ELSE sum[k - 1] + t[k - 1].size
  IN  sum[end]

(* Mutant: the entry behind the gap is lost.                                *)
Merge_LosesEntry(t, base, end, used) ==
  [i \in DOMAIN t |->
     CASE i = base -> WithSize(t[i], NewSize(t, base, end))
       [] i \in base + 1..used -> t[end + i - base]
       [] OTHER -> t[i]]

\* The gap becomes one entry and the entries behind it move up, from as far
\* beyond the used ones as the gap was long.
Merge(t, base, end, used) ==
  [i \in DOMAIN t |->
     CASE i = base -> WithSize(t[i], NewSize(t, base, end))
       [] i \in base + 1..used -> t[end + i - base - 1]
       [] OTHER -> t[i]]

MergedAt(t, base, used) ==
  LET end == EndOfGap(t, base, used)
  IN  IF t[base].occupied \/ t[base] = Unused \/ end = base + 1 THEN t
      ELSE Merge(t, base, end, used)

DefragTable(t) ==
  LET used == Used(t)
      loop[base \in 0..used] ==
        IF base = 0 THEN Quicksort(t, 1, used)
        ELSE IF base = used THEN loop[base - 1]
        ELSE MergedAt(loop[base - 1], base, used)
  IN  loop[used]

-----------------------------------------------------------------------------
(* Properties of the functions, stated of every table the allocator reaches. *)

Orders == Bijection(Slots, Slots)

\* quicksort sorts the entries of the table by their offsets, whatever order
\* they are in and when several have the same, and loses none.
QuicksortSorts ==
  \A order \in Orders :
    LET before == [i \in Slots |-> table[order[i]]]
        after == Quicksort(before, 1, NUM_OF_SLOTS)
        Occurrences(A, entry) == Cardinality({i \in Slots : A[i] = entry})
    IN  /\ \A i, j \in Slots : i <= j => OffsetOrder(after[i], after[j])
        /\ \A i \in Slots : Occurrences(after, table[i]) = Occurrences(table, table[i])

(* The table with as many unused entries behind it: defrag reads beyond a   *)
(* table that has no room left.                                            *)
WithRoom == [i \in 1..(2 * NUM_OF_SLOTS + 1) |-> IF i \in Slots THEN table[i] ELSE Unused]

\* While the table can describe its chunks, and when the last used one is
\* occupied and starts below 32 KB, from where on the comparator's words are
\* negative, defrag leaves every block its callers hold on an occupied chunk
\* that is big enough, no two free chunks side by side, and the chunks still
\* following one another without a hole.
DefragKeepsBlocks ==
  LET used == Used(WithRoom)
      d == DefragTable(WithRoom)
  IN  TableFits /\ used > 0 /\ table[used].occupied /\ table[used].offset < 32768 =>
        /\ \A b \in held : \E i \in 1..Used(d) :
             d[i].occupied /\ d[i].offset = b.address /\ d[i].size >= b.length
        /\ \A i \in 1..(Used(d) - 1) :
             /\ d[i].occupied \/ d[i + 1].occupied
             /\ d[i + 1].offset = d[i].offset + d[i].size
        /\ \A i \in DOMAIN d : i > Used(d) => d[i] = Unused
=============================================================================
