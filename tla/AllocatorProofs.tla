-------------------------- MODULE AllocatorProofs ---------------------------
(***************************************************************************)
(* As long as the table can describe its chunks (TableFits), they are laid *)
(* out one behind the other, so the blocks it hands out never overlap.     *)
(* After that the functions of Defrag: quicksort sorts, and defrag keeps   *)
(* what the callers hold.  What is recursive is taken apart by the least   *)
(* part, base or index that would go wrong; the lemma that there is one is *)
(* that of TaskQueuesProofs.                                               *)
(***************************************************************************)
EXTENDS Defrag, TaskQueuesProofs, FiniteSetTheorems

InUse(i) == table[i].size # DefaultSize
End(i) == table[i].offset + table[i].size

(* The used slots come first, and their chunks follow each other without a gap. *)
ChunksInARow ==
  /\ \A i \in Slots : ~InUse(i) => table[i] = Unused
  /\ \A i, j \in Slots : i < j /\ InUse(j) => InUse(i) /\ End(i) <= table[j].offset
  /\ \A i \in Slots : InUse(i) => table[i].offset = IF i = 1 THEN 0 ELSE End(i - 1)

(* No chunk is empty, and none ends beyond what an offset can say. *)
ChunksFit ==
  \A i \in Slots : InUse(i) => 1 <= table[i].size /\ End(i) <= 65536

(* Held blocks and occupied chunks correspond by their addresses. *)
BlocksAreChunks ==
  /\ \A b \in held : \E i \in Slots : /\ table[i].occupied /\ InUse(i)
                                      /\ table[i].offset = b.address
                                      /\ table[i].size >= b.length
  /\ \A b, c \in held : b.address = c.address => b = c
  /\ \A i \in Slots : table[i].occupied =>
       InUse(i) /\ \E b \in held : b.address = table[i].offset

(* What holds as long as the table can describe its chunks, ... *)
Laid == TypeOK /\ ChunksInARow /\ ChunksFit /\ BlocksAreChunks

(* ... and whatever happens: used slots come first. *)
UsedFirst ==
  /\ \A i \in Slots : ~InUse(i) => table[i] = Unused
  /\ \A i, j \in Slots : i < j /\ InUse(j) => InUse(i)

IInv == TypeOK /\ UsedFirst /\ (TableFits => Laid)

-----------------------------------------------------------------------------
(* What fits into a bit field. *)
LEMMA BitFields ==
  /\ \A x : x \in Offsets <=> x \in Nat /\ x <= 65535
  /\ \A x : x \in Sizes <=> x \in Nat /\ x <= 32767
<1>1. \A n \in Nat : \A x : x \in 0..n <=> x \in Nat /\ x <= n
  OBVIOUS
<1> DEFINE max == 65535
<1>2. max \in Nat
  OBVIOUS
<1>3. \A x : x \in 0..max <=> x \in Nat /\ x <= max
  <2> HIDE DEF max
  <2> QED BY <1>1, <1>2, Zenon
<1> DEFINE maxSize == 32767
<1>4. maxSize \in Nat
  OBVIOUS
<1>5. \A x : x \in 0..maxSize <=> x \in Nat /\ x <= maxSize
  <2> HIDE DEF maxSize
  <2> QED BY <1>1, <1>4, Zenon
<1>6. Offsets = 0..max /\ Sizes = 0..maxSize
  BY DEF Offsets, Sizes
<1> HIDE DEF max, maxSize
<1>7. /\ \A x : x \in Offsets <=> x \in Nat /\ x <= max
      /\ \A x : x \in Sizes <=> x \in Nat /\ x <= maxSize
  BY <1>3, <1>5, <1>6, Zenon
<1> QED
  BY <1>7 DEF max, maxSize

-----------------------------------------------------------------------------
(* The loops that add up sizes: sum[k] is the sum of the first k sizes. *)
Adds(sum, n, size) ==
  /\ sum \in [0..n -> Nat] /\ sum[0] = 0
  /\ \A k \in 1..n : sum[k] = sum[k - 1] + size[k]

LEMMA SumExists ==
  ASSUME NEW n \in Nat, NEW size \in [1..n -> Nat]
  PROVE  \E sum : Adds(sum, n, size)
<1> DEFINE Wrong == {m \in 0..n : ~ \E f : Adds(f, m, size)}
<1>1. SUFFICES ASSUME Wrong # {} PROVE FALSE
  <2>1. n \in 0..n
    OBVIOUS
  <2> QED BY <1>1, <2>1
<1> DEFINE m == Min(Wrong)
           j == m - 1
<1>2. m \in Wrong /\ \A k \in Wrong : m <= k
  <2>1. Wrong \in SUBSET Nat
    OBVIOUS
  <2> HIDE DEF Wrong
  <2> QED BY <1>1, <2>1, MinInSet
<1> HIDE DEF m
<1>3. m \in 0..n /\ ~ \E f : Adds(f, m, size)
  BY <1>2
<1>4. m # 0
  <2>1. Adds([k \in 0..0 |-> 0], 0, size)
    BY DEF Adds
  <2> QED BY <1>3, <2>1
<1>5. j \in 0..n /\ j \in Nat /\ m = j + 1 /\ ~(m <= j) /\ m \in 1..n
  BY <1>3, <1>4
<1> HIDE DEF j
<1>6. PICK f : Adds(f, j, size)
  BY <1>2, <1>5
<1> DEFINE h == [k \in 0..m |-> IF k = m THEN f[j] + size[m] ELSE f[k]]
<1>7. h \in [0..m -> Nat]
  <2>1. f[j] \in Nat /\ size[m] \in Nat
    BY <1>5, <1>6 DEF Adds
  <2>2. \A k \in 0..m : k # m => f[k] \in Nat
    BY <1>5, <1>6 DEF Adds
  <2> QED BY <2>1, <2>2
<1>8. h[0] = 0
  BY <1>5, <1>6 DEF Adds
<1>9. ASSUME NEW k \in 1..m PROVE h[k] = h[k - 1] + size[k]
  <2>1. CASE k = m
    BY <1>5, <2>1
  <2>2. CASE k # m
    <3>1. k \in 1..j /\ k \in 0..m /\ k - 1 \in 0..m /\ k - 1 # m
      BY <1>5, <2>2
    <3>2. h[k] = f[k] /\ h[k - 1] = f[k - 1]
      BY <2>2, <3>1
    <3> QED BY <1>6, <3>1, <3>2 DEF Adds
  <2> QED BY <2>1, <2>2
<1>10. Adds(h, m, size)
  <2> HIDE DEF h
  <2> QED BY <1>7, <1>8, <1>9 DEF Adds
<1> QED
  BY <1>3, <1>10

(* The function a loop of the module defines is such a sum. *)
LEMMA LoopAdds ==
  ASSUME NEW n \in Nat, NEW size \in [1..n -> Nat]
  PROVE  Adds(CHOOSE f : f = [k \in 0..n |-> IF k = 0 THEN 0 ELSE f[k - 1] + size[k]], n, size)
<1> DEFINE Is(f) == f = [k \in 0..n |-> IF k = 0 THEN 0 ELSE f[k - 1] + size[k]]
           sum == CHOOSE f : Is(f)
<1>1. PICK g : Adds(g, n, size)
  BY SumExists
<1>2. Is(g)
  <2>1. g \in [0..n -> Nat] /\ g[0] = 0
    BY <1>1 DEF Adds
  <2>2. \A k \in 0..n : k # 0 => g[k] = g[k - 1] + size[k]
    BY <1>1 DEF Adds
  <2>3. \A k \in 0..n : g[k] = IF k = 0 THEN 0 ELSE g[k - 1] + size[k]
    BY <2>1, <2>2
  <2> QED BY <2>1, <2>3
<1>3. Is(sum)
  <2> HIDE DEF Is
  <2> QED BY <1>2
<1> HIDE DEF sum
<1>4. sum[0] = 0 /\ \A k \in 1..n : sum[k] = sum[k - 1] + size[k]
  BY <1>3
<1> DEFINE Differ == {k \in 0..n : sum[k] # g[k]}
<1>5. Differ = {}
  <2> SUFFICES ASSUME Differ # {} PROVE FALSE
    OBVIOUS
  <2> DEFINE k == Min(Differ)
  <2>1. k \in Differ /\ \A x \in Differ : k <= x
    <3>1. Differ \in SUBSET Nat
      OBVIOUS
    <3> HIDE DEF Differ
    <3> QED BY <3>1, MinInSet
  <2> HIDE DEF k
  <2>2. k \in 0..n /\ sum[k] # g[k] /\ k # 0
    BY <1>1, <1>4, <2>1 DEF Adds
  <2>3. k \in 1..n /\ k - 1 \in 0..n /\ ~(k <= k - 1)
    BY <2>2
  <2>4. sum[k - 1] = g[k - 1]
    BY <2>1, <2>3
  <2> QED BY <1>1, <1>4, <2>2, <2>3, <2>4 DEF Adds
<1>6. DOMAIN sum = 0..n
  BY <1>3
<1>7. sum = [k \in 0..n |-> sum[k]]
  BY <1>3
<1>8. sum \in [0..n -> Nat]
  <2>1. \A k \in 0..n : sum[k] = g[k] /\ g[k] \in Nat
    BY <1>1, <1>5 DEF Adds
  <2> HIDE DEF Is
  <2> QED BY <1>7, <2>1
<1> QED
  BY <1>4, <1>8 DEF Adds, sum

(* Larger sizes have larger sums. *)
LEMMA SumsCompare ==
  ASSUME NEW n \in Nat, NEW f, NEW a, Adds(f, n, a),
         NEW m \in Nat, NEW g, NEW b, Adds(g, m, b), NEW last \in Nat, last <= n, last <= m,
         \A k \in 1..last : a[k] \in Nat /\ b[k] \in Nat /\ a[k] <= b[k]
  PROVE  f[last] <= g[last]
<1> DEFINE Wrong == {k \in 0..last : ~(f[k] <= g[k])}
<1>1. SUFFICES ASSUME Wrong # {} PROVE FALSE
  <2>1. last \in 0..last
    OBVIOUS
  <2> QED BY <1>1, <2>1
<1> DEFINE k == Min(Wrong)
<1>2. k \in Wrong /\ \A x \in Wrong : k <= x
  <2>1. Wrong \in SUBSET Nat
    OBVIOUS
  <2> HIDE DEF Wrong
  <2> QED BY <1>1, <2>1, MinInSet
<1> HIDE DEF k
<1>3. k \in 0..last /\ ~(f[k] <= g[k])
  BY <1>2
<1>4. k # 0
  BY <1>3 DEF Adds
<1>5. k \in 1..last /\ k \in 1..n /\ k \in 1..m /\ k - 1 \in 0..last /\ k - 1 \in 0..n /\ k - 1 \in 0..m
      /\ ~(k <= k - 1)
  BY <1>3, <1>4
<1>6. f[k - 1] <= g[k - 1]
  BY <1>2, <1>5
<1>7. f[k] = f[k - 1] + a[k] /\ g[k] = g[k - 1] + b[k] /\ f[k - 1] \in Nat /\ g[k - 1] \in Nat
  BY <1>5 DEF Adds
<1> QED
  BY <1>3, <1>5, <1>6, <1>7

(* A sum only grows. *)
LEMMA SumGrows ==
  ASSUME NEW n \in Nat, NEW f, NEW a \in [1..n -> Nat], Adds(f, n, a), NEW i \in 0..n
  PROVE  f[i] <= f[n] /\ f[i] \in Nat
<1> DEFINE Wrong == {k \in Nat : k <= n /\ i <= k /\ ~(f[i] <= f[k])}
<1>1. f[i] \in Nat
  BY DEF Adds
<1>2. SUFFICES ASSUME Wrong # {} PROVE FALSE
  <2>1. n \notin Wrong
    BY <1>2
  <2> QED BY <1>1, <2>1
<1> DEFINE k == Min(Wrong)
<1>3. k \in Wrong /\ \A x \in Wrong : k <= x
  <2>1. Wrong \in SUBSET Nat
    OBVIOUS
  <2> HIDE DEF Wrong
  <2> QED BY <1>2, <2>1, MinInSet
<1> HIDE DEF k
<1>4. k \in Nat /\ k <= n /\ i <= k /\ ~(f[i] <= f[k])
  BY <1>3
<1>5. k # i
  BY <1>1, <1>4
<1>6. k \in 1..n /\ k - 1 \in Nat /\ k - 1 <= n /\ i <= k - 1 /\ ~(k <= k - 1) /\ k - 1 \in 0..n
  BY <1>4, <1>5
<1>7. f[i] <= f[k - 1]
  BY <1>3, <1>6
<1>8. f[k] = f[k - 1] + a[k] /\ f[k - 1] \in Nat /\ a[k] \in Nat
  BY <1>6 DEF Adds
<1> QED
  BY <1>1, <1>4, <1>7, <1>8

(* Multiples of eight add up to a multiple of eight. *)
LEMMA SumOfEights ==
  ASSUME NEW n \in Nat, NEW f, NEW a \in [1..n -> Nat], Adds(f, n, a), \A k \in 1..n : a[k] % 8 = 0
  PROVE  f[n] \in Nat /\ f[n] % 8 = 0
<1> DEFINE Wrong == {k \in 0..n : f[k] % 8 # 0}
<1>1. f[n] \in Nat
  BY DEF Adds
<1>2. SUFFICES ASSUME Wrong # {} PROVE FALSE
  <2>1. n \in 0..n
    OBVIOUS
  <2>2. n \notin Wrong
    BY <1>2
  <2> QED BY <1>1, <2>1, <2>2
<1> DEFINE k == Min(Wrong)
<1>3. k \in Wrong /\ \A x \in Wrong : k <= x
  <2>1. Wrong \in SUBSET Nat
    OBVIOUS
  <2> HIDE DEF Wrong
  <2> QED BY <1>2, <2>1, MinInSet
<1> HIDE DEF k
<1>4. k \in 0..n /\ f[k] % 8 # 0
  BY <1>3
<1>5. k # 0
  BY <1>4 DEF Adds
<1>6. k \in 1..n /\ k - 1 \in 0..n /\ ~(k <= k - 1)
  BY <1>4, <1>5
<1>7. f[k - 1] % 8 = 0
  BY <1>3, <1>6
<1>8. f[k] = f[k - 1] + a[k] /\ f[k - 1] \in Nat /\ a[k] \in Nat /\ a[k] % 8 = 0
  BY <1>6 DEF Adds
<1>9. \A x, y \in Nat : x % 8 = 0 /\ y % 8 = 0 => (x + y) % 8 = 0
  OBVIOUS
<1> QED
  BY <1>4, <1>7, <1>8, <1>9

(* The rounding in allocate never cuts a request short, unless nothing is  *)
(* left of the size.                                                       *)
LEMMA Rounding ==
  ASSUME NEW size \in Nat, SizeAccepted(size), WordAligned(size) <= 32767
  PROVE  LET need == WordAligned(size)
         IN  /\ need \in Nat /\ 1 <= need /\ size <= need
             /\ ChunkSize(need) \in Nat /\ ChunkSize(need) <= 32760
             /\ ChunkSize(need) % 8 = 0
             /\ ChunkSize(need) # 0 => need <= ChunkSize(need)
<1> DEFINE need == WordAligned(size)
           w == (size + 3) \div 4
           d == (need + 7) \div 8
<1>1. w \in Nat /\ 4 * w <= size + 3 /\ size + 3 < 4 * w + 4
  BY DEF SizeAccepted
<1>2. need = 4 * w
  BY <1>1 DEF WordAligned
<1> HIDE DEF w, need
<1>3. need \in Nat /\ 1 <= need /\ need <= 32767 /\ size <= need
  BY <1>1, <1>2 DEF SizeAccepted, need
<1>4. d \in Nat /\ 8 * d <= need + 7 /\ need + 7 < 8 * d + 8
  BY <1>3
<1>5. 8 * d <= need + 4
  BY <1>2, <1>1, <1>4
<1>6. ChunkSize(need) = (8 * d) % 32768
  BY <1>4 DEF ChunkSize
<1> HIDE DEF d
<1>7. d \in Nat /\ d <= 4096 /\ need <= 8 * d
  BY <1>2, <1>1, <1>3, <1>4, <1>5
<1>8. CASE d = 4096
  BY <1>3, <1>6, <1>8 DEF need
<1>9. CASE d # 4096
  <2>1. 8 * d \in Nat /\ 8 * d <= 32760
    BY <1>7, <1>9
  <2>2. /\ \A x \in Nat : x < 32768 => x % 32768 = x
        /\ \A x \in Nat : (8 * x) % 8 = 0
    OBVIOUS
  <2>3. ChunkSize(need) = 8 * d /\ ChunkSize(need) % 8 = 0
    BY <1>4, <1>6, <2>1, <2>2
  <2> QED BY <1>3, <1>7, <2>1, <2>3 DEF need
<1> QED
  BY <1>8, <1>9

(***************************************************************************)
(* The loop of allocate adds up the chunks it passes: when all slots       *)
(* before i are used, next_useable_chunk is the end of the last of them.   *)
(***************************************************************************)
LEMMA LoopFindsEnd ==
  ASSUME AllocatorAssumption, TypeOK, ChunksInARow, NEW i \in Slots,
         \A k \in 1..(i - 1) : InUse(k)
  PROVE  NextUseableChunk(i) = IF i = 1 THEN 0 ELSE End(i - 1)
<1> DEFINE D == 0..(i - 1)
           Sums(f) == f = [k \in D |-> IF k = 0 THEN 0 ELSE f[k - 1] + table[k].size]
           ends == [k \in D |-> IF k = 0 THEN 0 ELSE End(k)]
<1>0. i \in Nat \ {0} /\ D \subseteq Nat /\ \A k \in D : k # 0 => k \in Slots /\ k - 1 \in D
  BY DEF Slots, AllocatorAssumption
<1>1. Sums(ends)
  <2>1. ASSUME NEW k \in D, k # 0 PROVE ends[k] = ends[k - 1] + table[k].size
    <3>1. k \in Slots /\ InUse(k) /\ k - 1 \in D /\ k \in Nat
      BY <1>0, <2>1
    <3>2. table[k].offset = IF k = 1 THEN 0 ELSE End(k - 1)
      BY <3>1 DEF ChunksInARow
    <3>3. ends[k] = End(k) /\ ends[k - 1] = IF k = 1 THEN 0 ELSE End(k - 1)
      BY <2>1, <3>1
    <3> QED BY <3>2, <3>3 DEF End
  <2>2. ends[0] = 0
    BY <1>0
  <2>3. ends = [k \in D |-> IF k = 0 THEN 0 ELSE ends[k - 1] + table[k].size]
    BY <2>1, <2>2
  <2> QED BY <2>3
<1> DEFINE sum == CHOOSE f : Sums(f)
<1>2. Sums(sum)
  <2> HIDE DEF Sums, ends
  <2> QED BY <1>1
<1>3. NextUseableChunk(i) = sum[i - 1]
  BY DEF NextUseableChunk
<1> HIDE DEF sum
<1>4. \A k \in D : sum[k] = IF k = 0 THEN 0 ELSE sum[k - 1] + table[k].size
  BY <1>2
<1>5. \A k \in D : ends[k] = IF k = 0 THEN 0 ELSE ends[k - 1] + table[k].size
  BY <1>1
<1>6. \A k \in D : sum[k] = ends[k]
  <2> DEFINE Differ == {k \in D : sum[k] # ends[k]}
  <2>1. SUFFICES ASSUME Differ # {} PROVE FALSE
    OBVIOUS
  <2> DEFINE k == Min(Differ)
  <2>2. k \in Differ /\ \A x \in Differ : k <= x
    <3> HIDE DEF ends
    <3>1. Differ \in SUBSET Nat
      BY <1>0
    <3> HIDE DEF Differ
    <3> QED BY <2>1, <3>1, MinInSet
  <2> HIDE DEF k, ends
  <2>3. k \in D /\ sum[k] # ends[k]
    BY <2>2
  <2>4. k # 0
    BY <2>3, <1>4, <1>5
  <2>5. k - 1 \in D /\ k - 1 \notin Differ
    BY <1>0, <2>2, <2>3, <2>4
  <2>6. sum[k - 1] = ends[k - 1]
    BY <2>5
  <2> QED BY <2>3, <2>4, <2>6, <1>4, <1>5
<1> QED
  BY <1>0, <1>3, <1>6

-----------------------------------------------------------------------------
(* What the sums of the module are. *)
Typed(t) == t \in [Slots -> [offset : Offsets, size : Sizes, occupied : BOOLEAN]]
SizesOf(t) == [k \in Slots |-> Bytes(t[k])]

LEMMA ExtentAdds ==
  ASSUME AllocatorAssumption, NEW t, Typed(t)
  PROVE  /\ SizesOf(t) \in [Slots -> Nat]
         /\ Adds(Extent(t), NUM_OF_SLOTS, SizesOf(t))
<1> DEFINE n == NUM_OF_SLOTS
           a == SizesOf(t)
<1>0. n \in Nat /\ Slots = 1..n
  BY DEF AllocatorAssumption, Slots
<1>1. \A k \in Slots : t[k].size \in Nat
  BY BitFields DEF Typed
<1>2. a \in [1..n -> Nat]
  BY <1>0, <1>1 DEF SizesOf, Bytes
<1>3. \A k \in 1..n : a[k] = Bytes(t[k])
  BY <1>0 DEF SizesOf
<1> HIDE DEF a
<1>4. ASSUME NEW f
      PROVE  [k \in 0..n |-> IF k = 0 THEN 0 ELSE f[k - 1] + Bytes(t[k])]
             = [k \in 0..n |-> IF k = 0 THEN 0 ELSE f[k - 1] + a[k]]
  <2>1. \A k \in 0..n : k # 0 => Bytes(t[k]) = a[k]
    BY <1>0, <1>3
  <2> HIDE DEF n
  <2> QED BY <2>1
<1>5. (CHOOSE f : f = [k \in 0..n |-> IF k = 0 THEN 0 ELSE f[k - 1] + Bytes(t[k])])
      = (CHOOSE f : f = [k \in 0..n |-> IF k = 0 THEN 0 ELSE f[k - 1] + a[k]])
  BY <1>4, Zenon
<1>6. Extent(t) = CHOOSE f : f = [k \in 0..n |-> IF k = 0 THEN 0 ELSE f[k - 1] + a[k]]
  BY <1>5 DEF Extent
<1>7. Adds(Extent(t), n, a)
  BY <1>0, <1>2, <1>6, LoopAdds
<1> QED
  BY <1>0, <1>2, <1>7 DEF a

(* The address of a new chunk, before it is cut off. *)
LEMMA NextIsMultiple ==
  ASSUME AllocatorAssumption, TypeOK, NEW i \in Slots, \A k \in 1..(i - 1) : InUse(k)
  PROVE  NextUseableChunk(i) \in Nat /\ NextUseableChunk(i) % 8 = 0
<1> DEFINE n == i - 1
           a == [k \in 1..n |-> table[k].size]
<1>0. n \in Nat /\ \A k \in 1..n : k \in Slots /\ InUse(k)
  BY DEF Slots, AllocatorAssumption
<1>1. \A k \in 1..n : table[k].size \in Nat /\ table[k].size % 8 = 0
  BY <1>0, BitFields DEF TypeOK, InUse
<1> HIDE DEF n
<1>2. a \in [1..n -> Nat] /\ \A k \in 1..n : a[k] = table[k].size /\ a[k] % 8 = 0
  BY <1>1
<1> HIDE DEF a
<1>3. ASSUME NEW f
      PROVE  [k \in 0..n |-> IF k = 0 THEN 0 ELSE f[k - 1] + table[k].size]
             = [k \in 0..n |-> IF k = 0 THEN 0 ELSE f[k - 1] + a[k]]
  <2>1. \A k \in 0..n : k # 0 => table[k].size = a[k]
    BY <1>0, <1>2
  <2> QED BY <2>1
<1> DEFINE sum == CHOOSE f : f = [k \in 0..n |-> IF k = 0 THEN 0 ELSE f[k - 1] + table[k].size]
<1>4. sum = CHOOSE f : f = [k \in 0..n |-> IF k = 0 THEN 0 ELSE f[k - 1] + a[k]]
  BY <1>3, Zenon
<1>5. NextUseableChunk(i) = sum[n]
  BY DEF NextUseableChunk, n
<1> HIDE DEF sum
<1>6. Adds(sum, n, a)
  BY <1>0, <1>2, <1>4, LoopAdds
<1> QED
  BY <1>0, <1>2, <1>5, <1>6, SumOfEights

(* A chunk of a row ends where the sizes up to it add up to. *)
LEMMA ExtentIsEnd ==
  ASSUME AllocatorAssumption, TypeOK, ChunksInARow, NEW i \in Slots, InUse(i)
  PROVE  Extent(table)[i] = End(i)
<1> DEFINE n == NUM_OF_SLOTS
           a == SizesOf(table)
           sum == Extent(table)
           Wrong == {k \in Slots : k <= i /\ sum[k] # End(k)}
<1>0. n \in Nat /\ \A k : k \in Slots <=> k \in Int /\ 1 <= k /\ k <= n
  BY DEF AllocatorAssumption, Slots
<1>1. Adds(sum, n, a)
  BY ExtentAdds DEF TypeOK, Typed
<1> HIDE DEF sum, n
<1>2. SUFFICES ASSUME Wrong # {} PROVE FALSE
  BY <1>0 DEF sum
<1> DEFINE k == Min(Wrong)
<1>3. k \in Wrong /\ \A x \in Wrong : k <= x
  <2>1. Wrong \in SUBSET Nat
    BY <1>0
  <2> HIDE DEF Wrong
  <2> QED BY <1>2, <2>1, MinInSet
<1> HIDE DEF k
<1>4. k \in Slots /\ k <= i /\ sum[k] # End(k) /\ k \in Int /\ 1 <= k /\ k <= n /\ i \in Int
  BY <1>0, <1>3
<1>5. InUse(k)
  <2>1. k = i \/ k < i
    BY <1>4
  <2> QED BY <1>4, <2>1 DEF ChunksInARow
<1>6. sum[k] = sum[k - 1] + table[k].size
  <2>1. k \in 1..n
    BY <1>0, <1>4
  <2>2. sum[k] = sum[k - 1] + a[k]
    BY <1>1, <2>1 DEF Adds
  <2>3. a[k] = table[k].size
    BY <1>4, <1>5 DEF SizesOf, Bytes, InUse
  <2> QED BY <2>2, <2>3
<1>7. table[k].offset = IF k = 1 THEN 0 ELSE End(k - 1)
  BY <1>4, <1>5 DEF ChunksInARow
<1>8. CASE k = 1
  <2>1. sum[k - 1] = 0
    BY <1>1, <1>8 DEF Adds
  <2> QED BY <1>4, <1>6, <1>7, <1>8, <2>1 DEF End
<1>9. CASE k # 1
  <2>1. k - 1 \in Slots /\ k - 1 <= i /\ ~(k <= k - 1)
    BY <1>0, <1>4, <1>9
  <2>2. sum[k - 1] = End(k - 1)
    BY <1>3, <2>1
  <2> QED BY <1>4, <1>6, <1>7, <1>9, <2>2 DEF End
<1> QED
  BY <1>8, <1>9

(* So in a row that the table can describe no chunk ends beyond an offset. *)
LEMMA EndsFit ==
  ASSUME AllocatorAssumption, TypeOK, ChunksInARow, TableFits
  PROVE  ChunksFit
<1> SUFFICES ASSUME NEW i \in Slots, InUse(i) PROVE 1 <= table[i].size /\ End(i) <= 65536
  BY DEF ChunksFit
<1>0. NUM_OF_SLOTS \in Nat /\ i \in 0..NUM_OF_SLOTS /\ Slots = 1..NUM_OF_SLOTS
  BY DEF AllocatorAssumption, Slots
<1>1. SizesOf(table) \in [Slots -> Nat] /\ Adds(Extent(table), NUM_OF_SLOTS, SizesOf(table))
  BY ExtentAdds DEF TypeOK, Typed
<1>2. Extent(table)[i] <= Extent(table)[NUM_OF_SLOTS] /\ Extent(table)[i] \in Nat
  BY <1>0, <1>1, SumGrows
<1>3. Extent(table)[NUM_OF_SLOTS] \in Nat
  BY <1>0, <1>1 DEF Adds
<1>4. Extent(table)[i] = End(i)
  BY ExtentIsEnd
<1>5. table[i].size > 0 /\ table[i].size \in Nat /\ Extent(table)[NUM_OF_SLOTS] <= 65536
  BY BitFields DEF TableFits, TypeOK
<1> QED
  BY <1>2, <1>3, <1>4, <1>5

(* Chunks never go away: what fits in the end has always fitted. *)
LEMMA FittedBefore ==
  ASSUME AllocatorAssumption, TypeOK, TypeOK', TableFits',
         \A k \in Slots : Bytes(table[k]) <= Bytes(table'[k]) /\ (table'[k].size > 0 => table[k].size > 0)
  PROVE  TableFits
<1>0. NUM_OF_SLOTS \in Nat /\ Slots = 1..NUM_OF_SLOTS
  BY DEF AllocatorAssumption, Slots
<1>1. Typed(table) /\ Typed(table')
  BY DEF TypeOK, Typed
<1>2. SizesOf(table) \in [Slots -> Nat] /\ Adds(Extent(table), NUM_OF_SLOTS, SizesOf(table))
  BY <1>1, ExtentAdds
<1>3. SizesOf(table') \in [Slots -> Nat] /\ Adds(Extent(table'), NUM_OF_SLOTS, SizesOf(table'))
  BY <1>1, ExtentAdds
<1>4. \A k \in Slots : SizesOf(table)[k] <= SizesOf(table')[k]
  BY DEF SizesOf
<1>5. \A k \in 1..NUM_OF_SLOTS : /\ SizesOf(table)[k] \in Nat /\ SizesOf(table')[k] \in Nat
                                 /\ SizesOf(table)[k] <= SizesOf(table')[k]
  BY <1>0, <1>2, <1>3, <1>4
<1>6. Extent(table)[NUM_OF_SLOTS] <= Extent(table')[NUM_OF_SLOTS]
  BY <1>0, <1>2, <1>3, <1>5, SumsCompare
<1>7. Extent(table)[NUM_OF_SLOTS] \in Nat /\ Extent(table')[NUM_OF_SLOTS] \in Nat
  BY <1>0, <1>2, <1>3 DEF Adds
<1>8. Extent(table')[NUM_OF_SLOTS] <= 65536 /\ \A k \in Slots : table'[k].size > 0
  BY DEF TableFits
<1> QED
  BY <1>6, <1>7, <1>8 DEF TableFits

-----------------------------------------------------------------------------
(* deallocate finds the chunk of a block: no other used chunk starts there. *)
LEMMA BlockHasItsChunk ==
  ASSUME AllocatorAssumption, Laid, NEW b \in held
  PROVE  \E i \in Slots : /\ Matches(b.address) # {} /\ Min(Matches(b.address)) = i
                          /\ table[i].occupied /\ InUse(i)
                          /\ table[i].offset = b.address
                          /\ table[i].size >= b.length
<1>1. PICK i \in Slots : /\ table[i].occupied /\ InUse(i)
                         /\ table[i].offset = b.address
                         /\ table[i].size >= b.length
  BY DEF Laid, BlocksAreChunks
<1>2. i \in Matches(b.address) /\ Matches(b.address) \in SUBSET Nat
  BY <1>1 DEF Matches, Slots, AllocatorAssumption
<1> DEFINE j == Min(Matches(b.address))
<1>3. j \in Matches(b.address) /\ j <= i
  BY <1>2, MinInSet
<1> HIDE DEF j
<1>4. j \in Slots /\ table[j].offset = table[i].offset
  BY <1>1, <1>3 DEF Matches
<1>5. ASSUME j < i PROVE FALSE
  <2>1. InUse(j) /\ End(j) <= table[i].offset
    BY <1>1, <1>4, <1>5 DEF Laid, ChunksInARow
  <2>2. 1 <= table[j].size /\ table[j].offset \in Nat /\ table[j].size \in Nat
    BY <1>4, <2>1, BitFields DEF Laid, ChunksFit, TypeOK
  <2> QED BY <1>4, <2>1, <2>2 DEF End
<1>6. j = i
  BY <1>3, <1>4, <1>5 DEF Slots, AllocatorAssumption
<1> QED
  BY <1>1, <1>2, <1>6 DEF j

(***************************************************************************)
(* The slot allocate picks is free and big enough, all slots before it are *)
(* in use, and when it is not itself, none behind it is.                   *)
(***************************************************************************)
Chosen(size) == Min(Candidates(WordAligned(size)))
NewEntry(size) == Occupy(Chosen(size), WordAligned(size))

LEMMA ChosenSlot ==
  ASSUME AllocatorAssumption, TypeOK, UsedFirst,
         NEW size \in Requests, SizeAccepted(size), Candidates(WordAligned(size)) # {}
  PROVE  LET i == Chosen(size)
             need == WordAligned(size)
         IN  /\ i \in Slots /\ ~table[i].occupied
             /\ need \in Nat /\ need <= table[i].size /\ need <= 32767
             /\ \A k \in 1..(i - 1) : InUse(k)
             /\ ~InUse(i) => \A k \in Slots : i < k => ~InUse(k)
<1> DEFINE need == WordAligned(size)
           i == Chosen(size)
<1>0. need \in Nat
  <2>1. size \in Nat
    BY DEF AllocatorAssumption
  <2> QED BY <2>1 DEF WordAligned
<1> HIDE DEF need
<1>1. i \in Candidates(need) /\ \A x \in Candidates(need) : i <= x
  <2>1. Candidates(need) \in SUBSET Nat /\ Candidates(need) # {}
    BY DEF Candidates, Slots, AllocatorAssumption, need
  <2>2. i = Min(Candidates(need))
    BY DEF Chosen, need
  <2> QED BY <2>1, <2>2, MinInSet
<1> HIDE DEF i
<1>2. i \in Slots /\ ~table[i].occupied /\ need <= table[i].size /\ table[i].size <= 32767
  <2>1. i \in Slots /\ ~table[i].occupied /\ table[i].size >= need
    BY <1>1 DEF Candidates
  <2> QED BY <1>0, <2>1, BitFields DEF TypeOK
<1>3. need <= 32767
  <2>1. table[i].size \in Nat
    BY <1>2, BitFields DEF TypeOK
  <2> QED BY <1>0, <1>2, <2>1
<1>4. \A k \in 1..(i - 1) : InUse(k)
  <2> SUFFICES ASSUME NEW k \in 1..(i - 1), ~InUse(k) PROVE FALSE
    OBVIOUS
  <2>1. k \in Slots /\ k \in Nat /\ i \in Nat /\ k < i
    BY <1>2 DEF Slots, AllocatorAssumption
  <2>2. table[k] = Unused
    BY <2>1 DEF UsedFirst
  <2>3. k \in Candidates(need)
    BY <1>0, <1>3, <2>1, <2>2 DEF Candidates, Unused, DefaultSize
  <2> QED BY <1>1, <2>1, <2>3
<1>5. ~InUse(i) => \A k \in Slots : i < k => ~InUse(k)
  BY <1>2 DEF UsedFirst
<1> QED
  BY <1>0, <1>2, <1>3, <1>4, <1>5 DEF need, i

(***************************************************************************)
(* Whatever fits, allocate keeps the types, takes the slots in order, and  *)
(* makes no chunk smaller.                                                 *)
(***************************************************************************)
LEMMA AllocateKeepsTypes ==
  ASSUME AllocatorAssumption, TypeOK, UsedFirst, NEW size \in Requests, Allocate(size)
  PROVE  /\ TypeOK' /\ UsedFirst'
         /\ Chosen(size) \in Slots
         /\ NewEntry(size) \in [offset : Offsets, size : Sizes, occupied : BOOLEAN]
         /\ NewEntry(size).offset % 8 = 0 /\ NewEntry(size).size % 8 = 0
         /\ NewEntry(size).size # DefaultSize /\ NewEntry(size).occupied
         /\ \A k \in Slots : table'[k] = IF k = Chosen(size) THEN NewEntry(size) ELSE table[k]
         /\ TableFits' => TableFits
<1> DEFINE need == WordAligned(size)
           i == Chosen(size)
           e == NewEntry(size)
           b == [address |-> table'[i].offset, length |-> size]
<1>1. SizeAccepted(size) /\ Candidates(need) # {} /\ size \in Nat
  BY DEF Allocate, AllocatorAssumption
<1>2. /\ i \in Slots /\ ~table[i].occupied
      /\ need \in Nat /\ need <= table[i].size /\ need <= 32767
      /\ \A k \in 1..(i - 1) : InUse(k)
      /\ ~InUse(i) => \A k \in Slots : i < k => ~InUse(k)
  BY <1>1, ChosenSlot
<1>3. ChunkSize(need) \in Nat /\ ChunkSize(need) <= 32760 /\ ChunkSize(need) % 8 = 0
  BY <1>1, <1>2, Rounding
<1>4. /\ table' = [table EXCEPT ![i] = e]
      /\ held' = held \cup {b}
      /\ mutex' = "unlocked"
      /\ e = Occupy(i, need)
  BY DEF Allocate, Chosen, NewEntry
<1>5. table \in [Slots -> [offset : Offsets, size : Sizes, occupied : BOOLEAN]]
  BY DEF TypeOK
<1> HIDE DEF i, e, need
<1>6. /\ e \in [offset : Offsets, size : Sizes, occupied : BOOLEAN]
      /\ e.offset % 8 = 0 /\ e.size % 8 = 0 /\ e.size # DefaultSize /\ e.occupied
      /\ InUse(i) => e.size = table[i].size
  <2>1. CASE InUse(i)
    <3>1. e = [table[i] EXCEPT !.occupied = TRUE]
      BY <1>4, <2>1 DEF Occupy, InUse
    <3>2. table[i].offset % 8 = 0 /\ table[i].size % 8 = 0 /\ table[i].size # DefaultSize
      BY <1>2, <2>1 DEF TypeOK, InUse
    <3>3. table[i] \in [offset : Offsets, size : Sizes, occupied : BOOLEAN]
      BY <1>2, <1>5
    <3>4. /\ e.offset = table[i].offset /\ e.size = table[i].size /\ e.occupied = TRUE
          /\ e \in [offset : Offsets, size : Sizes, occupied : BOOLEAN]
      BY <3>1, <3>3
    <3> QED BY <3>2, <3>4
  <2>2. CASE ~InUse(i)
    <3> DEFINE n == NextUseableChunk(i)
    <3>1. e = [offset |-> n % 65536, size |-> ChunkSize(need), occupied |-> TRUE]
      BY <1>4, <2>2 DEF Occupy, InUse
    <3>2. n \in Nat /\ n % 8 = 0
      BY <1>2, NextIsMultiple
    <3> HIDE DEF n
    <3>3. n % 65536 \in Nat /\ n % 65536 <= 65535 /\ (n % 65536) % 8 = 0
      BY <3>2
    <3>4. ChunkSize(need) # DefaultSize /\ ChunkSize(need) <= 32767
      BY <1>3 DEF DefaultSize
    <3> QED BY <1>3, <2>2, <3>1, <3>3, <3>4, BitFields
  <2> QED BY <2>1, <2>2
<1>7. \A k \in Slots : table'[k] = IF k = i THEN e ELSE table[k]
  BY <1>4, <1>5
<1>8. TypeOK'
  <2>1. table' \in [Slots -> [offset : Offsets, size : Sizes, occupied : BOOLEAN]]
    BY <1>4, <1>5, <1>6
  <2>2. \A k \in Slots : /\ table'[k].offset % 8 = 0
                         /\ table'[k].size % 8 = 0 \/ table'[k].size = DefaultSize
    BY <1>6, <1>7 DEF TypeOK
  <2>3. b \in [address : Offsets, length : Requests]
    BY <1>2, <2>1
  <2>4. held' \subseteq [address : Offsets, length : Requests]
    <3> HIDE DEF b
    <3> QED BY <1>4, <2>3 DEF TypeOK
  <2> QED BY <1>4, <2>1, <2>2, <2>4 DEF TypeOK, LockValues
<1>9. UsedFirst'
  <2>1. ASSUME NEW k \in Slots, table'[k].size = DefaultSize PROVE table'[k] = Unused
    BY <1>6, <1>7, <2>1 DEF UsedFirst, InUse
  <2>2. ASSUME NEW k \in Slots, NEW j \in Slots, k < j, table'[j].size # DefaultSize
        PROVE  table'[k].size # DefaultSize
    <3>1. CASE k = i
      BY <1>6, <1>7, <3>1
    <3>2. CASE k # i /\ j = i
      <4>1. k \in 1..(i - 1)
        BY <2>2, <3>2 DEF Slots, AllocatorAssumption
      <4> QED BY <1>2, <1>7, <3>2, <4>1 DEF InUse
    <3>3. CASE k # i /\ j # i
      BY <1>7, <2>2, <3>3 DEF UsedFirst, InUse
    <3> QED BY <3>1, <3>2, <3>3
  <2> QED BY <2>1, <2>2 DEF UsedFirst, InUse
<1>10. TableFits' => TableFits
  <2> SUFFICES ASSUME TableFits' PROVE TableFits
    OBVIOUS
  <2>1. e.size \in Nat /\ \A k \in Slots : table[k].size \in Nat
    BY <1>5, <1>6, BitFields
  <2>2. \A k \in Slots : /\ Bytes(table[k]) <= Bytes(table'[k])
                         /\ table'[k].size > 0 => table[k].size > 0
    BY <1>6, <1>7, <2>1 DEF Bytes, InUse, DefaultSize
  <2> QED BY <1>8, <2>2, FittedBefore
<1> QED
  BY <1>2, <1>6, <1>7, <1>8, <1>9, <1>10 DEF i, e

(***************************************************************************)
(* As long as the table fits, the chosen chunk keeps the row of chunks:    *)
(* either it has its place already, or it starts where the last one ends.  *)
(***************************************************************************)
EntryFits(i, e, size) ==
  /\ e \in [offset : Offsets, size : Sizes, occupied : BOOLEAN]
  /\ e.offset % 8 = 0 /\ e.size % 8 = 0 /\ e.size # DefaultSize /\ e.occupied
  /\ size <= e.size /\ 1 <= e.size
  /\ e.offset + e.size <= 65536
  /\ e.offset = IF i = 1 THEN 0 ELSE End(i - 1)
  /\ \A k \in 1..(i - 1) : InUse(k)
  /\ InUse(i) => e.size = table[i].size
  /\ ~InUse(i) => \A k \in Slots : i < k => ~InUse(k)

LEMMA AllocateFindsRoom ==
  ASSUME AllocatorAssumption, Laid, UsedFirst, NEW size \in Requests, Allocate(size), TableFits'
  PROVE  /\ Chosen(size) \in Slots
         /\ ~table[Chosen(size)].occupied
         /\ EntryFits(Chosen(size), NewEntry(size), size)
<1> DEFINE need == WordAligned(size)
           i == Chosen(size)
           e == NewEntry(size)
<1>1. SizeAccepted(size) /\ Candidates(need) # {} /\ size \in Nat
  BY DEF Allocate, AllocatorAssumption
<1>2. TypeOK /\ ChunksInARow /\ ChunksFit
  BY DEF Laid
<1>3. /\ i \in Slots /\ ~table[i].occupied
      /\ need \in Nat /\ need <= table[i].size /\ need <= 32767
      /\ \A k \in 1..(i - 1) : InUse(k)
      /\ ~InUse(i) => \A k \in Slots : i < k => ~InUse(k)
  BY <1>1, <1>2, ChosenSlot
<1>4. /\ TypeOK'
      /\ e \in [offset : Offsets, size : Sizes, occupied : BOOLEAN]
      /\ e.offset % 8 = 0 /\ e.size % 8 = 0 /\ e.size # DefaultSize /\ e.occupied
      /\ \A k \in Slots : table'[k] = IF k = i THEN e ELSE table[k]
  BY <1>2, AllocateKeepsTypes
<1>5. /\ need \in Nat /\ 1 <= need /\ size <= need
      /\ ChunkSize(need) \in Nat /\ ChunkSize(need) <= 32760 /\ ChunkSize(need) % 8 = 0
      /\ ChunkSize(need) # 0 => need <= ChunkSize(need)
  BY <1>1, <1>3, Rounding
<1>6. e = Occupy(i, need)
  BY DEF NewEntry
<1> HIDE DEF i, e, need
<1>7. \A k \in Slots : table[k].offset \in Nat /\ table[k].size \in Nat
  BY <1>2, BitFields DEF TypeOK
<1>8. CASE InUse(i)
  <2>1. e = [table[i] EXCEPT !.occupied = TRUE]
    BY <1>6, <1>8 DEF Occupy, InUse
  <2>2. e.offset = table[i].offset /\ e.size = table[i].size
    BY <1>2, <1>3, <2>1 DEF TypeOK
  <2>3. table[i].offset = IF i = 1 THEN 0 ELSE End(i - 1)
    BY <1>2, <1>3, <1>8 DEF ChunksInARow
  <2>4. 1 <= table[i].size /\ table[i].offset + table[i].size <= 65536
    BY <1>2, <1>3, <1>8 DEF ChunksFit, End
  <2>5. size <= e.size
    BY <1>1, <1>3, <1>5, <1>7, <2>2
  <2>6. EntryFits(i, e, size)
    BY <1>3, <1>4, <1>8, <2>2, <2>3, <2>4, <2>5 DEF EntryFits
  <2> QED BY <1>3, <2>6 DEF i, e
<1>9. CASE ~InUse(i)
  <2> DEFINE start == IF i = 1 THEN 0 ELSE End(i - 1)
             n == NUM_OF_SLOTS
  <2>0. n \in Nat /\ Slots = 1..n /\ i \in Int /\ 1 <= i /\ i <= n
    BY <1>3 DEF AllocatorAssumption, Slots
  <2>1. e = [offset |-> start % 65536, size |-> ChunkSize(need), occupied |-> TRUE]
    <3>1. NextUseableChunk(i) = start
      BY <1>2, <1>3, LoopFindsEnd
    <3> QED BY <1>6, <1>9, <3>1 DEF Occupy, InUse
  <2>2. start \in Nat /\ start = Extent(table)[i - 1]
    <3>1. Adds(Extent(table), n, SizesOf(table))
      BY <1>2, ExtentAdds DEF TypeOK, Typed
    <3>2. CASE i = 1
      BY <3>1, <3>2 DEF Adds
    <3>3. CASE i # 1
      <4>1. i - 1 \in Slots /\ InUse(i - 1)
        BY <1>3, <2>0, <3>3
      <4>2. Extent(table)[i - 1] = End(i - 1)
        BY <1>2, <4>1, ExtentIsEnd
      <4> QED BY <1>7, <3>3, <4>1, <4>2 DEF End
    <3> QED BY <3>2, <3>3
  <2> HIDE DEF start, n
  <2>3. ChunkSize(need) > 0 /\ start + ChunkSize(need) <= 65536
    <3> DEFINE u == table'
    <3>1. Typed(table) /\ Typed(u)
      BY <1>2, <1>4 DEF TypeOK, Typed
    <3>2. /\ Adds(Extent(table), n, SizesOf(table)) /\ SizesOf(table) \in [Slots -> Nat]
          /\ Adds(Extent(u), n, SizesOf(u)) /\ SizesOf(u) \in [Slots -> Nat]
      BY <3>1, ExtentAdds DEF n
    <3>3. u[i].size > 0 /\ Extent(u)[n] <= 65536
      BY <1>3 DEF TableFits, n
    <3>4. u[i] = e /\ e.size = ChunkSize(need)
      <4>1. u[i] = e
        BY <1>3, <1>4
      <4>2. e.size = ChunkSize(need)
        BY <2>1
      <4> QED BY <4>1, <4>2
    <3>5. Bytes(u[i]) = ChunkSize(need)
      BY <1>5, <3>4 DEF Bytes, DefaultSize
    <3>6. Extent(u)[i] = Extent(u)[i - 1] + ChunkSize(need) /\ Extent(u)[i - 1] \in Nat
      <4>1. i \in 1..n /\ i - 1 \in 0..n
        BY <2>0
      <4>2. SizesOf(u)[i] = ChunkSize(need)
        BY <1>3, <3>5 DEF SizesOf
      <4> QED BY <3>2, <4>1, <4>2 DEF Adds
    <3>7. Extent(table)[i - 1] <= Extent(u)[i - 1]
      <4>1. i - 1 \in Nat /\ i - 1 <= n
        BY <2>0
      <4>2. \A k \in 1..(i - 1) : k \in Slots /\ k # i
        BY <2>0
      <4>3. \A k \in 1..(i - 1) : SizesOf(table)[k] = SizesOf(u)[k] /\ SizesOf(u)[k] \in Nat
        BY <1>4, <3>2, <4>2 DEF SizesOf
      <4>4. \A k \in 1..(i - 1) : /\ SizesOf(table)[k] \in Nat /\ SizesOf(u)[k] \in Nat
                                  /\ SizesOf(table)[k] <= SizesOf(u)[k]
        BY <4>3
      <4> DEFINE last == i - 1
                 f == Extent(table)
                 g == Extent(u)
                 a == SizesOf(table)
                 c == SizesOf(u)
      <4>5. /\ Adds(f, n, a) /\ Adds(g, n, c) /\ last \in Nat /\ last <= n
            /\ \A k \in 1..last : a[k] \in Nat /\ c[k] \in Nat /\ a[k] <= c[k]
        BY <3>2, <4>1, <4>4
      <4> HIDE DEF last, f, g, a, c
      <4>6. f[last] <= g[last]
        BY <2>0, <4>5, SumsCompare
      <4> QED BY <4>6 DEF last, f, g
    <3>8. Extent(u)[i] <= Extent(u)[n] /\ Extent(u)[i] \in Nat /\ Extent(u)[n] \in Nat
      <4>1. i \in 0..n /\ n \in 0..n
        BY <2>0
      <4> HIDE DEF u
      <4>2. Extent(u)[i] <= Extent(u)[n] /\ Extent(u)[i] \in Nat
        BY <2>0, <3>2, <4>1, SumGrows
      <4> QED BY <3>2, <4>1, <4>2 DEF Adds
    <3> HIDE DEF u
    <3> QED BY <1>5, <2>2, <3>3, <3>4, <3>6, <3>7, <3>8
  <2>4. start % 65536 = start
    <3>1. \A x \in Nat : x < 65536 => x % 65536 = x
      OBVIOUS
    <3>2. start < 65536
      BY <1>5, <2>2, <2>3
    <3> QED BY <2>2, <3>1, <3>2
  <2>5. e.offset = start /\ e.size = ChunkSize(need)
    BY <2>1, <2>4
  <2>6. size <= e.size /\ 1 <= e.size /\ e.offset + e.size <= 65536
    BY <1>1, <1>5, <2>2, <2>3, <2>5
  <2>7. EntryFits(i, e, size)
    BY <1>3, <1>4, <1>9, <2>5, <2>6 DEF EntryFits, start
  <2> QED BY <1>3, <2>7 DEF i, e
<1> QED
  BY <1>8, <1>9

(***************************************************************************)
(* allocate keeps the row of chunks, and the block it returns is apart     *)
(* from every block that is held.                                          *)
(***************************************************************************)
NewBlock(size) == [address |-> NewEntry(size).offset, length |-> size]

LEMMA AllocateKeepsBlocksApart ==
  ASSUME AllocatorAssumption, Laid, UsedFirst,
         NEW size \in Requests, Allocate(size), TableFits'
  PROVE  /\ Laid'
         /\ held' = held \cup {NewBlock(size)} /\ NewBlock(size) \notin held
         /\ NewBlock(size) \in HeldBlocks!Block
         /\ \A c \in held : HeldBlocks!Disjoint(NewBlock(size), c)
<1> DEFINE i == Chosen(size)
           e == NewEntry(size)
           b == NewBlock(size)
<1>1. SizeAccepted(size) /\ Candidates(WordAligned(size)) # {}
  BY DEF Allocate
<1>2. i \in Slots /\ ~table[i].occupied /\ EntryFits(i, e, size)
  BY <1>1, AllocateFindsRoom
<1>3. DOMAIN table = Slots
  BY DEF Laid, TypeOK
<1>4. /\ table' = [table EXCEPT ![i] = e]
      /\ held' = held \cup {[address |-> table'[i].offset, length |-> size]}
      /\ mutex' = "unlocked"
  BY DEF Allocate, Chosen, NewEntry
<1>5. b = [address |-> e.offset, length |-> size]
  BY DEF NewBlock
<1> HIDE DEF i, e, b
<1>6. held' = held \cup {b}
  BY <1>2, <1>3, <1>4, <1>5
<1>7. i \in Nat /\ 1 <= i /\ Slots \subseteq Nat /\ NUM_OF_SLOTS \in Nat
      /\ \A k \in Slots : 1 <= k /\ (k # 1 => k - 1 \in Slots)
  BY <1>2 DEF Slots, AllocatorAssumption
<1>8. \A k \in Slots : table'[k] = IF k = i THEN e ELSE table[k]
  BY <1>3, <1>4
<1>9. /\ e.offset \in Nat /\ e.size \in Nat /\ e.size # DefaultSize
      /\ \A k \in Slots : table[k].offset \in Nat /\ table[k].size \in Nat
  BY <1>2, BitFields DEF EntryFits, Laid, TypeOK
<1>10. InUse(i) => e.offset = table[i].offset /\ e.size = table[i].size
  BY <1>2 DEF EntryFits, Laid, ChunksInARow
<1>11. \A k \in Slots : (table'[k].size # DefaultSize) <=> (k = i \/ InUse(k))
  BY <1>8, <1>9 DEF InUse
<1> DEFINE EndN(k) == table'[k].offset + table'[k].size
<1>12. \A k \in Slots : InUse(k) => EndN(k) = End(k)
  BY <1>8, <1>10 DEF End
<1>13. EndN(i) = e.offset + e.size
  BY <1>2, <1>8
<1>14. \A k \in Slots : k < i => InUse(k) /\ End(k) <= e.offset
  <2> SUFFICES ASSUME NEW k \in Slots, k < i PROVE InUse(k) /\ End(k) <= e.offset
    OBVIOUS
  <2>1. k \in 1..(i - 1) /\ i # 1 /\ i - 1 \in Slots /\ i - 1 \in 1..(i - 1)
    BY <1>2, <1>7
  <2>2. InUse(k) /\ InUse(i - 1) /\ e.offset = End(i - 1)
    BY <1>2, <2>1 DEF EntryFits
  <2>3. k < i - 1 => End(k) <= table[i - 1].offset
    BY <2>1, <2>2 DEF Laid, ChunksInARow
  <2>4. End(i - 1) = table[i - 1].offset + table[i - 1].size
    BY DEF End
  <2>5. End(i - 1) \in Nat /\ End(k) \in Nat
    BY <1>9, <2>1 DEF End
  <2>6. k = i - 1 \/ k < i - 1
    BY <1>7
  <2> QED BY <1>9, <2>1, <2>2, <2>3, <2>4, <2>5, <2>6
<1>15. \A j \in Slots : i < j /\ InUse(j) => InUse(i) /\ EndN(i) <= table[j].offset
  BY <1>2, <1>12 DEF Laid, ChunksInARow
<1> HIDE DEF EndN
<1>16. ChunksInARow'
  <2>1. ASSUME NEW k \in Slots, table'[k].size = DefaultSize PROVE table'[k] = Unused
    BY <1>8, <1>11, <2>1 DEF Laid, ChunksInARow
  <2>2. ASSUME NEW k \in Slots, NEW j \in Slots, k < j, table'[j].size # DefaultSize
        PROVE  table'[k].size # DefaultSize /\ EndN(k) <= table'[j].offset
    <3>1. CASE j = i
      BY <1>8, <1>11, <1>12, <1>14, <2>2, <3>1
    <3>2. CASE j # i /\ k = i
      BY <1>8, <1>11, <1>15, <2>2, <3>2
    <3>3. CASE j # i /\ k # i
      <4>1. InUse(j) /\ InUse(k) /\ End(k) <= table[j].offset
        BY <1>11, <2>2, <3>3 DEF Laid, ChunksInARow
      <4> QED BY <1>8, <1>11, <1>12, <3>3, <4>1
    <3> QED BY <3>1, <3>2, <3>3
  <2>3. ASSUME NEW k \in Slots, table'[k].size # DefaultSize
        PROVE  table'[k].offset = IF k = 1 THEN 0 ELSE EndN(k - 1)
    <3>1. k # 1 => InUse(k - 1)
      <4> SUFFICES ASSUME k # 1 PROVE InUse(k - 1)
        OBVIOUS
      <4>1. k - 1 \in Slots /\ k - 1 < k
        BY <1>7
      <4>2. CASE k = i
        BY <1>14, <4>1, <4>2
      <4>3. CASE k # i
        BY <1>11, <2>3, <4>1, <4>3 DEF Laid, ChunksInARow
      <4> QED BY <4>2, <4>3
    <3>2. k # 1 => EndN(k - 1) = End(k - 1)
      BY <1>7, <1>12, <3>1
    <3>3. CASE k = i
      BY <1>2, <1>8, <3>2, <3>3 DEF EntryFits
    <3>4. CASE k # i
      BY <1>8, <1>11, <2>3, <3>2, <3>4 DEF Laid, ChunksInARow
    <3> QED BY <3>3, <3>4
  <2> QED
    BY <2>1, <2>2, <2>3 DEF ChunksInARow, InUse, End, EndN
<1>17. ChunksFit'
  <2>1. ASSUME NEW k \in Slots, table'[k].size # DefaultSize
        PROVE  1 <= table'[k].size /\ EndN(k) <= 65536
    <3>1. CASE k = i
      BY <1>2, <1>8, <1>13, <3>1 DEF EntryFits
    <3>2. CASE k # i
      BY <1>8, <1>11, <1>12, <2>1, <3>2 DEF Laid, ChunksFit
    <3> QED BY <3>1, <3>2
  <2> QED
    BY <2>1 DEF ChunksFit, InUse, End, EndN
<1>18. b.address = e.offset /\ b.length = size /\ size \in Nat /\ 1 <= size
  BY <1>1, <1>5 DEF SizeAccepted, AllocatorAssumption
<1>19. \A c \in held : c.address \in Nat /\ c.length \in Nat
  <2>1. \A c \in held : c \in [address : Offsets, length : Requests]
    BY DEF Laid, TypeOK
  <2>2. \A c \in held : c.address \in Offsets /\ c.length \in Requests
    BY <2>1
  <2>3. \A c \in held : c.address \in Nat
    BY <2>2, BitFields
  <2>4. \A c \in held : c.length \in Nat
    BY <2>2 DEF AllocatorAssumption
  <2> QED BY <2>3, <2>4
<1>20. ASSUME NEW c \in held
       PROVE  HeldBlocks!Disjoint(b, c) /\ b.address # c.address
  <2>1. PICK j \in Slots : /\ table[j].occupied /\ InUse(j)
                           /\ table[j].offset = c.address
                           /\ table[j].size >= c.length
    BY DEF Laid, BlocksAreChunks
  <2>2. j # i /\ j \in Nat
    BY <1>2, <1>7, <2>1
  <2>3. 1 <= table[j].size /\ size <= e.size
    BY <1>2, <2>1 DEF Laid, ChunksFit, EntryFits
  <2>4. CASE j < i
    <3>1. table[j].offset + table[j].size <= e.offset
      BY <1>14, <2>1, <2>4 DEF End
    <3>2. c.address + c.length <= b.address /\ c.address < b.address
      BY <1>9, <1>18, <1>19, <2>1, <2>3, <3>1
    <3> QED BY <1>18, <1>9, <1>19, <3>2 DEF HeldBlocks!Disjoint
  <2>5. CASE i < j
    <3>1. e.offset + e.size <= table[j].offset
      BY <1>13, <1>15, <2>1, <2>5
    <3>2. b.address + b.length <= c.address /\ b.address < c.address
      BY <1>9, <1>18, <1>19, <2>1, <2>3, <3>1
    <3> QED BY <1>18, <1>9, <1>19, <3>2 DEF HeldBlocks!Disjoint
  <2> QED BY <1>7, <2>2, <2>4, <2>5
<1>21. BlocksAreChunks'
  <2>1. ASSUME NEW c \in held'
        PROVE  \E k \in Slots : /\ table'[k].occupied /\ table'[k].size # DefaultSize
                                /\ table'[k].offset = c.address
                                /\ table'[k].size >= c.length
    <3>1. CASE c = b
      <4>1. e.size >= size
        BY <1>2, <1>9, <1>18 DEF EntryFits
      <4>2. e.occupied
        BY <1>2 DEF EntryFits
      <4> QED BY <1>2, <1>8, <1>9, <1>18, <3>1, <4>1, <4>2
    <3>2. CASE c \in held
      <4>1. PICK k \in Slots : /\ table[k].occupied /\ InUse(k)
                               /\ table[k].offset = c.address
                               /\ table[k].size >= c.length
        BY <3>2 DEF Laid, BlocksAreChunks
      <4>2. k # i
        BY <1>2, <4>1
      <4> QED BY <1>8, <1>11, <4>1, <4>2
    <3> QED BY <1>6, <3>1, <3>2
  <2>2. ASSUME NEW c \in held', NEW d \in held', c.address = d.address PROVE c = d
    BY <1>6, <1>20, <2>2 DEF Laid, BlocksAreChunks
  <2>3. ASSUME NEW k \in Slots, table'[k].occupied
        PROVE  table'[k].size # DefaultSize /\ \E c \in held' : c.address = table'[k].offset
    <3>1. CASE k = i
      BY <1>6, <1>8, <1>9, <1>18, <3>1
    <3>2. CASE k # i
      BY <1>6, <1>8, <1>11, <2>3, <3>2 DEF Laid, BlocksAreChunks
    <3> QED BY <3>1, <3>2
  <2> QED
    BY <2>1, <2>2, <2>3 DEF BlocksAreChunks, InUse
<1>22. TypeOK'
  BY AllocateKeepsTypes DEF Laid
<1>23. b \in HeldBlocks!Block
  BY <1>5, <1>9 DEF HeldBlocks!Block
<1>24. b \notin held
  BY <1>20
<1> QED
  BY <1>6, <1>16, <1>17, <1>20, <1>21, <1>22, <1>23, <1>24 DEF Laid, b

(* deallocate gives back exactly the chunk of the block. *)
LEMMA DeallocateKeepsBlocks ==
  ASSUME AllocatorAssumption, Laid, NEW b \in held, Deallocate(b)
  PROVE  Laid'
<1>1. PICK i \in Slots : /\ Matches(b.address) # {} /\ Min(Matches(b.address)) = i
                         /\ table[i].occupied /\ InUse(i)
                         /\ table[i].offset = b.address
                         /\ table[i].size >= b.length
  BY BlockHasItsChunk
<1>2. /\ table' = [table EXCEPT ![i].occupied = FALSE]
      /\ held' = held \ {b}
      /\ mutex' = "unlocked"
  BY <1>1 DEF Deallocate
<1>3. table \in [Slots -> [offset : Offsets, size : Sizes, occupied : BOOLEAN]]
  BY DEF Laid, TypeOK
<1>4. table' \in [Slots -> [offset : Offsets, size : Sizes, occupied : BOOLEAN]]
  BY <1>2, <1>3
<1>5. \A k \in Slots : /\ table'[k].offset = table[k].offset
                       /\ table'[k].size = table[k].size
                       /\ table'[k].occupied = (k # i /\ table[k].occupied)
  <2> SUFFICES ASSUME NEW k \in Slots
               PROVE  /\ table'[k].offset = table[k].offset
                      /\ table'[k].size = table[k].size
                      /\ table'[k].occupied = (k # i /\ table[k].occupied)
    OBVIOUS
  <2>1. CASE k = i
    BY <1>2, <1>3, <2>1
  <2>2. CASE k # i
    <3>1. table'[k] = table[k]
      BY <1>2, <1>3, <2>2
    <3>2. table[k].occupied \in BOOLEAN
      BY <1>3
    <3> QED BY <2>2, <3>1, <3>2
  <2> QED BY <2>1, <2>2
<1>6. \A k \in Slots : k # i => table'[k] = table[k]
  BY <1>2, <1>3
<1>7. TypeOK'
  BY <1>2, <1>4, <1>5 DEF TypeOK, Laid, LockValues
<1>8. ChunksInARow'
  <2>1. ASSUME NEW k \in Slots, table'[k].size = DefaultSize PROVE table'[k] = Unused
    BY <1>1, <1>5, <1>6, <2>1 DEF Laid, ChunksInARow, InUse
  <2>2. ASSUME NEW k \in Slots, NEW j \in Slots, k < j, table'[j].size # DefaultSize
        PROVE  /\ table'[k].size # DefaultSize
               /\ table'[k].offset + table'[k].size <= table'[j].offset
    BY <1>5, <2>2 DEF Laid, ChunksInARow, InUse, End
  <2>3. ASSUME NEW k \in Slots, table'[k].size # DefaultSize
        PROVE  table'[k].offset =
                 IF k = 1 THEN 0 ELSE table'[k - 1].offset + table'[k - 1].size
    <3>1. k = 1 \/ k - 1 \in Slots
      BY DEF Slots, AllocatorAssumption
    <3> QED BY <1>5, <2>3, <3>1 DEF Laid, ChunksInARow, InUse, End
  <2> QED
    BY <2>1, <2>2, <2>3 DEF ChunksInARow, InUse, End
<1>9. ChunksFit'
  BY <1>5 DEF Laid, ChunksFit, InUse, End
<1>10. BlocksAreChunks'
  <2>1. ASSUME NEW c \in held'
        PROVE  \E k \in Slots : /\ table'[k].occupied /\ table'[k].size # DefaultSize
                                /\ table'[k].offset = c.address
                                /\ table'[k].size >= c.length
    <3>1. c \in held /\ c # b
      BY <1>2
    <3>2. PICK k \in Slots : /\ table[k].occupied /\ InUse(k)
                             /\ table[k].offset = c.address
                             /\ table[k].size >= c.length
      BY <3>1 DEF Laid, BlocksAreChunks
    <3>3. k # i
      BY <1>1, <3>1, <3>2 DEF Laid, BlocksAreChunks
    <3> QED BY <1>5, <3>2, <3>3 DEF InUse
  <2>2. ASSUME NEW c \in held', NEW d \in held', c.address = d.address PROVE c = d
    BY <1>2, <2>2 DEF Laid, BlocksAreChunks
  <2>3. ASSUME NEW k \in Slots, table'[k].occupied
        PROVE  table'[k].size # DefaultSize /\ \E c \in held' : c.address = table'[k].offset
    <3>1. k # i /\ table[k].occupied
      BY <1>5, <2>3
    <3>2. InUse(k)
      BY <3>1 DEF Laid, BlocksAreChunks
    <3>3. PICK c \in held : c.address = table[k].offset
      BY <3>1 DEF Laid, BlocksAreChunks
    <3>4. table[k].offset # table[i].offset
      <4>1. /\ k < i => End(k) <= table[i].offset
            /\ i < k => End(i) <= table[k].offset
        BY <1>1, <3>2 DEF Laid, ChunksInARow
      <4>2. /\ 1 <= table[k].size /\ 1 <= table[i].size
            /\ table[k].offset \in Nat /\ table[i].offset \in Nat
            /\ table[k].size \in Nat /\ table[i].size \in Nat
        BY <1>1, <1>3, <3>2, BitFields DEF Laid, ChunksFit
      <4>3. k < i \/ i < k
        BY <3>1 DEF Slots, AllocatorAssumption
      <4> QED BY <4>1, <4>2, <4>3 DEF End
    <3>5. c # b
      BY <1>1, <3>3, <3>4
    <3> QED BY <1>2, <1>5, <3>2, <3>3, <3>5 DEF InUse
  <2> QED
    BY <2>1, <2>2, <2>3 DEF BlocksAreChunks, InUse
<1> QED
  BY <1>7, <1>8, <1>9, <1>10 DEF Laid

(* Whatever fits, deallocate changes no size. *)
LEMMA DeallocateKeepsTypes ==
  ASSUME AllocatorAssumption, TypeOK, UsedFirst, NEW b \in held, Deallocate(b)
  PROVE  TypeOK' /\ UsedFirst' /\ (TableFits' => TableFits)
<1>1. held' = held \ {b} /\ mutex' = "unlocked"
  BY DEF Deallocate
<1>2. CASE Matches(b.address) = {}
  <2>1. table' = table
    BY <1>2 DEF Deallocate
  <2> QED BY <1>1, <2>1 DEF TypeOK, UsedFirst, InUse, TableFits, LockValues
<1>3. CASE Matches(b.address) # {}
  <2> DEFINE i == Min(Matches(b.address))
  <2>1. i \in Slots
    <3>1. Matches(b.address) \in SUBSET Nat
      BY DEF Matches, Slots, AllocatorAssumption
    <3>2. i \in Matches(b.address)
      BY <1>3, <3>1, MinInSet
    <3> QED BY <3>2 DEF Matches
  <2>2. table' = [table EXCEPT ![i].occupied = FALSE]
    BY <1>3 DEF Deallocate
  <2> HIDE DEF i
  <2>3. table \in [Slots -> [offset : Offsets, size : Sizes, occupied : BOOLEAN]]
    BY DEF TypeOK
  <2>4. table' \in [Slots -> [offset : Offsets, size : Sizes, occupied : BOOLEAN]]
    BY <2>1, <2>2, <2>3
  <2>5. \A k \in Slots : /\ table'[k].offset = table[k].offset /\ table'[k].size = table[k].size
                         /\ k # i => table'[k] = table[k]
                         /\ table[k] = Unused => table'[k] = Unused
    <3> SUFFICES ASSUME NEW k \in Slots
                 PROVE  /\ table'[k].offset = table[k].offset /\ table'[k].size = table[k].size
                        /\ k # i => table'[k] = table[k]
                        /\ table[k] = Unused => table'[k] = Unused
      OBVIOUS
    <3>1. table[k] \in [offset : Offsets, size : Sizes, occupied : BOOLEAN]
      BY <2>3
    <3>2. CASE k # i
      <4>1. table'[k] = table[k]
        BY <2>2, <2>3, <3>2
      <4> QED BY <4>1
    <3>3. CASE k = i
      <4>1. table'[k] = [table[k] EXCEPT !.occupied = FALSE]
        BY <2>1, <2>2, <2>3, <3>3
      <4>2. /\ table'[k].offset = table[k].offset /\ table'[k].size = table[k].size
            /\ table'[k].occupied = FALSE
        BY <3>1, <4>1
      <4>3. table'[k] \in [offset : Offsets, size : Sizes, occupied : BOOLEAN]
        BY <2>4
      <4>4. table[k] = Unused => table[k].offset = 0 /\ table[k].size = DefaultSize
        BY DEF Unused
      <4>5. table[k] = Unused => table'[k] = Unused
        BY <4>2, <4>3, <4>4 DEF Unused
      <4> QED BY <3>3, <4>2, <4>5
    <3> QED BY <3>2, <3>3
  <2>6. TypeOK'
    BY <1>1, <2>4, <2>5 DEF TypeOK, LockValues
  <2>7. UsedFirst'
    BY <2>5 DEF UsedFirst, InUse
  <2>8. TableFits' => TableFits
    <3>1. \A k \in Slots : /\ Bytes(table[k]) <= Bytes(table'[k])
                           /\ table'[k].size > 0 => table[k].size > 0
      BY <2>3, <2>5, BitFields DEF Bytes
    <3> QED BY <2>6, <3>1, FittedBefore
  <2> QED BY <2>6, <2>7, <2>8
<1> QED
  BY <1>2, <1>3

-----------------------------------------------------------------------------
(* Nothing is handed out when the allocator starts. *)
LEMMA EmptyTableFits ==
  ASSUME AllocatorAssumption, TypeOK, \A i \in Slots : table[i] = Unused
  PROVE  TableFits
<1> DEFINE n == NUM_OF_SLOTS
           f == Extent(table)
           Wrong == {k \in 0..n : f[k] # 0}
<1>0. n \in Nat /\ Slots = 1..n
  BY DEF AllocatorAssumption, Slots
<1>1. Adds(f, n, SizesOf(table))
  BY ExtentAdds DEF TypeOK, Typed
<1>2. \A k \in 1..n : SizesOf(table)[k] = 0
  BY <1>0 DEF SizesOf, Bytes, Unused
<1> HIDE DEF f, n
<1>3. f[n] = 0
  <2> SUFFICES ASSUME Wrong # {} PROVE FALSE
    BY <1>0
  <2> DEFINE k == Min(Wrong)
  <2>1. k \in Wrong /\ \A x \in Wrong : k <= x
    <3>1. Wrong \in SUBSET Nat
      BY <1>0
    <3> HIDE DEF Wrong
    <3> QED BY <3>1, MinInSet
  <2> HIDE DEF k
  <2>2. k \in 0..n /\ f[k] # 0 /\ k # 0
    BY <1>1, <2>1 DEF Adds
  <2>3. k \in 1..n /\ k - 1 \in 0..n /\ ~(k <= k - 1)
    BY <1>0, <2>2
  <2>4. f[k - 1] = 0
    BY <2>1, <2>3
  <2> QED BY <1>1, <1>2, <2>2, <2>3, <2>4 DEF Adds
<1>4. \A i \in Slots : table[i].size > 0
  BY DEF Unused, DefaultSize
<1> QED
  BY <1>3, <1>4 DEF TableFits, f, n

LEMMA InitIInv ==
  ASSUME AllocatorAssumption, Init
  PROVE  IInv /\ TableFits
<1>1. \A i \in Slots : table[i] = Unused
  BY DEF Init
<1>2. table \in [Slots -> [offset : Offsets, size : Sizes, occupied : BOOLEAN]]
  <2>1. Unused \in [offset : Offsets, size : Sizes, occupied : BOOLEAN]
    BY BitFields DEF Unused, DefaultSize
  <2> QED BY <2>1 DEF Init
<1>3. TypeOK
  <2>1. Unused.offset % 8 = 0 /\ Unused.size = DefaultSize
    BY DEF Unused
  <2> QED BY <1>1, <1>2, <2>1 DEF Init, TypeOK, LockValues
<1>4. \A i \in Slots : ~InUse(i) /\ ~table[i].occupied
  BY <1>1 DEF InUse, Unused
<1>5. Laid
  BY <1>1, <1>3, <1>4 DEF Laid, ChunksInARow, ChunksFit, BlocksAreChunks, Init
<1>6. UsedFirst
  BY <1>1, <1>4 DEF UsedFirst
<1> QED
  BY <1>1, <1>3, <1>5, <1>6, EmptyTableFits DEF IInv

(* A table that does not fit never fits again. *)
LEMMA StepIInv ==
  ASSUME AllocatorAssumption, IInv, [Next]_vars
  PROVE  IInv' /\ (TableFits' => TableFits)
<1>0. TypeOK /\ UsedFirst /\ (TableFits => Laid)
  BY DEF IInv
<1>1. ASSUME NEW size \in Requests, Allocate(size) PROVE IInv' /\ (TableFits' => TableFits)
  <2>1. TypeOK' /\ UsedFirst' /\ (TableFits' => TableFits)
    BY <1>0, <1>1, AllocateKeepsTypes
  <2>2. ASSUME TableFits' PROVE Laid'
    BY <1>0, <1>1, <2>1, <2>2, AllocateKeepsBlocksApart
  <2> QED BY <2>1, <2>2 DEF IInv
<1>2. ASSUME NEW b \in held, Deallocate(b) PROVE IInv' /\ (TableFits' => TableFits)
  <2>1. TypeOK' /\ UsedFirst' /\ (TableFits' => TableFits)
    BY <1>0, <1>2, DeallocateKeepsTypes
  <2>2. ASSUME TableFits' PROVE Laid'
    BY <1>0, <1>2, <2>1, <2>2, DeallocateKeepsBlocks
  <2> QED BY <2>1, <2>2 DEF IInv
<1>3. ASSUME UNCHANGED <<table, held>>, mutex' \in LockValues
      PROVE  IInv' /\ (TableFits' => TableFits)
  <2>1. TypeOK' /\ UsedFirst'
    BY <1>0, <1>3 DEF TypeOK, UsedFirst, InUse
  <2>2. TableFits' => TableFits
    BY <1>3 DEF TableFits
  <2>3. ASSUME TableFits' PROVE Laid'
    BY <1>0, <1>3, <2>1, <2>2, <2>3 DEF Laid, ChunksInARow, ChunksFit, BlocksAreChunks, InUse, End
  <2> QED BY <2>1, <2>2, <2>3 DEF IInv
<1>4. ASSUME NEW size \in Requests, AllocateFails(size) PROVE IInv' /\ (TableFits' => TableFits)
  BY <1>3, <1>4 DEF AllocateFails, LockValues
<1>5. ASSUME NEW size \in Requests, AllocateRejects(size) PROVE IInv' /\ (TableFits' => TableFits)
  BY <1>3, <1>5 DEF AllocateRejects
<1>6. CASE DeallocateUnknown
  BY <1>3, <1>6 DEF DeallocateUnknown, LockValues
<1>7. CASE UNCHANGED vars
  <2>1. mutex' \in LockValues
    BY <1>0, <1>7 DEF vars, TypeOK
  <2> QED BY <1>3, <1>7, <2>1 DEF vars
<1> QED
  BY <1>1, <1>2, <1>4, <1>5, <1>6, <1>7 DEF Next

(***************************************************************************)
(* The state of the allocator stays well formed, whatever it is asked for: *)
(* offsets and sizes never exceed their bit fields and stay multiples of   *)
(* eight.                                                                  *)
(***************************************************************************)
THEOREM AllocatorTypeCorrect ==
  ASSUME AllocatorAssumption
  PROVE  Spec => []TypeOK
<1>1. Init => IInv
  BY InitIInv
<1>2. IInv /\ [Next]_vars => IInv'
  BY StepIInv
<1>3. IInv => TypeOK
  BY DEF IInv
<1> QED
  BY <1>1, <1>2, <1>3, PTL DEF Spec

(***************************************************************************)
(* As long as the table can describe its chunks, every held block has an   *)
(* occupied chunk that holds the request, which deallocate will find, and  *)
(* every occupied chunk has a holder.                                      *)
(***************************************************************************)
THEOREM BlocksStayBacked ==
  ASSUME AllocatorAssumption
  PROVE  Spec => []BlocksBacked
<1>2. Init => IInv
  BY InitIInv
<1>3. IInv /\ [Next]_vars => IInv'
  BY StepIInv
<1>4. IInv => BlocksBacked
  <2> SUFFICES ASSUME Laid PROVE BlocksBacked
    BY DEF IInv, BlocksBacked
  <2>1. ASSUME NEW i \in Slots, table[i].occupied
        PROVE  \E b \in held : Matches(b.address) # {} /\ Min(Matches(b.address)) = i
    <3>1. PICK b \in held : b.address = table[i].offset
      BY <2>1 DEF Laid, BlocksAreChunks
    <3>2. PICK j \in Slots : /\ Matches(b.address) # {} /\ Min(Matches(b.address)) = j
                             /\ InUse(j) /\ table[j].offset = b.address
      BY BlockHasItsChunk
    <3>3. InUse(i)
      BY <2>1 DEF Laid, BlocksAreChunks
    <3>4. /\ i < j => End(i) <= table[j].offset
          /\ j < i => End(j) <= table[i].offset
      BY <3>2, <3>3 DEF Laid, ChunksInARow
    <3>5. /\ 1 <= table[i].size /\ 1 <= table[j].size
          /\ table[i].offset \in Nat /\ table[j].offset \in Nat
          /\ table[i].size \in Nat /\ table[j].size \in Nat
      BY <3>2, <3>3, BitFields DEF Laid, ChunksFit, TypeOK
    <3>6. i = j
      BY <3>1, <3>2, <3>4, <3>5 DEF End, Slots, AllocatorAssumption
    <3> QED BY <3>2, <3>6
  <2>2. ASSUME NEW b \in held
        PROVE  /\ Matches(b.address) # {}
               /\ LET i == Min(Matches(b.address))
                  IN  table[i].occupied /\ table[i].size >= b.length
    BY BlockHasItsChunk
  <2> QED BY <2>1, <2>2 DEF BlocksBacked
<1> QED
  BY <1>2, <1>3, <1>4, PTL DEF Spec

(***************************************************************************)
(* The table implements the promise of Heap: until it has handed out more  *)
(* than it can describe, no block overlaps a held one.                     *)
(***************************************************************************)
THEOREM AllocatorImplementsHeap ==
  ASSUME AllocatorAssumption
  PROVE  Spec => ImplementsHeap
<1> DEFINE blocks == IF TableFits THEN held ELSE {}
<1>1. Init => IInv
  BY InitIInv
<1>2. IInv /\ [Next]_vars => IInv'
  BY StepIInv
<1>3. Init => HeldBlocks!Init
  <2> SUFFICES ASSUME Init PROVE blocks = {} /\ TableFits = TRUE
    BY DEF HeldBlocks!Init
  <2>1. TableFits
    BY InitIInv
  <2> QED BY <2>1 DEF Init
<1>4. IInv /\ [Next]_vars => [HeldBlocks!Next]_(HeldBlocks!vars)
  <2> SUFFICES ASSUME IInv, [Next]_vars PROVE [HeldBlocks!Next]_(HeldBlocks!vars)
    OBVIOUS
  <2>0. TableFits' => TableFits
    BY StepIInv
  <2>1. CASE ~TableFits
    <3>1. ~TableFits'
      BY <2>0, <2>1
    <3>2. blocks = {} /\ blocks' = {} /\ TableFits' = TableFits
      <4>1. blocks = {} /\ blocks' = {}
        BY <2>1, <3>1
      <4>2. TableFits \in BOOLEAN /\ TableFits' \in BOOLEAN
        BY DEF TableFits
      <4>3. TableFits' = TableFits
        BY <2>1, <3>1, <4>2
      <4> QED BY <4>1, <4>3
    <3> QED BY <3>2 DEF HeldBlocks!vars
  <2>2. CASE TableFits /\ ~TableFits'
    <3>1. blocks' = {}
      BY <2>2
    <3>2. HeldBlocks!Overrun
      BY <2>2, <3>1 DEF HeldBlocks!Overrun
    <3> QED BY <3>2 DEF HeldBlocks!Next
  <2>3. CASE TableFits /\ TableFits'
    <3>0. blocks = held /\ blocks' = held' /\ TableFits' = TableFits
      BY <2>3
    <3>1. ASSUME NEW size \in Requests, Allocate(size) PROVE HeldBlocks!Allocate
      <4> DEFINE b == NewBlock(size)
      <4>1. /\ held' = held \cup {b} /\ b \notin held
            /\ b \in HeldBlocks!Block
            /\ \A c \in held : HeldBlocks!Disjoint(b, c)
        BY <2>3, <3>1, AllocateKeepsBlocksApart DEF IInv
      <4> HIDE DEF b
      <4> QED BY <2>3, <3>0, <4>1 DEF HeldBlocks!Allocate
    <3>2. ASSUME NEW b \in held, Deallocate(b) PROVE HeldBlocks!Deallocate
      <4>1. held' = held \ {b}
        BY <3>2 DEF Deallocate
      <4> QED BY <2>3, <3>0, <4>1 DEF HeldBlocks!Deallocate
    <3>3. ASSUME ~(\E size \in Requests : Allocate(size)), ~(\E b \in held : Deallocate(b))
          PROVE  UNCHANGED HeldBlocks!vars
      <4>1. held' = held
        BY <3>3 DEF Next, AllocateFails, AllocateRejects, DeallocateUnknown, vars
      <4> QED BY <3>0, <4>1 DEF HeldBlocks!vars
    <3> QED BY <3>1, <3>2, <3>3 DEF HeldBlocks!Next
  <2> QED BY <2>1, <2>2, <2>3
<1> QED
  BY <1>1, <1>2, <1>3, <1>4, PTL DEF Spec, ImplementsHeap, HeldBlocks!Spec

-----------------------------------------------------------------------------
(* Every pair of entries is in order one way or the other.                  *)
Entries(S) == \A e \in S : e.offset \in Int

LEMMA OffsetsAreOrdered ==
  ASSUME NEW S, Entries(S)
  PROVE  /\ \A a, b \in S : OffsetOrder(a, b) \/ OffsetOrder(b, a)
         /\ \A a, b, c \in S : OffsetOrder(a, b) /\ OffsetOrder(b, c) => OffsetOrder(a, c)
<1>1. \A n \in Int : Signed16(n) \in Int
  BY DEF Signed16
<1>2. \A a \in S : Signed16(a.offset) \in Int
  BY <1>1 DEF Entries
<1> QED
  BY <1>2 DEF OffsetOrder

(* r is a with the entries of a part from l to h in another order.          *)
Moves(D, p, l, h) ==
  /\ p \in [D -> D]
  /\ \A i, j \in D : p[i] = p[j] => i = j
  /\ \A j \in D : \E i \in D : p[i] = j
  /\ \A i \in D : ~(l <= i /\ i <= h) => p[i] = i

Rearranges(D, r, a, l, h) ==
  \E p : Moves(D, p, l, h) /\ r = [i \in D |-> a[p[i]]]

(* An array, a place of it inside a part, and a part of a part.             *)
Array(D, S, a) == D \subseteq Int /\ a \in [D -> S]
Inside(D, i, l, h) == i \in D /\ l \in Int /\ h \in Int /\ l <= i /\ i <= h
PartOf(i, j, l, h) == i \in Int /\ j \in Int /\ l \in Int /\ h \in Int /\ l <= i /\ j <= h

LEMMA NothingMoves ==
  ASSUME NEW D, NEW S, NEW a, Array(D, S, a), NEW l, NEW h
  PROVE  Rearranges(D, a, a, l, h)
<1> DEFINE p == [i \in D |-> i]
<1>1. Moves(D, p, l, h)
  BY DEF Moves
<1>2. a = [i \in D |-> a[p[i]]]
  BY DEF Array
<1> QED
  BY <1>1, <1>2 DEF Rearranges

LEMMA MovesTwice ==
  ASSUME NEW D, D \subseteq Int, NEW r, NEW b, NEW a, NEW i, NEW j, NEW l, NEW h, PartOf(i, j, l, h),
         Rearranges(D, r, b, i, j), Rearranges(D, b, a, l, h)
  PROVE  Rearranges(D, r, a, l, h)
<1>0. i \in Int /\ j \in Int /\ l \in Int /\ h \in Int /\ l <= i /\ j <= h
  BY DEF PartOf
<1>1. PICK p : Moves(D, p, i, j) /\ r = [k \in D |-> b[p[k]]]
  BY DEF Rearranges
<1>2. PICK q : Moves(D, q, l, h) /\ b = [k \in D |-> a[q[k]]]
  BY DEF Rearranges
<1> DEFINE s == [k \in D |-> q[p[k]]]
<1>3. p \in [D -> D] /\ q \in [D -> D]
  BY <1>1, <1>2 DEF Moves
<1>4. r = [k \in D |-> a[s[k]]]
  <2>1. \A k \in D : b[p[k]] = a[s[k]]
    BY <1>2, <1>3
  <2> QED BY <1>1, <2>1
<1>5. \A k \in D : ~(l <= k /\ k <= h) => s[k] = k
  <2> SUFFICES ASSUME NEW k \in D, ~(l <= k /\ k <= h) PROVE s[k] = k
    OBVIOUS
  <2>1. ~(i <= k /\ k <= j)
    BY <1>0
  <2>2. p[k] = k /\ q[k] = k
    BY <1>1, <1>2, <2>1 DEF Moves
  <2> QED BY <2>2
<1>6. \A k, m \in D : s[k] = s[m] => k = m
  BY <1>1, <1>2, <1>3 DEF Moves
<1>7. \A m \in D : \E k \in D : s[k] = m
  <2> SUFFICES ASSUME NEW m \in D PROVE \E k \in D : s[k] = m
    OBVIOUS
  <2>1. PICK n \in D : q[n] = m
    BY <1>2 DEF Moves
  <2>2. PICK k \in D : p[k] = n
    BY <1>1 DEF Moves
  <2> QED BY <2>1, <2>2
<1>8. Moves(D, s, l, h)
  BY <1>3, <1>5, <1>6, <1>7 DEF Moves
<1> QED
  BY <1>4, <1>8 DEF Rearranges

(* swapi. *)
Swaps(D, b, a, i, j) == b = [k \in D |-> IF k = i THEN a[j] ELSE IF k = j THEN a[i] ELSE a[k]]

LEMMA SwapMoves ==
  ASSUME NEW D, NEW S, NEW a, Array(D, S, a), NEW l, NEW h, NEW i, NEW j,
         Inside(D, i, l, h), Inside(D, j, l, h)
  PROVE  /\ Rearranges(D, Swapped(a, i, j), a, l, h)
         /\ Swaps(D, Swapped(a, i, j), a, i, j)
<1> DEFINE p == [k \in D |-> IF k = i THEN j ELSE IF k = j THEN i ELSE k]
<1>0. /\ D \subseteq Int /\ a \in [D -> S] /\ i \in D /\ j \in D
      /\ l \in Int /\ h \in Int /\ l <= i /\ i <= h /\ l <= j /\ j <= h
  BY DEF Array, Inside
<1>1. Swapped(a, i, j) = [k \in D |-> IF k = i THEN a[j] ELSE IF k = j THEN a[i] ELSE a[k]]
  BY <1>0 DEF Swapped
<1>2. Swapped(a, i, j) = [k \in D |-> a[p[k]]]
  BY <1>0, <1>1
<1>3. Moves(D, p, l, h)
  BY <1>0 DEF Moves
<1> QED
  BY <1>1, <1>2, <1>3 DEF Rearranges, Swaps

(* A part's entries stay inside the part, all others where they are.        *)
LEMMA EntriesStay ==
  ASSUME NEW D, NEW S, NEW a, Array(D, S, a), NEW r, NEW l, NEW h, Rearranges(D, r, a, l, h)
  PROVE  /\ Array(D, S, r) /\ r \in [D -> S]
         /\ \A i \in D : ~(l <= i /\ i <= h) => r[i] = a[i]
         /\ \A i \in D : l <= i /\ i <= h => \E j \in D : l <= j /\ j <= h /\ r[i] = a[j]
<1>1. PICK p : Moves(D, p, l, h) /\ r = [k \in D |-> a[p[k]]]
  BY DEF Rearranges
<1>2. /\ p \in [D -> D]
      /\ \A i, j \in D : p[i] = p[j] => i = j
      /\ \A i \in D : ~(l <= i /\ i <= h) => p[i] = i
  BY <1>1 DEF Moves
<1>3. Array(D, S, r) /\ r \in [D -> S]
  BY <1>1, <1>2 DEF Array
<1>4. ASSUME NEW i \in D, l <= i /\ i <= h PROVE \E j \in D : l <= j /\ j <= h /\ r[i] = a[j]
  <2>1. p[i] \in D
    BY <1>2
  <2>2. ~(l <= p[i] /\ p[i] <= h) => p[p[i]] = p[i]
    BY <1>2, <2>1
  <2>3. l <= p[i] /\ p[i] <= h
    BY <1>2, <1>4, <2>1, <2>2
  <2> QED BY <1>1, <2>1, <2>3
<1> QED
  BY <1>1, <1>2, <1>3, <1>4

(* An entry is in both equally often.                                       *)
LEMMA OccurrencesStay ==
  ASSUME NEW D, IsFiniteSet(D), NEW r, NEW a, NEW l, NEW h, Rearranges(D, r, a, l, h), NEW e
  PROVE  Cardinality({i \in D : r[i] = e}) = Cardinality({i \in D : a[i] = e})
<1>1. PICK p : Moves(D, p, l, h) /\ r = [k \in D |-> a[p[k]]]
  BY DEF Rearranges
<1> DEFINE R == {i \in D : r[i] = e}
           A == {i \in D : a[i] = e}
           q == [i \in R |-> p[i]]
<1>2. /\ p \in [D -> D]
      /\ \A i, j \in D : p[i] = p[j] => i = j
      /\ \A j \in D : \E i \in D : p[i] = j
  BY <1>1 DEF Moves
<1>3. q \in [R -> A] /\ \A i, j \in R : q[i] = q[j] => i = j
  BY <1>1, <1>2
<1>4. \A j \in A : \E i \in R : q[i] = j
  BY <1>1, <1>2
<1> HIDE DEF R, A, q
<1>5. q \in Bijection(R, A)
  BY <1>3, <1>4 DEF Bijection, Injection, Surjection, IsInjective
<1>6. IsFiniteSet(R)
  <2>1. R \subseteq D
    BY DEF R
  <2> QED BY <2>1, FS_Subset
<1> QED
  BY <1>5, <1>6, FS_Bijection DEF ExistsBijection, R, A
(* The state of make_partition's loop before the iteration for j: what has  *)
(* moved to the front is not beyond the pivot, the rest up to j is.        *)
Divided(s, D, a, lo, hi, j) ==
  /\ s = [A |-> s.A, i |-> s.i] /\ s.i \in Int /\ lo - 1 <= s.i /\ s.i < j
  /\ Rearranges(D, s.A, a, lo, hi - 1)
  /\ \A k \in D : lo <= k /\ k <= s.i => OffsetOrder(s.A[k], a[hi])
  /\ \A k \in D : s.i < k /\ k < j => ~OffsetOrder(s.A[k], a[hi])

(* One iteration.                                                           *)
LEMMA IterationDivides ==
  ASSUME NEW D, NEW S, NEW a, Array(D, S, a), NEW lo \in D, NEW hi \in D,
         \A k \in Int : lo <= k /\ k <= hi => k \in D,
         NEW j \in D, lo <= j, j < hi, NEW s, Divided(s, D, a, lo, hi, j)
  PROVE  Divided(Partitioned(s, j, a[hi]), D, a, lo, hi, j + 1)
<1> DEFINE n == s.i + 1
           b == Swapped(s.A, n, j)
<1>d. D \subseteq Int /\ a \in [D -> S] /\ lo \in Int /\ hi \in Int /\ j \in Int /\ hi - 1 \in Int
  BY DEF Array
<1>0. /\ s = [A |-> s.A, i |-> s.i] /\ s.i \in Int /\ lo - 1 <= s.i /\ s.i < j
      /\ Rearranges(D, s.A, a, lo, hi - 1)
      /\ \A k \in D : lo <= k /\ k <= s.i => OffsetOrder(s.A[k], a[hi])
      /\ \A k \in D : s.i < k /\ k < j => ~OffsetOrder(s.A[k], a[hi])
  BY DEF Divided
<1>1. CASE ~OffsetOrder(s.A[j], a[hi])
  <2>1. Partitioned(s, j, a[hi]) = s
    BY <1>1 DEF Partitioned
  <2>2. \A k \in D : s.i < k /\ k < j + 1 => ~OffsetOrder(s.A[k], a[hi])
    <3>1. \A k \in D : k < j + 1 => k < j \/ k = j
      BY <1>d
    <3> QED BY <1>0, <1>1, <3>1
  <2>3. s.i < j + 1 /\ j + 1 \in Int
    BY <1>d, <1>0
  <2> QED BY <1>0, <2>1, <2>2, <2>3 DEF Divided
<1>2. CASE OffsetOrder(s.A[j], a[hi])
  <2>1. Partitioned(s, j, a[hi]) = [A |-> b, i |-> n]
    BY <1>2 DEF Partitioned
  <2> DEFINE c == s.A
             last == hi - 1
  <2>2. n \in D /\ n \in Int /\ lo <= n /\ n <= j /\ n <= last /\ j <= last /\ last \in Int /\ last <= hi
    <3>1. n \in Int /\ lo <= n /\ n <= j /\ n <= last /\ j <= last /\ last \in Int /\ last <= hi
      BY <1>d, <1>0
    <3> QED BY <1>d, <3>1
  <2>3. Inside(D, n, lo, last) /\ Inside(D, j, lo, last)
    BY <1>d, <2>2 DEF Inside
  <2>4. /\ Rearranges(D, b, a, lo, last)
        /\ b = [k \in D |-> IF k = n THEN c[j] ELSE IF k = j THEN c[n] ELSE c[k]]
    <3>1. Rearranges(D, c, a, lo, last)
      BY <1>0
    <3>2. PartOf(lo, last, lo, last)
      BY <1>d, <2>2 DEF PartOf
    <3> HIDE DEF c, last, n
    <3>3. Array(D, S, c)
      BY <3>1, EntriesStay
    <3>4. /\ Rearranges(D, Swapped(c, n, j), c, lo, last)
          /\ Swaps(D, Swapped(c, n, j), c, n, j)
      BY <2>3, <3>3, SwapMoves
    <3>5. Rearranges(D, Swapped(c, n, j), a, lo, last)
      BY <1>d, <3>1, <3>2, <3>4, MovesTwice
    <3> QED BY <3>4, <3>5 DEF c, Swaps
  <2>5. Rearranges(D, b, a, lo, hi - 1)
    BY <2>4
  <2>6. ASSUME NEW k \in D, lo <= k, k <= n PROVE OffsetOrder(b[k], a[hi])
    <3>1. CASE k = n
      BY <1>2, <2>4, <3>1
    <3>2. CASE k # n
      <4>1. k <= s.i /\ k # j
        BY <1>d, <1>0, <2>2, <2>6, <3>2
      <4>2. b[k] = s.A[k]
        BY <2>4, <3>2, <4>1
      <4> QED BY <1>d, <1>0, <2>6, <4>1, <4>2
    <3> QED BY <3>1, <3>2
  <2>7. ASSUME NEW k \in D, n < k, k < j + 1 PROVE ~OffsetOrder(b[k], a[hi])
    <3>1. CASE k = j
      <4>1. b[k] = s.A[n] /\ s.i < n /\ n < j
        BY <1>d, <1>0, <2>2, <2>4, <2>7, <3>1
      <4> QED BY <1>d, <1>0, <2>2, <4>1
    <3>2. CASE k # j
      <4>1. k < j /\ s.i < k /\ k # n
        BY <1>d, <1>0, <2>2, <2>7, <3>2
      <4>2. b[k] = s.A[k]
        BY <2>4, <3>2, <4>1
      <4> QED BY <1>d, <1>0, <4>1, <4>2
    <3> QED BY <3>1, <3>2
  <2> DEFINE t == [A |-> b, i |-> n]
  <2>8. t.A = b /\ t.i = n /\ t = [A |-> t.A, i |-> t.i]
    OBVIOUS
  <2>9. n \in Int /\ lo - 1 <= n /\ n < j + 1
    BY <1>d, <1>0, <2>2
  <2> HIDE DEF t, b, n
  <2>10. Divided(t, D, a, lo, hi, j + 1)
    BY <2>5, <2>6, <2>7, <2>8, <2>9 DEF Divided
  <2> QED BY <2>1, <2>10 DEF t
<1> QED
  BY <1>1, <1>2

(* make_partition puts the pivot where it belongs.                          *)
LEMMA PartitionDivides ==
  ASSUME NEW D, NEW S, NEW a, Array(D, S, a), NEW lo \in D, NEW hi \in D,
         \A k \in Int : lo <= k /\ k <= hi => k \in D, lo < hi
  PROVE  LET m == MakePartition(a, lo, hi)
         IN  /\ m.p \in D /\ lo <= m.p /\ m.p <= hi
             /\ Rearranges(D, m.A, a, lo, hi)
             /\ \A k \in D : lo <= k /\ k < m.p => OffsetOrder(m.A[k], m.A[m.p])
             /\ \A k \in D : m.p < k /\ k <= hi => ~OffsetOrder(m.A[k], m.A[m.p])
<1> DEFINE start == [A |-> a, i |-> lo - 1]
           Is(f) == f = [j \in lo..hi |-> IF j = lo THEN start ELSE Partitioned(f[j - 1], j - 1, a[hi])]
           loop == CHOOSE f : Is(f)
           Upto(f, n) == /\ f = [j \in lo..hi |-> f[j]] /\ f[lo] = start
                         /\ \A j \in lo..hi : lo < j /\ j <= lo + n => f[j] = Partitioned(f[j - 1], j - 1, a[hi])
           Wrong == {n \in Nat : ~ \E f : Upto(f, n)}
<1>d. D \subseteq Int /\ a \in [D -> S] /\ lo \in Int /\ hi \in Int
  BY DEF Array
<1>1. Wrong = {}
  <2>1. SUFFICES ASSUME Wrong # {} PROVE FALSE
    OBVIOUS
  <2>2. Wrong \in SUBSET Nat
    OBVIOUS
  <2>3. PICK n \in Wrong : \A x \in Wrong : n <= x
    <3> HIDE DEF Wrong
    <3> QED BY <2>1, <2>2, MinInSet
  <2>4. n # 0
    <3> DEFINE f == [j \in lo..hi |-> start]
    <3>1. Upto(f, 0)
      BY <1>d
    <3> QED BY <2>3, <3>1
  <2>5. n - 1 \in Nat /\ ~(n <= n - 1) /\ n \in Nat
    BY <2>3, <2>4
  <2>6. n - 1 \notin Wrong
    BY <2>3, <2>5
  <2>7. PICK g : Upto(g, n - 1)
    BY <2>5, <2>6
  <2> DEFINE x == lo + n
             f == [j \in lo..hi |-> IF j = x THEN Partitioned(g[j - 1], j - 1, a[hi]) ELSE g[j]]
  <2>8. f = [j \in lo..hi |-> f[j]] /\ f[lo] = start
    BY <1>d, <2>4, <2>5, <2>7
  <2>9. ASSUME NEW j \in lo..hi, lo < j, j <= x
        PROVE  f[j] = Partitioned(f[j - 1], j - 1, a[hi])
    <3>1. j - 1 \in lo..hi /\ j - 1 # x /\ f[j - 1] = g[j - 1]
      BY <1>d, <2>5, <2>9
    <3>2. CASE j = x
      BY <3>1, <3>2
    <3>3. CASE j # x
      <4>1. j <= lo + (n - 1)
        BY <1>d, <2>5, <2>9, <3>3
      <4>2. g[j] = Partitioned(g[j - 1], j - 1, a[hi])
        BY <2>7, <2>9, <4>1
      <4> QED BY <3>1, <3>3, <4>2
    <3> QED BY <3>2, <3>3
  <2>10. Upto(f, n)
    BY <2>8, <2>9
  <2> QED BY <2>3, <2>10
<1>2. \E f : Is(f)
  <2>1. hi - lo \in Nat
    BY <1>d
  <2>2. PICK f : Upto(f, hi - lo)
    BY <1>1, <2>1
  <2>3. \A j \in lo..hi : f[j] = IF j = lo THEN start ELSE Partitioned(f[j - 1], j - 1, a[hi])
    <3>1. \A j \in lo..hi : j <= lo + (hi - lo) /\ (j # lo => lo < j)
      BY <1>d
    <3>2. f[lo] = start /\ \A j \in lo..hi : lo < j => f[j] = Partitioned(f[j - 1], j - 1, a[hi])
      BY <2>2, <3>1
    <3> HIDE DEF start
    <3> QED BY <3>1, <3>2
  <2>4. Is(f)
    BY <2>2, <2>3
  <2> QED BY <2>4
<1>3. Is(loop)
  <2> HIDE DEF Is
  <2> QED BY <1>2
<1>4. MakePartition(a, lo, hi)
        = [A |-> Swapped(loop[hi].A, loop[hi].i + 1, hi), p |-> loop[hi].i + 1]
  BY DEF MakePartition
<1> HIDE DEF loop
<1>5. loop[lo] = start /\ \A j \in lo..hi : lo < j => loop[j] = Partitioned(loop[j - 1], j - 1, a[hi])
  <2>1. \A j \in lo..hi : loop[j] = IF j = lo THEN start ELSE Partitioned(loop[j - 1], j - 1, a[hi])
    BY <1>3
  <2>2. lo \in lo..hi /\ \A j \in lo..hi : lo < j => j # lo
    BY <1>d
  <2> HIDE DEF start, Is
  <2> QED BY <2>1, <2>2
<1> HIDE DEF Is, Wrong, start
<1> DEFINE Bad == {n \in Nat : lo + n <= hi /\ ~Divided(loop[lo + n], D, a, lo, hi, lo + n)}
<1>6. Bad = {}
  <2>1. SUFFICES ASSUME Bad # {} PROVE FALSE
    OBVIOUS
  <2>2. Bad \in SUBSET Nat
    OBVIOUS
  <2>3. PICK n \in Bad : \A x \in Bad : n <= x
    <3> HIDE DEF Bad
    <3> QED BY <2>1, <2>2, MinInSet
  <2>4. CASE n = 0
    <3>1. start.A = a /\ start.i = lo - 1 /\ start = [A |-> start.A, i |-> start.i]
      BY DEF start
    <3>2. Rearranges(D, a, a, lo, hi - 1)
      BY NothingMoves
    <3>3. Divided(start, D, a, lo, hi, lo)
      BY <1>d, <3>1, <3>2 DEF Divided
    <3>4. lo + n = lo
      BY <1>d, <2>4
    <3> QED BY <1>5, <2>3, <3>3, <3>4
  <2>5. CASE n # 0
    <3> DEFINE j == lo + (n - 1)
    <3>1. n - 1 \in Nat /\ ~(n <= n - 1) /\ lo + n = j + 1 /\ j \in Int /\ lo <= j /\ j < hi
          /\ j + 1 \in lo..hi /\ lo < j + 1 /\ (j + 1) - 1 = j /\ lo + (n - 1) <= hi
      BY <1>d, <2>3, <2>5
    <3>2. n - 1 \notin Bad
      BY <2>3, <3>1
    <3>3. Divided(loop[j], D, a, lo, hi, j)
      BY <3>1, <3>2
    <3>4. j \in D
      BY <3>1
    <3> HIDE DEF j
    <3>5. loop[j + 1] = Partitioned(loop[j], j, a[hi])
      BY <1>5, <3>1
    <3>6. Divided(Partitioned(loop[j], j, a[hi]), D, a, lo, hi, j + 1)
      BY <3>1, <3>3, <3>4, IterationDivides
    <3> QED BY <2>3, <3>1, <3>5, <3>6
  <2> QED BY <2>4, <2>5
<1>7. Divided(loop[hi], D, a, lo, hi, hi)
  <2>1. hi - lo \in Nat /\ lo + (hi - lo) = hi
    BY <1>d
  <2>2. hi - lo \notin Bad
    BY <1>6
  <2> QED BY <1>d, <2>1, <2>2
<1> HIDE DEF Bad
<1> DEFINE s == loop[hi]
           p == s.i + 1
           b == Swapped(s.A, p, hi)
<1>8. /\ s.i \in Int /\ lo - 1 <= s.i /\ s.i < hi
      /\ Rearranges(D, s.A, a, lo, hi - 1)
      /\ \A k \in D : lo <= k /\ k <= s.i => OffsetOrder(s.A[k], a[hi])
      /\ \A k \in D : s.i < k /\ k < hi => ~OffsetOrder(s.A[k], a[hi])
  BY <1>7 DEF Divided
<1>9. p \in Int /\ lo <= p /\ p <= hi /\ p \in D
  <2> DEFINE i == s.i
  <2>1. i \in Int /\ lo - 1 <= i /\ i < hi
    BY <1>8
  <2> HIDE DEF i
  <2>2. i + 1 \in Int /\ lo <= i + 1 /\ i + 1 <= hi
    BY <1>d, <2>1
  <2> QED BY <2>2 DEF i
<1> DEFINE c == s.A
           last == hi - 1
<1>10. /\ Rearranges(D, c, a, lo, last) /\ PartOf(lo, last, lo, hi) /\ PartOf(lo, hi, lo, hi)
       /\ Inside(D, p, lo, hi) /\ Inside(D, hi, lo, hi) /\ ~(lo <= hi /\ hi <= last)
  BY <1>d, <1>8, <1>9 DEF PartOf, Inside
<1>11. /\ Rearranges(D, b, a, lo, hi) /\ c[hi] = a[hi]
       /\ b = [k \in D |-> IF k = p THEN c[hi] ELSE IF k = hi THEN c[p] ELSE c[k]]
  <2> HIDE DEF c, p, last
  <2>1. Array(D, S, c) /\ c[hi] = a[hi]
    BY <1>10, EntriesStay
  <2>2. /\ Rearranges(D, Swapped(c, p, hi), c, lo, hi)
        /\ Swaps(D, Swapped(c, p, hi), c, p, hi)
    <3>1. Array(D, S, c) /\ Inside(D, p, lo, hi) /\ Inside(D, hi, lo, hi)
      BY <1>10, <2>1
    <3> QED BY <3>1, SwapMoves
  <2>3. Rearranges(D, a, a, lo, hi)
    BY <1>d, NothingMoves
  <2>4. Rearranges(D, c, a, lo, hi)
    BY <1>d, <1>10, <2>3, MovesTwice
  <2>5. Rearranges(D, Swapped(c, p, hi), a, lo, hi)
    BY <1>d, <1>10, <2>2, <2>4, MovesTwice
  <2> QED BY <2>1, <2>2, <2>5 DEF c, Swaps
<1> HIDE DEF s
<1>12. Rearranges(D, b, a, lo, hi)
  BY <1>11
<1>13. b[p] = a[hi]
  BY <1>d, <1>9, <1>10, <1>11
<1>14. ASSUME NEW k \in D, lo <= k, k < p PROVE OffsetOrder(b[k], b[p])
  <2>1. k # p /\ k # hi /\ k <= s.i
    BY <1>d, <1>8, <1>9, <1>14
  <2>2. b[k] = c[k]
    BY <1>d, <1>11, <2>1
  <2> QED BY <1>d, <1>8, <1>13, <1>14, <2>1, <2>2
<1>15. ASSUME NEW k \in D, p < k, k <= hi PROVE ~OffsetOrder(b[k], b[p])
  <2>1. CASE k = hi
    <3>1. b[k] = c[p] /\ s.i < p /\ p < hi
      BY <1>d, <1>8, <1>9, <1>11, <1>15, <2>1
    <3> QED BY <1>d, <1>8, <1>9, <1>13, <3>1
  <2>2. CASE k # hi
    <3>1. b[k] = c[k] /\ s.i < k /\ k < hi
      BY <1>d, <1>8, <1>9, <1>11, <1>15, <2>2
    <3> QED BY <1>d, <1>8, <1>13, <3>1
  <2> QED BY <2>1, <2>2
<1> DEFINE m == MakePartition(a, lo, hi)
<1>16. m.A = b /\ m.p = p
  BY <1>4 DEF s
<1> HIDE DEF m, b, p
<1>17. /\ m.p \in D /\ lo <= m.p /\ m.p <= hi
       /\ Rearranges(D, m.A, a, lo, hi)
       /\ \A k \in D : lo <= k /\ k < m.p => OffsetOrder(m.A[k], m.A[m.p])
       /\ \A k \in D : m.p < k /\ k <= hi => ~OffsetOrder(m.A[k], m.A[m.p])
  BY <1>d, <1>9, <1>12, <1>14, <1>15, <1>16
<1> QED
  BY <1>17 DEF m

(* The parts of an array quicksortR is called for, and what it does to one,  *)
(* when f is what its own calls do.                                        *)
PartsOf(D, E, n) == [A : [D -> E], lo : 1..(n + 1), hi : 0..n]
Left(part) ==
  LET m == MakePartition(part.A, part.lo, part.hi)
  IN  [A |-> m.A, lo |-> part.lo, hi |-> m.p - 1]
Right(part, left) ==
  [A |-> left, lo |-> MakePartition(part.A, part.lo, part.hi).p + 1, hi |-> part.hi]
QuicksortR(f, part) ==
  IF part.lo >= part.hi THEN part.A ELSE f[Right(part, f[Left(part)])]

\* An array that quicksort sorts the first n entries of.
Sortable(D, E, n) ==
  /\ D \subseteq Int /\ Entries(E) /\ n \in Nat
  /\ \A k \in Int : 1 <= k /\ k <= n => k \in D

\* A part of it with at least two entries.
Splits(D, E, n, part) == Sortable(D, E, n) /\ part \in PartsOf(D, E, n) /\ part.lo < part.hi

(* A part is partitioned into two smaller ones.                             *)
LEMMA PartSplits ==
  ASSUME NEW D, NEW E, NEW n, NEW part, Splits(D, E, n, part)
  PROVE  LET m == MakePartition(part.A, part.lo, part.hi)
         IN  /\ m.p \in D /\ part.lo <= m.p /\ m.p <= part.hi
             /\ Rearranges(D, m.A, part.A, part.lo, part.hi)
             /\ \A k \in D : part.lo <= k /\ k < m.p => OffsetOrder(m.A[k], m.A[m.p])
             /\ \A k \in D : m.p < k /\ k <= part.hi => ~OffsetOrder(m.A[k], m.A[m.p])
             /\ Left(part) \in PartsOf(D, E, n) /\ Left(part).hi - Left(part).lo < part.hi - part.lo
             /\ \A left \in [D -> E] :
                  /\ Right(part, left) \in PartsOf(D, E, n)
                  /\ Right(part, left).hi - Right(part, left).lo < part.hi - part.lo
<1> DEFINE a == part.A
           lo == part.lo
           hi == part.hi
           m == MakePartition(a, lo, hi)
<1>1. /\ D \subseteq Int /\ n \in Nat /\ a \in [D -> E] /\ lo \in 1..(n + 1) /\ hi \in 0..n /\ lo < hi
      /\ \A k \in Int : 1 <= k /\ k <= n => k \in D
  BY DEF Splits, Sortable, PartsOf
<1>2. part = [A |-> a, lo |-> lo, hi |-> hi]
  BY DEF Splits, PartsOf
<1>3. /\ Left(part) = [A |-> m.A, lo |-> lo, hi |-> m.p - 1]
      /\ \A left : Right(part, left) = [A |-> left, lo |-> m.p + 1, hi |-> hi]
  BY DEF Left, Right
<1> HIDE DEF a, lo, hi
<1>4. /\ Array(D, E, a) /\ lo \in D /\ hi \in D /\ \A k \in Int : lo <= k /\ k <= hi => k \in D
  BY <1>1 DEF Array
<1>5. /\ m.p \in D /\ lo <= m.p /\ m.p <= hi
      /\ Rearranges(D, m.A, a, lo, hi)
      /\ \A k \in D : lo <= k /\ k < m.p => OffsetOrder(m.A[k], m.A[m.p])
      /\ \A k \in D : m.p < k /\ k <= hi => ~OffsetOrder(m.A[k], m.A[m.p])
  BY <1>1, <1>4, PartitionDivides
<1>6. m.A \in [D -> E]
  BY <1>4, <1>5, EntriesStay
<1> DEFINE b == m.A
           p == m.p
<1>7. p \in Int /\ lo <= p /\ p <= hi /\ b \in [D -> E]
  BY <1>1, <1>5, <1>6
<1>8. /\ Left(part) = [A |-> b, lo |-> lo, hi |-> p - 1]
      /\ \A left : Right(part, left) = [A |-> left, lo |-> p + 1, hi |-> hi]
  BY <1>3
<1> HIDE DEF b, p, m
<1>9. p - 1 \in 0..n /\ p + 1 \in 1..(n + 1) /\ (p - 1) - lo < hi - lo /\ hi - (p + 1) < hi - lo
  BY <1>1, <1>7
<1>10. Left(part) \in PartsOf(D, E, n) /\ Left(part).hi - Left(part).lo < hi - lo
  BY <1>1, <1>7, <1>8, <1>9 DEF PartsOf
<1>11. ASSUME NEW left \in [D -> E]
       PROVE  /\ Right(part, left) \in PartsOf(D, E, n)
              /\ Right(part, left).hi - Right(part, left).lo < hi - lo
  BY <1>1, <1>8, <1>9 DEF PartsOf
<1> QED
  BY <1>5, <1>10, <1>11 DEF m, a, lo, hi

(* What quicksortR does depends on what it does to smaller parts only.      *)
Agree(f, g, D, E, n, part) ==
  \A q \in PartsOf(D, E, n) : q.hi - q.lo < part.hi - part.lo => f[q] = g[q]

LEMMA SmallerParts ==
  ASSUME NEW D, NEW E, NEW n, Sortable(D, E, n), NEW part \in PartsOf(D, E, n),
         NEW g \in [PartsOf(D, E, n) -> [D -> E]], NEW f, Agree(f, g, D, E, n, part)
  PROVE  QuicksortR(f, part) = QuicksortR(g, part) /\ QuicksortR(g, part) \in [D -> E]
<1>1. CASE part.lo >= part.hi
  BY <1>1 DEF QuicksortR, PartsOf
<1>2. CASE ~(part.lo >= part.hi)
  <2>1. Splits(D, E, n, part)
    BY <1>2 DEF Splits, PartsOf
  <2>2. Left(part) \in PartsOf(D, E, n) /\ Left(part).hi - Left(part).lo < part.hi - part.lo
    BY <2>1, PartSplits
  <2> DEFINE left == g[Left(part)]
             right == Right(part, left)
  <2>3. left \in [D -> E] /\ f[Left(part)] = left
    BY <2>2 DEF Agree
  <2>4. right \in PartsOf(D, E, n) /\ right.hi - right.lo < part.hi - part.lo
    BY <2>1, <2>3, PartSplits
  <2>5. g[right] \in [D -> E] /\ f[right] = g[right]
    BY <2>4 DEF Agree
  <2> QED BY <1>2, <2>3, <2>5 DEF QuicksortR
<1> QED
  BY <1>1, <1>2

(* So there is a function that calls itself, and quicksort is such a one.   *)
Sorts(f, D, E, n) ==
  /\ f \in [PartsOf(D, E, n) -> [D -> E]]
  /\ \A part \in PartsOf(D, E, n) : f[part] = QuicksortR(f, part)

LEMMA QuicksortCallsItself ==
  ASSUME NEW A, NEW lo, NEW n, Sortable(DOMAIN A, {A[i] : i \in DOMAIN A}, n)
  PROVE  \E f : /\ Sorts(f, DOMAIN A, {A[i] : i \in DOMAIN A}, n)
                /\ Quicksort(A, lo, n) = f[[A |-> A, lo |-> lo, hi |-> n]]
<1> DEFINE D == DOMAIN A
           E == {A[i] : i \in DOMAIN A}
           P == PartsOf(D, E, n)
           Is(f) == f = [part \in P |-> QuicksortR(f, part)]
           sort == CHOOSE f : Is(f)
<1>1. Quicksort(A, lo, n) = sort[[A |-> A, lo |-> lo, hi |-> n]]
  BY DEF Quicksort, QuicksortR, Left, Right, PartsOf
<1>2. Sortable(D, E, n) /\ n \in Nat
  BY DEF Sortable
<1> HIDE DEF D, E
<1> DEFINE Upto(g, k) == /\ g \in [P -> [D -> E]]
                         /\ \A part \in P : part.hi - part.lo <= k => g[part] = QuicksortR(g, part)
           Wrong == {k \in Nat : ~ \E g : Upto(g, k)}
<1>3. \A part \in P : part.hi - part.lo \in Int /\ part.hi - part.lo <= n /\ part.A \in [D -> E]
                      /\ (part.lo >= part.hi <=> part.hi - part.lo <= 0)
  BY <1>2 DEF PartsOf
<1>4. Wrong = {}
  <2>1. SUFFICES ASSUME Wrong # {} PROVE FALSE
    OBVIOUS
  <2>2. Wrong \in SUBSET Nat
    OBVIOUS
  <2>3. PICK k \in Wrong : \A x \in Wrong : k <= x
    <3> HIDE DEF Wrong
    <3> QED BY <2>1, <2>2, MinInSet
  <2> HIDE DEF P
  <2>4. k # 0
    <3> DEFINE g == [part \in P |-> part.A]
    <3>1. \A part \in P : part.hi - part.lo <= 0 => g[part] = QuicksortR(g, part)
      BY <1>3 DEF QuicksortR
    <3>2. g \in [P -> [D -> E]]
      BY <1>3
    <3>3. Upto(g, 0)
      BY <3>1, <3>2
    <3> QED BY <2>3, <3>3
  <2>5. k - 1 \in Nat /\ ~(k <= k - 1) /\ k \in Nat
    BY <2>3, <2>4
  <2>6. k - 1 \notin Wrong
    BY <2>3, <2>5
  <2>7. PICK g : Upto(g, k - 1)
    BY <2>5, <2>6
  <2> DEFINE f == [part \in P |-> IF part.hi - part.lo <= k - 1 THEN g[part] ELSE QuicksortR(g, part)]
  <2>8. \A part \in P : QuicksortR(g, part) \in [D -> E]
    <3> SUFFICES ASSUME NEW part \in P PROVE QuicksortR(g, part) \in [D -> E]
      OBVIOUS
    <3>1. Agree(g, g, D, E, n, part)
      BY DEF Agree
    <3> QED BY <1>2, <2>7, <3>1, SmallerParts DEF P
  <2>9. f \in [P -> [D -> E]]
    BY <2>7, <2>8
  <2>10. ASSUME NEW part \in P, part.hi - part.lo <= k PROVE f[part] = QuicksortR(f, part)
    <3>1. f[part] = QuicksortR(g, part)
      BY <2>7
    <3>2. \A q \in P : q.hi - q.lo < part.hi - part.lo => f[q] = g[q]
      <4> SUFFICES ASSUME NEW q \in P, q.hi - q.lo < part.hi - part.lo PROVE f[q] = g[q]
        OBVIOUS
      <4> DEFINE x == q.hi - q.lo
                 y == part.hi - part.lo
      <4>1. x \in Int /\ y \in Int /\ x < y /\ y <= k
        BY <1>3, <2>10
      <4> HIDE DEF x, y
      <4>2. x <= k - 1
        BY <2>5, <4>1
      <4> QED BY <4>2 DEF x
    <3> HIDE DEF f
    <3>3. Agree(f, g, D, E, n, part)
      BY <3>2 DEF Agree, P
    <3>4. QuicksortR(f, part) = QuicksortR(g, part)
      BY <1>2, <2>7, <3>3, SmallerParts DEF P
    <3> QED BY <3>1, <3>4
  <2>11. Upto(f, k)
    BY <2>9, <2>10
  <2> QED BY <2>3, <2>11
<1>5. PICK g : Upto(g, n)
  BY <1>2, <1>4
<1>6. Is(g)
  <2>1. g \in [P -> [D -> E]] /\ \A part \in P : g[part] = QuicksortR(g, part)
    BY <1>3, <1>5
  <2> HIDE DEF P
  <2> QED BY <2>1
<1>7. Is(sort)
  <2> HIDE DEF Is
  <2> QED BY <1>6
<1> HIDE DEF sort
<1> DEFINE Differs(part, k) == part.hi - part.lo <= k /\ sort[part] # g[part]
           Bad == {k \in Nat : \E part \in P : Differs(part, k)}
<1>s. \A part \in P : sort[part] = QuicksortR(sort, part)
  <2> HIDE DEF P
  <2> QED BY <1>7
<1>g. g \in [P -> [D -> E]] /\ \A part \in P : g[part] = QuicksortR(g, part)
  BY <1>3, <1>5
<1>8. Bad = {}
  <2>1. SUFFICES ASSUME Bad # {} PROVE FALSE
    OBVIOUS
  <2>2. Bad \in SUBSET Nat
    OBVIOUS
  <2>3. PICK k \in Bad : \A x \in Bad : k <= x
    <3> HIDE DEF Bad
    <3> QED BY <2>1, <2>2, MinInSet
  <2> HIDE DEF P
  <2>4. PICK part \in P : Differs(part, k)
    BY <2>3
  <2>5. CASE k = 0
    <3>1. sort[part] = part.A /\ g[part] = part.A
      BY <1>3, <1>s, <1>g, <2>4, <2>5 DEF QuicksortR
    <3> QED BY <2>4, <3>1
  <2>6. CASE k # 0
    <3>1. k - 1 \in Nat /\ ~(k <= k - 1) /\ k \in Nat
      BY <2>3, <2>6
    <3>2. k - 1 \notin Bad
      BY <2>3, <3>1
    <3>3. ASSUME NEW q \in P, q.hi - q.lo < part.hi - part.lo PROVE sort[q] = g[q]
      <4> DEFINE x == q.hi - q.lo
                 y == part.hi - part.lo
      <4>1. x \in Int /\ y \in Int /\ x < y /\ y <= k
        BY <1>3, <2>4, <3>3
      <4> HIDE DEF x, y
      <4>2. x <= k - 1
        BY <3>1, <4>1
      <4>3. q.hi - q.lo <= k - 1
        BY <4>2 DEF x
      <4> QED BY <3>1, <3>2, <4>3
    <3>4. Agree(sort, g, D, E, n, part)
      BY <3>3 DEF Agree, P
    <3>5. QuicksortR(sort, part) = QuicksortR(g, part)
      BY <1>2, <1>g, <3>4, SmallerParts DEF P
    <3> QED BY <1>s, <1>g, <2>4, <3>5
  <2> QED BY <2>5, <2>6
<1> HIDE DEF Is
<1>9. Sorts(sort, D, E, n)
  <2>1. \A part \in P : sort[part] = g[part]
    <3> SUFFICES ASSUME NEW part \in P PROVE sort[part] = g[part]
      OBVIOUS
    <3>1. part.hi - part.lo <= n /\ n \notin Bad /\ n \in Nat
      BY <1>2, <1>3, <1>8
    <3> HIDE DEF P
    <3> QED BY <3>1
  <2> HIDE DEF P
  <2>2. sort = [part \in P |-> sort[part]]
    BY <1>7 DEF Is
  <2>3. sort \in [P -> [D -> E]]
    BY <1>g, <2>1, <2>2
  <2> QED BY <1>s, <2>3 DEF Sorts, P
<1> QED
  BY <1>1, <1>9 DEF D, E

(* r is a with a part of it in another order, which is the order of offsets. *)
Ordered(D, r, a, l, h) ==
  /\ Rearranges(D, r, a, l, h)
  /\ \A i, j \in D : l <= i /\ i <= j /\ j <= h => OffsetOrder(r[i], r[j])

\* b is a partitioned between lo and hi, with the pivot at p.
PutsPivot(D, b, a, lo, hi, p) ==
  /\ p \in D /\ lo \in Int /\ hi \in Int /\ lo <= p /\ p <= hi
  /\ Rearranges(D, b, a, lo, hi)
  /\ \A k \in D : lo <= k /\ k < p => OffsetOrder(b[k], b[p])
  /\ \A k \in D : p < k /\ k <= hi => ~OffsetOrder(b[k], b[p])

(* Two sorted parts and the pivot between them make a sorted whole.         *)
LEMMA SortedPartsJoin ==
  ASSUME NEW D, NEW E, Entries(E), NEW a, Array(D, E, a), NEW b, NEW l, NEW r, NEW lo, NEW hi, NEW p,
         PutsPivot(D, b, a, lo, hi, p), Ordered(D, l, b, lo, p - 1), Ordered(D, r, l, p + 1, hi)
  PROVE  Ordered(D, r, a, lo, hi)
<1> DEFINE before == p - 1
           after == p + 1
<1>d. D \subseteq Int
  BY DEF Array
<1>1. /\ p \in D /\ p \in Int /\ lo \in Int /\ hi \in Int /\ lo <= p /\ p <= hi
      /\ Rearranges(D, b, a, lo, hi)
      /\ \A k \in D : lo <= k /\ k < p => OffsetOrder(b[k], b[p])
      /\ \A k \in D : p < k /\ k <= hi => ~OffsetOrder(b[k], b[p])
  BY <1>d DEF PutsPivot
<1>2. /\ before \in Int /\ after \in Int
      /\ \A k \in Int : (k <= before <=> k < p) /\ (after <= k <=> p < k)
  BY <1>1
<1>3. Ordered(D, l, b, lo, before) /\ Ordered(D, r, l, after, hi)
  OBVIOUS
<1> HIDE DEF before, after
<1>4. Array(D, E, b) /\ b \in [D -> E]
  BY <1>1, EntriesStay
<1>5. /\ Array(D, E, l) /\ l \in [D -> E] /\ Rearranges(D, l, b, lo, before)
      /\ \A i \in D : ~(lo <= i /\ i <= before) => l[i] = b[i]
      /\ \A i \in D : lo <= i /\ i <= before => \E j \in D : lo <= j /\ j <= before /\ l[i] = b[j]
      /\ \A i, j \in D : lo <= i /\ i <= j /\ j <= before => OffsetOrder(l[i], l[j])
  BY <1>3, <1>4, EntriesStay DEF Ordered
<1>6. /\ r \in [D -> E] /\ Rearranges(D, r, l, after, hi)
      /\ \A i \in D : ~(after <= i /\ i <= hi) => r[i] = l[i]
      /\ \A i \in D : after <= i /\ i <= hi => \E j \in D : after <= j /\ j <= hi /\ r[i] = l[j]
      /\ \A i, j \in D : after <= i /\ i <= j /\ j <= hi => OffsetOrder(r[i], r[j])
  BY <1>3, <1>5, EntriesStay DEF Ordered
<1>7. Rearranges(D, r, a, lo, hi)
  <2>1. PartOf(lo, before, lo, hi) /\ PartOf(after, hi, lo, hi)
    BY <1>1, <1>2 DEF PartOf
  <2>2. Rearranges(D, l, a, lo, hi)
    BY <1>d, <1>1, <1>5, <2>1, MovesTwice
  <2> QED BY <1>d, <1>6, <2>1, <2>2, MovesTwice
<1>8. \A i \in D : lo <= i /\ i < p => OffsetOrder(r[i], b[p]) /\ r[i] = l[i]
  <2> SUFFICES ASSUME NEW i \in D, lo <= i, i < p PROVE OffsetOrder(r[i], b[p]) /\ r[i] = l[i]
    OBVIOUS
  <2>1. i \in Int /\ i <= before /\ ~(after <= i)
    BY <1>d, <1>1, <1>2
  <2>2. PICK j \in D : lo <= j /\ j <= before /\ l[i] = b[j]
    BY <1>5, <2>1
  <2>3. j < p
    BY <1>d, <1>2, <2>2
  <2> QED BY <1>1, <1>6, <2>1, <2>2, <2>3
<1>9. r[p] = b[p]
  <2>1. ~(p <= before) /\ ~(after <= p)
    BY <1>1, <1>2
  <2> QED BY <1>1, <1>5, <1>6, <2>1
<1>10. \A i \in D : p < i /\ i <= hi => ~OffsetOrder(r[i], b[p])
  <2> SUFFICES ASSUME NEW i \in D, p < i, i <= hi PROVE ~OffsetOrder(r[i], b[p])
    OBVIOUS
  <2>1. after <= i
    BY <1>d, <1>2
  <2>2. PICK j \in D : after <= j /\ j <= hi /\ r[i] = l[j]
    BY <1>6, <2>1
  <2>3. p < j /\ ~(j <= before)
    BY <1>d, <1>1, <1>2, <2>2
  <2> QED BY <1>1, <1>5, <2>2, <2>3
<1>11. /\ \A x, y \in E : OffsetOrder(x, y) \/ OffsetOrder(y, x)
       /\ \A x, y, z \in E : OffsetOrder(x, y) /\ OffsetOrder(y, z) => OffsetOrder(x, z)
  BY OffsetsAreOrdered
<1>12. ASSUME NEW i \in D, NEW j \in D, lo <= i, i <= j, j <= hi PROVE OffsetOrder(r[i], r[j])
  <2>1. i \in Int /\ j \in Int /\ r[i] \in E /\ r[j] \in E /\ r[p] \in E /\ b[p] \in E
    BY <1>d, <1>1, <1>4, <1>6
  <2>2. CASE j < p
    <3>1. i < p /\ lo <= j /\ j <= before
      BY <1>1, <1>2, <1>12, <2>1, <2>2
    <3>2. r[i] = l[i] /\ r[j] = l[j]
      BY <1>8, <1>12, <2>2, <3>1
    <3> QED BY <1>5, <1>12, <3>1, <3>2
  <2>3. CASE p < i
    <3>1. after <= i
      BY <1>2, <2>1, <2>3
    <3> QED BY <1>6, <1>12, <3>1
  <2>4. CASE ~(j < p) /\ ~(p < i)
    <3>1. (i < p \/ i = p) /\ (p < j \/ j = p)
      BY <1>1, <2>1, <2>4
    <3>2. OffsetOrder(r[i], b[p])
      BY <1>8, <1>9, <1>11, <1>12, <2>1, <3>1
    <3>3. OffsetOrder(b[p], r[j])
      BY <1>9, <1>10, <1>11, <1>12, <2>1, <3>1
    <3> QED BY <1>11, <2>1, <3>2, <3>3
  <2> QED BY <2>2, <2>3, <2>4
<1> QED
  BY <1>7, <1>12 DEF Ordered

(* What quicksortR leaves of a part is the part in order.                   *)
LEMMA QuicksortOrders ==
  ASSUME NEW D, NEW E, NEW n, Sortable(D, E, n), NEW f, Sorts(f, D, E, n)
  PROVE  \A part \in PartsOf(D, E, n) : Ordered(D, f[part], part.A, part.lo, part.hi)
<1> DEFINE P == PartsOf(D, E, n)
           Unordered(part, k) == part.hi - part.lo <= k /\ ~Ordered(D, f[part], part.A, part.lo, part.hi)
           Bad == {k \in Nat : \E part \in P : Unordered(part, k)}
<1>1. /\ D \subseteq Int /\ n \in Nat /\ Entries(E)
      /\ f \in [P -> [D -> E]]
      /\ \A part \in P : f[part] = QuicksortR(f, part)
  BY DEF Sortable, Sorts
<1>2. \A part \in P : /\ part.hi - part.lo \in Int /\ part.hi - part.lo <= n /\ Array(D, E, part.A)
                      /\ part.lo \in Int /\ part.hi \in Int
                      /\ (part.lo >= part.hi <=> part.hi - part.lo <= 0)
  BY <1>1 DEF PartsOf, Array
<1>3. \A part \in P : part.lo >= part.hi => Ordered(D, f[part], part.A, part.lo, part.hi)
  <2> SUFFICES ASSUME NEW part \in P, part.lo >= part.hi
               PROVE  Ordered(D, f[part], part.A, part.lo, part.hi)
    OBVIOUS
  <2> DEFINE a == part.A
             lo == part.lo
             hi == part.hi
  <2>1. f[part] = a /\ Array(D, E, a) /\ lo \in Int /\ hi \in Int /\ hi <= lo
    BY <1>1, <1>2 DEF QuicksortR
  <2> HIDE DEF a, lo, hi
  <2>2. Rearranges(D, a, a, lo, hi)
    BY <2>1, NothingMoves
  <2>3. ASSUME NEW i \in D, NEW j \in D, lo <= i, i <= j, j <= hi PROVE OffsetOrder(a[i], a[j])
    <3>1. i = j
      BY <1>1, <2>1, <2>3
    <3>2. a[i] \in E
      BY <2>1 DEF Array
    <3> QED BY <1>1, <3>1, <3>2, OffsetsAreOrdered
  <2>4. Ordered(D, a, a, lo, hi)
    BY <2>2, <2>3 DEF Ordered
  <2> QED BY <2>1, <2>4 DEF a, lo, hi
<1>4. Bad = {}
  <2>1. SUFFICES ASSUME Bad # {} PROVE FALSE
    OBVIOUS
  <2>2. Bad \in SUBSET Nat
    OBVIOUS
  <2>3. PICK k \in Bad : \A x \in Bad : k <= x
    <3> HIDE DEF Bad
    <3> QED BY <2>1, <2>2, MinInSet
  <2> HIDE DEF P
  <2>4. PICK part \in P : Unordered(part, k)
    BY <2>3
  <2>5. ~(part.lo >= part.hi)
    BY <1>3, <2>4
  <2>6. \A q \in P : q.hi - q.lo < part.hi - part.lo => Ordered(D, f[q], q.A, q.lo, q.hi)
    <3> SUFFICES ASSUME NEW q \in P, q.hi - q.lo < part.hi - part.lo,
                        ~Ordered(D, f[q], q.A, q.lo, q.hi)
                 PROVE  FALSE
      OBVIOUS
    <3> DEFINE x == q.hi - q.lo
               y == part.hi - part.lo
    <3>1. x \in Int /\ y \in Int /\ x < y /\ y <= k /\ k \in Nat /\ ~(y <= 0)
      BY <1>2, <2>3, <2>4, <2>5
    <3> HIDE DEF x, y
    <3>2. k - 1 \in Nat /\ x <= k - 1 /\ ~(k <= k - 1)
      BY <3>1
    <3>3. q.hi - q.lo <= k - 1
      BY <3>2 DEF x
    <3>4. k - 1 \in Bad
      BY <3>2, <3>3
    <3> HIDE DEF Bad
    <3> QED BY <2>3, <3>2, <3>4
  <2> DEFINE m == MakePartition(part.A, part.lo, part.hi)
             a == part.A
             lo == part.lo
             hi == part.hi
             left == f[Left(part)]
             right == f[Right(part, left)]
  <2>7. Splits(D, E, n, part)
    <3>1. part.lo \in Int /\ part.hi \in Int
      BY <1>2
    <3>2. part.lo < part.hi
      BY <2>5, <3>1
    <3> QED BY <3>2 DEF Splits, P
  <2>8. /\ PutsPivot(D, m.A, a, lo, hi, m.p)
        /\ Left(part) \in P /\ Left(part).hi - Left(part).lo < part.hi - part.lo
        /\ \A q \in [D -> E] : /\ Right(part, q) \in P
                               /\ Right(part, q).hi - Right(part, q).lo < part.hi - part.lo
    BY <1>2, <2>7, PartSplits DEF PutsPivot, P
  <2>9. left \in [D -> E]
    BY <1>1, <2>8
  <2>10. Ordered(D, left, m.A, lo, m.p - 1)
    <3>1. Left(part).A = m.A /\ Left(part).lo = lo /\ Left(part).hi = m.p - 1
      BY DEF Left
    <3>2. Ordered(D, f[Left(part)], Left(part).A, Left(part).lo, Left(part).hi)
      BY <2>6, <2>8
    <3> QED BY <3>1, <3>2
  <2>11. Ordered(D, right, left, m.p + 1, hi)
    <3> HIDE DEF left
    <3> DEFINE q == Right(part, left)
    <3>1. q.A = left /\ q.lo = m.p + 1 /\ q.hi = hi
      BY DEF Right
    <3>2. q \in P /\ q.hi - q.lo < part.hi - part.lo
      BY <2>8, <2>9
    <3> HIDE DEF q
    <3>3. Ordered(D, f[q], q.A, q.lo, q.hi)
      BY <2>6, <3>2
    <3> QED BY <3>1, <3>3 DEF q
  <2>12. f[part] = right
    BY <1>1, <2>5 DEF QuicksortR
  <2>13. Array(D, E, a)
    BY <1>2
  <2> HIDE DEF m, a, lo, hi, left, right
  <2>14. Ordered(D, right, a, lo, hi)
    BY <1>1, <2>8, <2>10, <2>11, <2>13, SortedPartsJoin
  <2> QED BY <2>4, <2>12, <2>14 DEF a, lo, hi
<1>5. ASSUME NEW part \in P PROVE Ordered(D, f[part], part.A, part.lo, part.hi)
  <2>1. n \notin Bad /\ n \in Nat /\ part.hi - part.lo <= n
    BY <1>1, <1>2, <1>4
  <2> HIDE DEF P
  <2> QED BY <2>1
<1> QED
  BY <1>5

LEMMA TableIsSorted ==
  ASSUME AllocatorAssumption, TypeOK
  PROVE  QuicksortSorts
<1> DEFINE N == NUM_OF_SLOTS
<1>1. N \in Nat /\ 1 <= N /\ \A i : i \in Slots <=> i \in Int /\ 1 <= i /\ i <= N
  BY DEF AllocatorAssumption, Slots
<1>2. \A i \in Slots : table[i].offset \in Int
  BY BitFields DEF TypeOK
<1> SUFFICES ASSUME NEW order \in Orders
             PROVE  LET before == [i \in Slots |-> table[order[i]]]
                        after == Quicksort(before, 1, N)
                        Occurrences(A, entry) == Cardinality({i \in Slots : A[i] = entry})
                    IN  /\ \A i, j \in Slots : i <= j => OffsetOrder(after[i], after[j])
                        /\ \A i \in Slots : Occurrences(after, table[i]) = Occurrences(table, table[i])
  BY DEF QuicksortSorts
<1> DEFINE before == [i \in Slots |-> table[order[i]]]
           after == Quicksort(before, 1, N)
           E == {before[i] : i \in DOMAIN before}
<1>3. Moves(Slots, order, 1, N)
  <2>1. order \in [Slots -> Slots] /\ \A j \in Slots : \E i \in Slots : order[i] = j
    BY DEF Orders, Bijection, Injection, Surjection
  <2>2. \A i, j \in Slots : order[i] = order[j] => i = j
    BY DEF Orders, Bijection, Injection, IsInjective
  <2> QED BY <1>1, <2>1, <2>2 DEF Moves
<1>4. Rearranges(Slots, before, table, 1, N)
  BY <1>3 DEF Rearranges
<1>5. DOMAIN before = Slots /\ before \in [Slots -> E]
  OBVIOUS
<1>6. Sortable(Slots, E, N)
  <2>1. Entries(E)
    BY <1>2, <1>3 DEF Entries, Moves
  <2> HIDE DEF E
  <2> QED BY <1>1, <2>1 DEF Sortable
<1> HIDE DEF before, N
<1>7. PICK f : Sorts(f, Slots, E, N) /\ after = f[[A |-> before, lo |-> 1, hi |-> N]]
  BY <1>5, <1>6, QuicksortCallsItself
<1>8. Ordered(Slots, after, before, 1, N)
  <2> DEFINE part == [A |-> before, lo |-> 1, hi |-> N]
  <2>1. part \in PartsOf(Slots, E, N)
    BY <1>1, <1>5 DEF PartsOf
  <2>2. part.A = before /\ part.lo = 1 /\ part.hi = N
    OBVIOUS
  <2> HIDE DEF part, E, after
  <2>3. Ordered(Slots, f[part], part.A, part.lo, part.hi)
    BY <1>6, <1>7, <2>1, QuicksortOrders
  <2> QED BY <1>7, <2>2, <2>3 DEF part
<1>9. IsFiniteSet(Slots)
  BY <1>1, FS_Interval DEF Slots, N
<1> HIDE DEF after
<1>10. ASSUME NEW e
       PROVE  Cardinality({i \in Slots : after[i] = e}) = Cardinality({i \in Slots : table[i] = e})
  <2>1. Cardinality({i \in Slots : after[i] = e}) = Cardinality({i \in Slots : before[i] = e})
    <3>1. Rearranges(Slots, after, before, 1, N)
      BY <1>8 DEF Ordered
    <3> QED BY <1>9, <3>1, OccurrencesStay
  <2>2. Cardinality({i \in Slots : before[i] = e}) = Cardinality({i \in Slots : table[i] = e})
    <3>1. Rearranges(Slots, before, table, 1, N)
      BY <1>4
    <3> HIDE DEF E
    <3> QED BY <1>9, <3>1, OccurrencesStay
  <2> QED BY <2>1, <2>2
<1>11. \A i, j \in Slots : i <= j => OffsetOrder(after[i], after[j])
  BY <1>1, <1>8 DEF Ordered
<1> QED
  BY <1>10, <1>11 DEF after, before

(***************************************************************************)
(* quicksort leaves the entries of the table in the order of their offsets *)
(* and each of them as often as before, whatever order they were in.       *)
(***************************************************************************)
THEOREM QuicksortIsCorrect ==
  ASSUME AllocatorAssumption
  PROVE  Spec => []QuicksortSorts
<1>1. Spec => []TypeOK
  BY AllocatorTypeCorrect
<1>2. TypeOK => QuicksortSorts
  BY TableIsSorted
<1> QED
  BY <1>1, <1>2, PTL

-----------------------------------------------------------------------------
(* A part that is already in the only possible order stays as it is.        *)
LEMMA SortedStays ==
  ASSUME NEW D, NEW S, NEW a, Array(D, S, a), NEW n \in Nat,
         \A k \in Int : 1 <= k /\ k <= n => k \in D,
         \A i, j \in D : 1 <= i /\ i < j /\ j <= n => ~OffsetOrder(a[j], a[i]),
         NEW r, Ordered(D, r, a, 1, n)
  PROVE  r = a
<1>d. D \subseteq Int /\ a \in [D -> S]
  BY DEF Array
<1>1. PICK p : Moves(D, p, 1, n) /\ r = [i \in D |-> a[p[i]]]
  BY DEF Ordered, Rearranges
<1>2. /\ p \in [D -> D]
      /\ \A i, j \in D : p[i] = p[j] => i = j
      /\ \A j \in D : \E i \in D : p[i] = j
      /\ \A i \in D : ~(1 <= i /\ i <= n) => p[i] = i
  BY <1>1 DEF Moves
<1>3. \A i \in D : 1 <= i /\ i <= n => 1 <= p[i] /\ p[i] <= n
  <2> SUFFICES ASSUME NEW i \in D, 1 <= i, i <= n, ~(1 <= p[i] /\ p[i] <= n) PROVE FALSE
    OBVIOUS
  <2>1. p[i] \in D /\ p[p[i]] = p[i]
    BY <1>2
  <2> QED BY <1>2, <2>1
<1>4. ASSUME NEW i \in D, NEW j \in D, 1 <= i, i < j, j <= n PROVE p[i] < p[j]
  <2> DEFINE x == p[i]
             y == p[j]
  <2>1. i \in Int /\ j \in Int /\ i <= n /\ 1 <= j /\ i <= j /\ i # j
    BY <1>d, <1>4
  <2>2. x \in D /\ y \in D /\ 1 <= x /\ x <= n /\ 1 <= y /\ y <= n /\ x # y
    BY <1>2, <1>3, <1>4, <2>1
  <2>3. OffsetOrder(a[x], a[y])
    <3>1. OffsetOrder(r[i], r[j])
      BY <1>4, <2>1 DEF Ordered
    <3> QED BY <1>1, <3>1
  <2> HIDE DEF x, y
  <2>4. ~(y < x)
    BY <2>2, <2>3
  <2>5. x < y
    BY <1>d, <2>2, <2>4
  <2> QED BY <2>5 DEF x, y
<1> DEFINE Moved == {i \in Nat : i \in D /\ 1 <= i /\ i <= n /\ p[i] # i}
<1>5. Moved = {}
  <2>1. SUFFICES ASSUME Moved # {} PROVE FALSE
    OBVIOUS
  <2>2. Moved \in SUBSET Nat
    OBVIOUS
  <2>3. PICK i \in Moved : \A x \in Moved : i <= x
    <3> HIDE DEF Moved
    <3> QED BY <2>1, <2>2, MinInSet
  <2>4. i \in Nat /\ i \in D /\ 1 <= i /\ i <= n /\ p[i] # i
    BY <2>3
  <2>5. \A x \in D : 1 <= x /\ x < i => p[x] = x
    <3> SUFFICES ASSUME NEW x \in D, 1 <= x, x < i, p[x] # x PROVE FALSE
      OBVIOUS
    <3>1. x \in Nat /\ x <= n /\ ~(i <= x)
      BY <1>d, <2>4
    <3>2. x \in Moved
      BY <3>1
    <3> QED BY <2>3, <3>1, <3>2
  <2> DEFINE y == p[i]
  <2>6. y \in D /\ y \in Int /\ 1 <= y /\ y <= n
    BY <1>d, <1>2, <1>3, <2>4
  <2>7. PICK k \in D : p[k] = i
    BY <1>2, <2>4
  <2>8. 1 <= k /\ k <= n /\ k \in Int
    BY <1>d, <1>2, <2>4, <2>7
  <2>9. ~(y < i)
    BY <1>2, <2>4, <2>5, <2>6
  <2>10. i < k
    BY <2>4, <2>5, <2>7, <2>8
  <2>11. y < i
    BY <1>4, <2>4, <2>7, <2>8, <2>10
  <2> QED BY <2>9, <2>11
<1>6. \A i \in D : p[i] = i
  <2> SUFFICES ASSUME NEW i \in D, p[i] # i PROVE FALSE
    OBVIOUS
  <2>1. i \in Int /\ 1 <= i /\ i <= n
    BY <1>d, <1>2
  <2>2. i \in Moved
    BY <2>1
  <2> QED BY <1>5, <2>2
<1> QED
  BY <1>d, <1>1, <1>6

(* Chunks that follow one another add up to the distance of their ends.     *)
LEMMA SizesAddUp ==
  ASSUME NEW t, NEW base \in Int, NEW end \in Int, base <= end,
         \A k \in Int : base <= k /\ k <= end => t[k].offset \in Nat,
         \A k \in Int : base <= k /\ k < end => t[k].size \in Nat /\ t[k + 1].offset = t[k].offset + t[k].size
  PROVE  NewSize(t, base, end) = t[end].offset - t[base].offset
<1> DEFINE D == base..end
           Sums(f) == f = [k \in D |-> IF k = base THEN 0 ELSE f[k - 1] + t[k - 1].size]
           ends == [k \in D |-> t[k].offset - t[base].offset]
<1>1. Sums(ends)
  <2>1. ASSUME NEW k \in D, k # base PROVE ends[k] = ends[k - 1] + t[k - 1].size
    <3>1. k - 1 \in D /\ k - 1 \in Int /\ base <= k - 1 /\ k - 1 < end /\ (k - 1) + 1 = k
      BY <2>1
    <3>2. t[k - 1].size \in Nat /\ t[k].offset = t[k - 1].offset + t[k - 1].size
      BY <3>1
    <3>3. t[k - 1].offset \in Nat /\ t[base].offset \in Nat
      BY <3>1
    <3>4. ends[k] = t[k].offset - t[base].offset /\ ends[k - 1] = t[k - 1].offset - t[base].offset
      BY <3>1
    <3> QED BY <3>2, <3>3, <3>4
  <2>2. ends[base] = 0
    <3>1. base \in D /\ t[base].offset \in Nat
      OBVIOUS
    <3> QED BY <3>1
  <2> HIDE DEF D
  <2>3. ends = [k \in D |-> IF k = base THEN 0 ELSE ends[k - 1] + t[k - 1].size]
    BY <2>1, <2>2
  <2> QED BY <2>3
<1> DEFINE sum == CHOOSE f : Sums(f)
<1>2. Sums(sum)
  <2> HIDE DEF Sums, ends
  <2> QED BY <1>1
<1>3. NewSize(t, base, end) = sum[end]
  BY DEF NewSize
<1> HIDE DEF sum
<1>4. \A k \in D : sum[k] = IF k = base THEN 0 ELSE sum[k - 1] + t[k - 1].size
  BY <1>2
<1>5. \A k \in D : ends[k] = IF k = base THEN 0 ELSE ends[k - 1] + t[k - 1].size
  BY <1>1
<1> DEFINE Differ == {n \in Nat : base + n \in D /\ sum[base + n] # ends[base + n]}
<1>6. Differ = {}
  <2>1. SUFFICES ASSUME Differ # {} PROVE FALSE
    OBVIOUS
  <2>2. Differ \in SUBSET Nat
    OBVIOUS
  <2>3. PICK n \in Differ : \A x \in Differ : n <= x
    <3> HIDE DEF Differ
    <3> QED BY <2>1, <2>2, MinInSet
  <2> HIDE DEF ends, Sums
  <2>4. n # 0
    <3>1. base + 0 = base /\ base \in D
      OBVIOUS
    <3> QED BY <1>4, <1>5, <2>3, <3>1
  <2>5. /\ n - 1 \in Nat /\ ~(n <= n - 1) /\ base + n # base
        /\ base + (n - 1) \in D /\ (base + n) - 1 = base + (n - 1) /\ base + n \in D
    BY <2>3, <2>4
  <2>6. n - 1 \notin Differ
    BY <2>3, <2>5
  <2>7. sum[base + (n - 1)] = ends[base + (n - 1)]
    BY <2>5, <2>6
  <2>8. sum[base + n] # ends[base + n]
    BY <2>3
  <2> HIDE DEF D, Differ
  <2> QED BY <1>4, <1>5, <2>5, <2>7, <2>8
<1>7. sum[end] = ends[end]
  <2>1. end - base \in Nat /\ base + (end - base) = end /\ end \in D
    OBVIOUS
  <2>2. end - base \notin Differ
    BY <1>6
  <2> HIDE DEF ends, sum
  <2> QED BY <2>1, <2>2
<1> QED
  BY <1>3, <1>7

(***************************************************************************)
(* The table in the loop of defrag: w chunks in a row, the last one        *)
(* occupied at the offset last, and no two free ones side by side up to b. *)
(***************************************************************************)
Chunk == [offset : Nat, size : Nat, occupied : BOOLEAN]
Room == 1..(2 * NUM_OF_SLOTS + 1)

Row(t, w, last, b) ==
  /\ t \in [Room -> Chunk]
  /\ w \in Nat /\ 1 <= w /\ w <= NUM_OF_SLOTS
  /\ \A i \in Room : w < i => t[i] = Unused
  /\ \A i \in Room : i <= w => 1 <= t[i].size
  /\ t[w].occupied /\ t[w].offset = last
  /\ \A i, j \in Room : i < j /\ j <= w => t[i].offset + t[i].size <= t[j].offset
  /\ \A i \in Room : i < w => t[i + 1].offset = t[i].offset + t[i].size
  /\ \A i \in Room : i < w /\ i <= b => t[i].occupied \/ t[i + 1].occupied

\* The occupied chunks of t are in s.
Keeps(s, v, t, w) ==
  \A i \in Room : i <= w /\ t[i].occupied => \E j \in Room : j <= v /\ s[j] = t[i]

(* The free chunks behind base end at the next occupied one.                *)
EndsGap(end, t, base, used) ==
  /\ end \in Nat /\ base < end /\ end <= used + 1
  /\ end # used + 1 => t[end].occupied
  /\ \A k \in Nat : base < k /\ k <= used /\ t[k].occupied => end <= k
  /\ \A k \in Nat : base < k /\ k < end => ~t[k].occupied

LEMMA GapEnds ==
  ASSUME NEW t, NEW base \in Nat, NEW used \in Nat, base < used
  PROVE  EndsGap(EndOfGap(t, base, used), t, base, used)
<1> DEFINE S == {i \in base + 1..used : t[i].occupied} \cup {used + 1}
           end == EndOfGap(t, base, used)
<1>1. S \in SUBSET Nat /\ S # {}
  OBVIOUS
<1>2. end = Min(S)
  BY DEF EndOfGap
<1> HIDE DEF S
<1>3. end \in S /\ \A k \in S : end <= k
  BY <1>1, <1>2, MinInSet
<1> HIDE DEF end
<1>4. /\ end \in Nat /\ base < end /\ end <= used + 1
      /\ end # used + 1 => t[end].occupied
  BY <1>3 DEF S
<1>5. \A k \in Nat : base < k /\ k <= used /\ t[k].occupied => end <= k
  BY <1>3 DEF S
<1>6. ASSUME NEW k \in Nat, base < k, k < end PROVE ~t[k].occupied
  BY <1>4, <1>5, <1>6
<1> QED
  BY <1>4, <1>5, <1>6 DEF end, EndsGap

(* One round of the loop keeps the chunks in a row and every occupied one.  *)
LEMMA MergeKeepsRow ==
  ASSUME AllocatorAssumption, NEW t, NEW w, NEW last \in Nat, last < 32767,
         NEW b \in Nat, 1 <= b, NEW used \in Nat, b < used, w <= used, used <= NUM_OF_SLOTS,
         Row(t, w, last, b - 1)
  PROVE  \E v : v <= used /\ Row(MergedAt(t, b, used), v, last, b) /\ Keeps(MergedAt(t, b, used), v, t, w)
<1> DEFINE end == EndOfGap(t, b, used)
           N == NUM_OF_SLOTS
<1>0. N \in Nat /\ used <= N /\ \A i : i \in Room <=> i \in Int /\ 1 <= i /\ i <= 2 * N + 1
  BY DEF AllocatorAssumption, Room
<1> HIDE DEF N
<1>1. /\ t \in [Room -> Chunk]
      /\ w \in Nat /\ 1 <= w /\ w <= N
      /\ \A i \in Room : w < i => t[i] = Unused
      /\ \A i \in Room : i <= w => 1 <= t[i].size
      /\ t[w].occupied /\ t[w].offset = last
      /\ \A i, j \in Room : i < j /\ j <= w => t[i].offset + t[i].size <= t[j].offset
      /\ \A i \in Room : i < w => t[i + 1].offset = t[i].offset + t[i].size
      /\ \A i \in Room : i < w /\ i <= b - 1 => t[i].occupied \/ t[i + 1].occupied
  BY DEF Row, N
<1>n. w \in Nat /\ w <= N
  BY <1>1
<1>2. \A i \in Room : t[i].offset \in Nat /\ t[i].size \in Nat
  BY <1>1 DEF Chunk
<1>3. /\ end \in Nat /\ b < end /\ end <= used + 1
      /\ end # used + 1 => t[end].occupied
      /\ \A k \in Nat : b < k /\ k <= used /\ t[k].occupied => end <= k
      /\ \A k \in Nat : b < k /\ k < end => ~t[k].occupied
  <2>1. EndsGap(end, t, b, used)
    BY GapEnds
  <2> HIDE DEF end
  <2> QED BY <2>1 DEF EndsGap
<1>4. MergedAt(t, b, used) = IF t[b].occupied \/ t[b] = Unused \/ end = b + 1 THEN t
                             ELSE Merge(t, b, end, used)
  BY DEF MergedAt
<1> HIDE DEF end
<1>5. b \in Room /\ used \in Room /\ b + 1 \in Room /\ w \in Room
  BY <1>0, <1>1, <1>3
<1>6. CASE t[b].occupied \/ t[b] = Unused \/ end = b + 1
  <2>1. MergedAt(t, b, used) = t
    BY <1>4, <1>6
  <2>2. b < w => t[b].occupied \/ t[b + 1].occupied
    <3>1. CASE t[b].occupied
      BY <3>1
    <3>2. CASE t[b] = Unused
      <4>1. b < w => t[b].offset + t[b].size <= t[w].offset
        BY <1>1, <1>5
      <4>2. t[b].size = 32767 /\ t[b].offset = 0
        BY <3>2 DEF Unused, DefaultSize
      <4> QED BY <1>1, <4>1, <4>2
    <3>3. CASE end = b + 1
      <4>1. end # used + 1
        BY <3>3
      <4> QED BY <1>3, <3>3, <4>1
    <3> QED BY <1>6, <3>1, <3>2, <3>3
  <2>3. \A i \in Room : i < w /\ i <= b => t[i].occupied \/ t[i + 1].occupied
    <3>1. \A i \in Room : i <= b => i <= b - 1 \/ i = b
      BY <1>0
    <3> QED BY <1>1, <2>2, <3>1
  <2>4. Row(t, w, last, b)
    BY <1>1, <2>3 DEF Row, N
  <2>5. Keeps(t, w, t, w)
    BY DEF Keeps
  <2> QED BY <2>1, <2>4, <2>5
<1>7. CASE ~(t[b].occupied \/ t[b] = Unused \/ end = b + 1)
  <2> DEFINE gap == end - b - 1
             v == w - gap
             s == MergedAt(t, b, used)
  <2>1. b < w
    <3>1. ~(w < b)
      BY <1>1, <1>5, <1>7
    <3>2. b # w
      BY <1>1, <1>7
    <3> QED BY <1>1, <3>1, <3>2
  <2>2. end \in Nat /\ end <= w /\ end # used + 1 /\ t[end].occupied /\ b + 1 < end
    <3>1. end <= w
      BY <1>1, <1>3, <2>1
    <3> QED BY <1>1, <1>3, <1>7, <3>1
  <2>3. /\ gap \in Nat /\ 1 <= gap /\ v \in Nat /\ b < v /\ v <= used /\ v + gap = w /\ v <= N
        /\ (b + 1) + gap = end /\ end \in Room
    BY <1>0, <1>1, <1>3, <2>1, <2>2
  <2>4. s = [i \in Room |-> CASE i = b -> WithSize(t[i], NewSize(t, b, end))
                              [] i \in b + 1..used -> t[end + i - b - 1]
                              [] OTHER -> t[i]]
    BY <1>1, <1>4, <1>7 DEF Merge
  <2>5. NewSize(t, b, end) = t[end].offset - t[b].offset
    <3>1. \A k \in Int : b <= k /\ k <= end => k \in Room
      BY <1>0, <1>n, <2>2
    <3>2. \A k \in Int : b <= k /\ k <= end => t[k].offset \in Nat
      BY <1>2, <3>1
    <3>3. ASSUME NEW k \in Int, b <= k, k < end
          PROVE  t[k].size \in Nat /\ t[k + 1].offset = t[k].offset + t[k].size
      <4>1. k \in Room /\ k < w
        BY <1>1, <1>3, <2>2, <3>1, <3>3
      <4> QED BY <1>1, <1>2, <4>1
    <3> QED BY <1>3, <3>2, <3>3, SizesAddUp
  <2> DEFINE size == t[end].offset - t[b].offset
  <2>6. /\ size \in Nat /\ 1 <= size /\ size <= 32767 /\ t[b].offset + size = t[end].offset
        /\ t[end].offset <= last
    <3>1. t[b].offset + t[b].size <= t[end].offset /\ 1 <= t[b].size
      BY <1>1, <1>3, <1>5, <2>1, <2>2, <2>3
    <3>2. t[end].offset <= last
      <4>1. CASE end = w
        BY <1>1, <1>2, <1>5, <4>1
      <4>2. CASE end # w
        <5>1. t[end].offset + t[end].size <= t[w].offset
          BY <1>1, <1>3, <1>5, <2>2, <2>3, <4>2
        <5> QED BY <1>1, <1>2, <2>3, <5>1
      <4> QED BY <4>1, <4>2
    <3>3. t[b].offset \in Nat /\ t[end].offset \in Nat /\ t[b].size \in Nat
      BY <1>2, <1>5, <2>3
    <3> QED BY <3>1, <3>2, <3>3
  <2>7. s[b] = [offset |-> t[b].offset, size |-> size, occupied |-> FALSE]
    <3>1. s[b] = WithSize(t[b], size)
      BY <1>5, <2>4, <2>5
    <3> DEFINE offset == IF size <= 32767 THEN t[b].offset ELSE BitOr(t[b].offset, size \div 32768)
               rest == size % 32768
    <3>2. WithSize(t[b], size) = [offset |-> offset, size |-> rest, occupied |-> FALSE]
      BY DEF WithSize
    <3> HIDE DEF size
    <3>3. offset = t[b].offset /\ rest = size
      BY <2>6
    <3> HIDE DEF offset, rest, s
    <3> QED BY <3>1, <3>2, <3>3
  <2>8. \A i \in Room : i < b => s[i] = t[i]
    BY <1>0, <2>4
  <2>9. \A i \in Room : b < i /\ i <= used => i + gap \in Room /\ s[i] = t[i + gap]
    <3> SUFFICES ASSUME NEW i \in Room, b < i, i <= used
                 PROVE  i + gap \in Room /\ s[i] = t[i + gap]
      OBVIOUS
    <3>1. i \in b + 1..used /\ i # b
      BY <1>0
    <3>2. end + i - b - 1 = i + gap
      BY <1>0, <1>3
    <3>3. s[i] = t[end + i - b - 1]
      BY <2>4, <3>1
    <3>4. i + gap \in Room
      BY <1>0, <1>1, <2>2, <2>3
    <3> QED BY <3>2, <3>3, <3>4
  <2>10. \A i \in Room : used < i => s[i] = t[i]
    <3>1. \A i \in Room : used < i => i # b /\ i \notin b + 1..used
      BY <1>0
    <3> QED BY <2>4, <3>1
  <2> HIDE DEF s, size, gap, v
  <2>11. \A i \in Room : i <= v => i < b \/ i = b \/ (b < i /\ i <= used /\ i + gap <= w)
    BY <1>0, <2>3
  <2>12. s \in [Room -> Chunk]
    <3>1. s[b] \in Chunk
      BY <1>2, <1>5, <2>6, <2>7 DEF Chunk
    <3>2. \A i \in Room : i # b => s[i] \in Chunk
      <4>1. \A i \in Room : i # b => i < b \/ (b < i /\ i <= used) \/ used < i
        BY <1>0
      <4> QED BY <1>1, <2>8, <2>9, <2>10, <4>1
    <3>3. s = [i \in Room |-> s[i]]
      BY <2>4
    <3> QED BY <3>1, <3>2, <3>3
  <2>13. \A i \in Room : v < i => s[i] = Unused
    <3> SUFFICES ASSUME NEW i \in Room, v < i PROVE s[i] = Unused
      OBVIOUS
    <3>1. CASE i <= used
      <4>1. b < i /\ w < i + gap
        BY <1>0, <1>1, <2>3
      <4> QED BY <1>1, <2>9, <3>1, <4>1
    <3>2. CASE ~(i <= used)
      <4>1. used < i /\ w < i
        BY <1>0, <1>1, <3>2
      <4> QED BY <1>1, <2>10, <4>1
    <3> QED BY <3>1, <3>2
  <2>14. \A i \in Room : i <= v => 1 <= s[i].size
    <3> SUFFICES ASSUME NEW i \in Room, i <= v PROVE 1 <= s[i].size
      OBVIOUS
    <3>1. CASE i < b
      BY <1>0, <1>1, <2>1, <2>8, <3>1
    <3>2. CASE i = b
      BY <2>6, <2>7, <3>2
    <3>3. CASE b < i /\ i <= used /\ i + gap <= w
      BY <1>1, <2>9, <3>3
    <3> QED BY <2>11, <3>1, <3>2, <3>3
  <2>15. s[v].occupied /\ s[v].offset = last
    <3>1. v \in Room
      BY <1>0, <2>3
    <3> QED BY <1>1, <2>3, <2>9, <3>1
  \* Where the chunk at i of the new table starts and ends in the old one.
  <2>16. \A i \in Room : i <= v =>
           s[i].offset = IF i <= b THEN t[i].offset ELSE t[i + gap].offset
    BY <1>0, <2>7, <2>8, <2>9, <2>11
  <2>17. \A i \in Room : i < v =>
           s[i].offset + s[i].size = IF i < b THEN t[i + 1].offset ELSE t[(i + 1) + gap].offset
    <3> SUFFICES ASSUME NEW i \in Room, i < v
                 PROVE  s[i].offset + s[i].size = IF i < b THEN t[i + 1].offset ELSE t[(i + 1) + gap].offset
      OBVIOUS
    <3>1. CASE i < b
      <4>1. i < w /\ s[i] = t[i]
        BY <1>0, <1>1, <2>1, <2>8, <3>1
      <4> QED BY <1>1, <3>1, <4>1
    <3>2. CASE i = b
      BY <2>3, <2>6, <2>7, <3>2
    <3>3. CASE b < i
      <4>1. i <= used /\ i + gap < w /\ (i + 1) + gap = (i + gap) + 1 /\ ~(i < b)
        BY <1>0, <2>3, <3>3
      <4>2. i + gap \in Room /\ s[i] = t[i + gap]
        BY <2>9, <3>3, <4>1
      <4> QED BY <1>1, <4>1, <4>2
    <3> QED BY <1>0, <3>1, <3>2, <3>3
  <2>18. \A i \in Room : i < v => s[i + 1].offset = s[i].offset + s[i].size
    <3> SUFFICES ASSUME NEW i \in Room, i < v PROVE s[i + 1].offset = s[i].offset + s[i].size
      OBVIOUS
    <3>1. i + 1 \in Room /\ i + 1 <= v /\ (i + 1 <= b <=> i < b)
      BY <1>0, <2>3
    <3> QED BY <2>16, <2>17, <3>1
  <2>19. \A i, j \in Room : i < j /\ j <= w => t[i].offset <= t[j].offset
    <3> SUFFICES ASSUME NEW i \in Room, NEW j \in Room, i < j, j <= w
                 PROVE  t[i].offset <= t[j].offset
      OBVIOUS
    <3>1. t[i].offset + t[i].size <= t[j].offset
      BY <1>1
    <3> QED BY <1>2, <3>1
  <2>20. \A i, j \in Room : i <= j /\ j <= w => t[i].offset <= t[j].offset
    <3>1. \A i, j \in Room : i <= j => i < j \/ i = j
      BY <1>0
    <3> QED BY <1>2, <2>19, <3>1
  <2>21. \A i, j \in Room : i < j /\ j <= v => s[i].offset + s[i].size <= s[j].offset
    <3> SUFFICES ASSUME NEW i \in Room, NEW j \in Room, i < j, j <= v
                 PROVE  s[i].offset + s[i].size <= s[j].offset
      OBVIOUS
    <3>1. i \in Int /\ j \in Int /\ i < v
      BY <1>0, <2>3
    <3>2. CASE i < b
      <4> DEFINE k == IF j <= b THEN j ELSE j + gap
      <4>1. i + 1 \in Room /\ k \in Room /\ i + 1 <= k /\ k <= w
        BY <1>0, <2>1, <2>3, <3>1, <3>2
      <4>2. s[i].offset + s[i].size = t[i + 1].offset /\ s[j].offset = t[k].offset
        BY <2>16, <2>17, <3>1, <3>2
      <4> HIDE DEF k
      <4> QED BY <2>20, <4>1, <4>2
    <3>3. CASE ~(i < b)
      <4>1. /\ (i + 1) + gap \in Room /\ j + gap \in Room /\ (i + 1) + gap <= j + gap
            /\ j + gap <= w /\ ~(j <= b)
        BY <1>0, <1>1, <2>3, <3>1, <3>3
      <4>2. s[i].offset + s[i].size = t[(i + 1) + gap].offset /\ s[j].offset = t[j + gap].offset
        BY <2>16, <2>17, <3>1, <3>3, <4>1
      <4> QED BY <2>20, <4>1, <4>2
    <3> QED BY <3>2, <3>3
  <2>22. \A i \in Room : i < v /\ i <= b => s[i].occupied \/ s[i + 1].occupied
    <3> SUFFICES ASSUME NEW i \in Room, i < v, i <= b PROVE s[i].occupied \/ s[i + 1].occupied
      OBVIOUS
    <3>1. CASE i + 1 < b
      <4>1. i + 1 \in Room /\ i < b /\ i < w /\ i <= b - 1
        BY <1>0, <1>n, <2>1, <3>1
      <4> QED BY <1>1, <2>8, <3>1, <4>1
    <3>2. CASE i + 1 = b
      <4>1. i < b /\ i < w /\ i <= b - 1
        BY <1>0, <1>n, <2>1, <3>2
      <4>2. t[i].occupied
        BY <1>1, <1>7, <3>2, <4>1
      <4> QED BY <2>8, <4>1, <4>2
    <3>3. CASE i = b
      <4>1. i + 1 \in Room /\ b < i + 1 /\ i + 1 <= used
        BY <1>0, <2>3, <3>3
      <4>2. s[i + 1] = t[(i + 1) + gap]
        BY <2>9, <4>1
      <4> QED BY <2>2, <2>3, <3>3, <4>2
    <3> QED BY <1>0, <3>1, <3>2, <3>3
  <2>23. Row(s, v, last, b)
    BY <2>3, <2>12, <2>13, <2>14, <2>15, <2>18, <2>21, <2>22 DEF Row, N
  <2>24. Keeps(s, v, t, w)
    <3> SUFFICES ASSUME NEW i \in Room, i <= w, t[i].occupied
                 PROVE  \E j \in Room : j <= v /\ s[j] = t[i]
      BY DEF Keeps
    <3>1. CASE i < b
      BY <1>0, <2>3, <2>8, <3>1
    <3>2. CASE ~(i < b)
      <4>1. i # b
        BY <1>7
      <4>2. i \in Nat /\ b < i
        BY <1>0, <3>2, <4>1
      <4>3. end <= i
        BY <1>3, <4>2
      <4> DEFINE j == i - gap
      <4>4. j \in Room /\ b < j /\ j <= used /\ j + gap = i /\ j <= v
        BY <1>0, <1>3, <2>3, <4>2, <4>3
      <4> HIDE DEF j
      <4> QED BY <2>9, <4>4
    <3> QED BY <3>1, <3>2
  <2> QED BY <2>3, <2>23, <2>24 DEF s
<1> QED
  BY <1>6, <1>7

(* The used slots of the table are those before its first unused entry.     *)
LEMMA UsedSlots ==
  ASSUME AllocatorAssumption, ChunksInARow
  PROVE  /\ Used(WithRoom) \in Nat /\ Used(WithRoom) <= NUM_OF_SLOTS
         /\ \A i \in Room : i <= Used(WithRoom) => i \in Slots /\ InUse(i) /\ WithRoom[i] = table[i]
         /\ \A i \in Room : Used(WithRoom) < i => WithRoom[i] = Unused
         /\ \A i \in Slots : InUse(i) => i \in Room /\ i <= Used(WithRoom)
<1> DEFINE N == NUM_OF_SLOTS
           S == {i \in DOMAIN WithRoom : WithRoom[i] = Unused}
           first == Min(S)
<1>0. /\ N \in Nat /\ 1 <= N
      /\ \A i : i \in Slots <=> i \in Int /\ 1 <= i /\ i <= N
      /\ \A i : i \in Room <=> i \in Int /\ 1 <= i /\ i <= 2 * N + 1
  BY DEF AllocatorAssumption, Slots, Room
<1>1. WithRoom = [i \in Room |-> IF i \in Slots THEN table[i] ELSE Unused]
  BY DEF WithRoom, Room
<1>2. S = {i \in Room : WithRoom[i] = Unused}
  BY <1>1
<1>3. Used(WithRoom) = first - 1
  BY DEF Used
<1> HIDE DEF N, S
<1>4. N + 1 \in S
  <2>1. N + 1 \in Room /\ N + 1 \notin Slots
    BY <1>0
  <2> QED BY <1>1, <1>2, <2>1
<1>5. first \in S /\ \A i \in S : first <= i
  <2>1. S \in SUBSET Nat /\ S # {}
    BY <1>0, <1>2, <1>4
  <2> HIDE DEF first
  <2> QED BY <2>1, MinInSet DEF first
<1> HIDE DEF first
<1>6. first \in Room /\ first \in Nat /\ first <= N + 1 /\ WithRoom[first] = Unused
  BY <1>0, <1>2, <1>4, <1>5
<1>7. \A i \in Slots : /\ ~InUse(i) <=> table[i] = Unused
                       /\ \A j \in Slots : i < j /\ InUse(j) => InUse(i)
  <2>1. \A i \in Slots : ~InUse(i) => table[i] = Unused
    BY DEF ChunksInARow
  <2>2. \A i \in Slots : table[i] = Unused => ~InUse(i)
    BY DEF InUse, Unused
  <2>3. \A i, j \in Slots : i < j /\ InUse(j) => InUse(i)
    BY DEF ChunksInARow
  <2> QED BY <2>1, <2>2, <2>3
<1>8. first - 1 \in Nat /\ first - 1 <= N
  BY <1>0, <1>6
<1>9. ASSUME NEW i \in Room, i <= first - 1 PROVE i \in Slots /\ InUse(i) /\ WithRoom[i] = table[i]
  <2>1. i \in Slots /\ ~(first <= i)
    BY <1>0, <1>6, <1>9
  <2>2. i \notin S
    BY <1>5, <2>1
  <2>3. WithRoom[i] = table[i] /\ WithRoom[i] # Unused
    BY <1>1, <1>2, <2>1, <2>2
  <2> QED BY <1>7, <2>1, <2>3
<1>10. ASSUME NEW i \in Slots, first - 1 < i PROVE ~InUse(i)
  <2>1. first \in Slots /\ (i = first \/ first < i)
    BY <1>0, <1>6, <1>10
  <2>2. ~InUse(first)
    BY <1>1, <1>6, <1>7, <2>1
  <2> QED BY <1>7, <2>1, <2>2
<1>11. ASSUME NEW i \in Room, first - 1 < i PROVE WithRoom[i] = Unused
  BY <1>1, <1>7, <1>10, <1>11
<1>12. ASSUME NEW i \in Slots, InUse(i) PROVE i \in Room /\ i <= first - 1
  <2>1. i \in Room /\ i \in Int
    BY <1>0
  <2>2. ~(first - 1 < i)
    BY <1>10, <1>12
  <2> QED BY <1>8, <2>1, <2>2
<1> QED
  BY <1>3, <1>8, <1>9, <1>11, <1>12 DEF N

(* Before the loop.                                                        *)
LEMMA TableInARow ==
  ASSUME AllocatorAssumption, Laid, NEW used, used = Used(WithRoom),
         used > 0, table[used].occupied, table[used].offset < 32768
  PROVE  /\ table[used].offset \in Nat /\ table[used].offset < 32767
         /\ Row(WithRoom, used, table[used].offset, 0)
<1> DEFINE T == WithRoom
           last == table[used].offset
           N == NUM_OF_SLOTS
<1>0. /\ N \in Nat /\ 1 <= N
      /\ \A i : i \in Slots <=> i \in Int /\ 1 <= i /\ i <= N
      /\ \A i : i \in Room <=> i \in Int /\ 1 <= i /\ i <= 2 * N + 1
  BY DEF AllocatorAssumption, Slots, Room
<1>1. /\ used \in Nat /\ used <= N
      /\ \A i \in Room : i <= used => i \in Slots /\ InUse(i) /\ T[i] = table[i]
      /\ \A i \in Room : used < i => T[i] = Unused
  BY UsedSlots DEF Laid
<1>2. /\ \A i \in Slots : table[i] \in Chunk /\ table[i].offset % 8 = 0
      /\ \A i \in Slots : InUse(i) => 1 <= table[i].size
      /\ \A i, j \in Slots : i < j /\ InUse(j) => End(i) <= table[j].offset
      /\ \A i \in Slots : InUse(i) => table[i].offset = IF i = 1 THEN 0 ELSE End(i - 1)
  <2>1. \A i \in Slots : table[i] \in [offset : Offsets, size : Sizes, occupied : BOOLEAN]
    BY DEF Laid, TypeOK
  <2>2. \A i \in Slots : table[i] \in Chunk
    BY <2>1, BitFields DEF Chunk
  <2>3. \A i \in Slots : table[i].offset % 8 = 0
    BY DEF Laid, TypeOK
  <2>4. \A i \in Slots : InUse(i) => 1 <= table[i].size
    BY DEF Laid, ChunksFit
  <2> QED BY <2>2, <2>3, <2>4 DEF Laid, ChunksInARow
<1>3. T = [i \in Room |-> IF i \in Slots THEN table[i] ELSE Unused]
  BY DEF WithRoom, Room
<1>4. Unused \in Chunk
  BY DEF Unused, Chunk, DefaultSize
<1> HIDE DEF N, T
<1>5. used \in Slots /\ used \in Room /\ 1 <= used
  BY <1>0, <1>1
<1>6. last \in Nat /\ last < 32767
  <2>1. last \in Nat /\ last % 8 = 0 /\ last < 32768
    BY <1>2, <1>5 DEF Chunk
  <2> HIDE DEF last
  <2> QED BY <2>1
<1>7. T \in [Room -> Chunk]
  BY <1>2, <1>3, <1>4
<1>8. \A i \in Room : i <= used => 1 <= T[i].size
  BY <1>1, <1>2
<1>9. T[used].occupied /\ T[used].offset = last
  BY <1>1, <1>5
<1>10. \A i, j \in Room : i < j /\ j <= used => T[i].offset + T[i].size <= T[j].offset
  <2>1. \A i, j \in Room : i < j /\ j <= used => i <= used
    BY <1>0, <1>1
  <2> QED BY <1>1, <1>2, <2>1 DEF End
<1>11. \A i \in Room : i < used => T[i + 1].offset = T[i].offset + T[i].size
  <2> SUFFICES ASSUME NEW i \in Room, i < used PROVE T[i + 1].offset = T[i].offset + T[i].size
    OBVIOUS
  <2>1. i + 1 \in Room /\ i + 1 <= used /\ i <= used /\ i + 1 # 1 /\ (i + 1) - 1 = i
    BY <1>0, <1>1
  <2>2. T[i + 1] = table[i + 1] /\ T[i] = table[i] /\ i + 1 \in Slots /\ InUse(i + 1)
    BY <1>1, <2>1
  <2>3. table[i + 1].offset = End((i + 1) - 1)
    BY <1>2, <2>1, <2>2
  <2> QED BY <2>1, <2>2, <2>3 DEF End
<1>12. \A i \in Room : ~(i <= 0)
  BY <1>0
<1> QED
  BY <1>1, <1>5, <1>6, <1>7, <1>8, <1>9, <1>10, <1>11, <1>12 DEF Row, N, T

(* quicksort finds the table in order.                                      *)
LEMMA TableIsInOrder ==
  ASSUME AllocatorAssumption, NEW T, NEW used, NEW last \in Nat, last < 32768, Row(T, used, last, 0)
  PROVE  Quicksort(T, 1, used) = T
<1> DEFINE E == {T[i] : i \in DOMAIN T}
           N == NUM_OF_SLOTS
<1>0. N \in Nat /\ \A i : i \in Room <=> i \in Int /\ 1 <= i /\ i <= 2 * N + 1
  BY DEF AllocatorAssumption, Room
<1>1. /\ T \in [Room -> Chunk] /\ used \in Nat /\ 1 <= used /\ used <= N
      /\ \A i \in Room : i <= used => 1 <= T[i].size
      /\ T[used].offset = last
      /\ \A i, j \in Room : i < j /\ j <= used => T[i].offset + T[i].size <= T[j].offset
  BY DEF Row
<1>2. DOMAIN T = Room /\ \A i \in Room : T[i].offset \in Nat /\ T[i].size \in Nat
  BY <1>1 DEF Chunk
<1>3. Array(Room, E, T)
  BY <1>0, <1>1, <1>2 DEF Array
<1>4. Sortable(Room, E, used)
  <2>1. Entries(E)
    BY <1>2 DEF Entries
  <2> HIDE DEF E, N
  <2> QED BY <1>0, <1>1, <2>1 DEF Sortable
<1> HIDE DEF N
<1>5. used \in Room
  BY <1>0, <1>1
<1>6. ASSUME NEW i \in Room, NEW j \in Room, 1 <= i, i < j, j <= used PROVE ~OffsetOrder(T[j], T[i])
  <2>1. i \in Int /\ j \in Int /\ i <= used
    BY <1>0, <1>1, <1>6
  <2>2. T[i].offset < T[j].offset
    BY <1>1, <1>2, <1>6, <2>1
  <2>3. T[j].offset <= last
    <3>1. CASE j = used
      BY <1>1, <1>2, <3>1
    <3>2. CASE j # used
      <4>1. j < used
        BY <1>1, <1>6, <2>1, <3>2
      <4>2. T[j].offset + T[j].size <= T[used].offset
        BY <1>1, <1>5, <4>1
      <4> QED BY <1>1, <1>2, <4>2
    <3> QED BY <3>1, <3>2
  <2>4. T[i].offset \in Nat /\ T[j].offset \in Nat
    BY <1>2
  <2> QED BY <2>2, <2>3, <2>4 DEF OffsetOrder, Signed16
<1>7. PICK f : Sorts(f, Room, E, used) /\ Quicksort(T, 1, used) = f[[A |-> T, lo |-> 1, hi |-> used]]
  <2>1. DOMAIN T = Room
    BY <1>2
  <2>2. Sortable(DOMAIN T, {T[i] : i \in DOMAIN T}, used)
    BY <1>4, <2>1
  <2>3. \E f : /\ Sorts(f, DOMAIN T, {T[i] : i \in DOMAIN T}, used)
                /\ Quicksort(T, 1, used) = f[[A |-> T, lo |-> 1, hi |-> used]]
    BY <2>2, QuicksortCallsItself
  <2> QED BY <2>1, <2>3
<1> HIDE DEF E
<1>8. Ordered(Room, Quicksort(T, 1, used), T, 1, used)
  <2> DEFINE part == [A |-> T, lo |-> 1, hi |-> used]
  <2>1. part \in PartsOf(Room, E, used)
    BY <1>1, <1>3 DEF PartsOf, Array
  <2>2. part.A = T /\ part.lo = 1 /\ part.hi = used
    OBVIOUS
  <2> HIDE DEF part
  <2>3. Ordered(Room, f[part], part.A, part.lo, part.hi)
    BY <1>4, <1>7, <2>1, QuicksortOrders
  <2> QED BY <1>7, <2>2, <2>3 DEF part
<1>9. \A k \in Int : 1 <= k /\ k <= used => k \in Room
  BY <1>0, <1>1
<1> QED
  BY <1>1, <1>3, <1>6, <1>8, <1>9, SortedStays

(* The loop of defrag: its table for each base, computed from the one before. *)
Loops(f, start, used) ==
  /\ f[0] = start
  /\ \A b \in Nat : 0 < b /\ b < used => f[b] = MergedAt(f[b - 1], b, used)

LEMMA DefragLoops ==
  ASSUME NEW t, NEW used \in Nat, used = Used(t), used > 0
  PROVE  \E f : Loops(f, Quicksort(t, 1, used), used) /\ DefragTable(t) = f[used - 1]
<1> DEFINE D == 0..used
           start == Quicksort(t, 1, used)
           Round(f, b) == IF b = used THEN f[b - 1] ELSE MergedAt(f[b - 1], b, used)
           Is(f) == f = [b \in D |-> IF b = 0 THEN start ELSE Round(f, b)]
           loop == CHOOSE f : Is(f)
           Upto(f, n) == /\ f = [b \in D |-> f[b]] /\ f[0] = start
                         /\ \A b \in D : 0 < b /\ b <= n => f[b] = Round(f, b)
           Wrong == {n \in Nat : ~ \E f : Upto(f, n)}
<1>d. D \subseteq Nat /\ 0 \in D /\ used \in D /\ \A b \in D : b # 0 => b - 1 \in D
  OBVIOUS
<1>1. DefragTable(t) = loop[used]
  BY DEF DefragTable
<1> HIDE DEF start, D
<1>2. Wrong = {}
  <2>1. SUFFICES ASSUME Wrong # {} PROVE FALSE
    OBVIOUS
  <2>2. Wrong \in SUBSET Nat
    OBVIOUS
  <2>3. PICK n \in Wrong : \A x \in Wrong : n <= x
    <3> HIDE DEF Wrong
    <3> QED BY <2>1, <2>2, MinInSet
  <2>4. n # 0
    <3> DEFINE f == [b \in D |-> start]
    <3>1. Upto(f, 0)
      BY <1>d
    <3> QED BY <2>3, <3>1
  <2>5. n - 1 \in Nat /\ ~(n <= n - 1) /\ n \in Nat
    BY <2>3, <2>4
  <2>6. n - 1 \notin Wrong
    BY <2>3, <2>5
  <2>7. PICK g : Upto(g, n - 1)
    BY <2>5, <2>6
  <2> DEFINE f == [b \in D |-> IF b = n THEN Round(g, b) ELSE g[b]]
  <2>8. f = [b \in D |-> f[b]] /\ f[0] = start
    BY <1>d, <2>4, <2>7
  <2>9. ASSUME NEW b \in D, 0 < b, b <= n PROVE f[b] = Round(f, b)
    <3>1. b - 1 \in D /\ b - 1 # n /\ f[b - 1] = g[b - 1]
      BY <1>d, <2>5, <2>9
    <3>2. CASE b = n
      BY <3>1, <3>2
    <3>3. CASE b # n
      <4>1. b <= n - 1
        BY <1>d, <2>5, <2>9, <3>3
      <4>2. g[b] = Round(g, b)
        BY <2>7, <2>9, <4>1
      <4> QED BY <3>1, <3>3, <4>2
    <3> QED BY <3>2, <3>3
  <2>10. Upto(f, n)
    BY <2>8, <2>9
  <2> QED BY <2>3, <2>10
<1>3. \E f : Is(f)
  <2>1. PICK f : Upto(f, used)
    BY <1>2
  <2>2. \A b \in D : b <= used /\ (b # 0 => 0 < b)
    BY DEF D
  <2>3. f[0] = start /\ \A b \in D : 0 < b => f[b] = Round(f, b)
    BY <2>1, <2>2
  <2> HIDE DEF Round
  <2>4. \A b \in D : f[b] = IF b = 0 THEN start ELSE Round(f, b)
    BY <2>2, <2>3
  <2>5. f = [b \in D |-> f[b]]
    BY <2>1
  <2>6. Is(f)
    BY <2>4, <2>5
  <2> QED BY <2>6
<1>4. Is(loop)
  <2> HIDE DEF Is
  <2> QED BY <1>3
<1> HIDE DEF loop
<1>5. \A b \in D : loop[b] = IF b = 0 THEN start ELSE Round(loop, b)
  <2> HIDE DEF Round
  <2> QED BY <1>4
<1>6. loop[0] = start
  BY <1>d, <1>5
<1>7. ASSUME NEW b \in Nat, 0 < b, b < used PROVE loop[b] = MergedAt(loop[b - 1], b, used)
  <2>1. b \in D /\ b # 0 /\ b # used
    BY <1>7 DEF D
  <2> QED BY <1>5, <2>1
<1>8. loop[used] = loop[used - 1]
  BY <1>d, <1>5
<1>9. Loops(loop, start, used)
  BY <1>6, <1>7 DEF Loops
<1> QED
  BY <1>1, <1>8, <1>9 DEF start

(* All rounds together.                                                     *)
LEMMA DefragKeepsRow ==
  ASSUME AllocatorAssumption, NEW T, NEW used \in Nat, used = Used(T), used > 0, used <= NUM_OF_SLOTS,
         NEW last \in Nat, last < 32767, Row(T, used, last, 0)
  PROVE  \E v : /\ v <= used
                /\ Row(DefragTable(T), v, last, used - 1) /\ Keeps(DefragTable(T), v, T, used)
<1>1. Quicksort(T, 1, used) = T
  BY TableIsInOrder
<1>2. PICK f : Loops(f, T, used) /\ DefragTable(T) = f[used - 1]
  BY <1>1, DefragLoops
<1> DEFINE Merged(b) == \E v : v <= used /\ Row(f[b], v, last, b) /\ Keeps(f[b], v, T, used)
           Bad == {b \in Nat : b < used /\ ~Merged(b)}
<1>3. Bad = {}
  <2>1. SUFFICES ASSUME Bad # {} PROVE FALSE
    OBVIOUS
  <2>2. Bad \in SUBSET Nat
    OBVIOUS
  <2>3. PICK b \in Bad : \A x \in Bad : b <= x
    <3> HIDE DEF Bad, Merged
    <3>1. Min(Bad) \in Bad /\ \A x \in Bad : Min(Bad) <= x
      BY <2>1, <2>2, MinInSet
    <3> QED BY <3>1
  <2>4. CASE b = 0
    <3>1. Keeps(T, used, T, used)
      BY DEF Keeps
    <3>2. f[0] = T
      BY <1>2 DEF Loops
    <3>3. Merged(0)
      BY <3>1, <3>2
    <3> QED BY <2>3, <2>4, <3>3
  <2>5. CASE b # 0
    <3>1. b \in Nat /\ b - 1 \in Nat /\ ~(b <= b - 1) /\ 1 <= b /\ 0 < b /\ b < used /\ b - 1 < used
      BY <2>3, <2>5
    <3>2. b - 1 \notin Bad
      BY <2>3, <3>1
    <3>3. PICK w : w <= used /\ Row(f[b - 1], w, last, b - 1) /\ Keeps(f[b - 1], w, T, used)
      BY <3>1, <3>2
    <3> DEFINE t == f[b - 1]
               s == MergedAt(t, b, used)
    <3>4. f[b] = s
      BY <1>2, <3>1 DEF Loops
    <3>5. Row(t, w, last, b - 1) /\ Keeps(t, w, T, used) /\ w <= used
      BY <3>3
    <3> HIDE DEF t
    <3>6. PICK v : v <= used /\ Row(s, v, last, b) /\ Keeps(s, v, t, w)
      BY <3>1, <3>5, MergeKeepsRow
    <3> HIDE DEF s
    <3>7. Keeps(s, v, T, used)
      <4> SUFFICES ASSUME NEW i \in Room, i <= used, T[i].occupied
                   PROVE  \E j \in Room : j <= v /\ s[j] = T[i]
        BY DEF Keeps
      <4>1. PICK j \in Room : j <= w /\ t[j] = T[i]
        BY <3>5 DEF Keeps
      <4>2. t[j].occupied
        BY <4>1
      <4> QED BY <3>6, <4>1, <4>2 DEF Keeps
    <3>8. Merged(b)
      BY <3>4, <3>6, <3>7
    <3> QED BY <2>3, <3>8
  <2> QED BY <2>4, <2>5
<1>4. Merged(used - 1)
  <2>1. used - 1 \in Nat /\ used - 1 < used
    OBVIOUS
  <2>2. used - 1 \notin Bad
    BY <1>3
  <2> QED BY <2>1, <2>2
<1> QED
  BY <1>2, <1>4

(* The chunks of a row are the used ones.                                   *)
LEMMA RowIsUsed ==
  ASSUME AllocatorAssumption, NEW d, NEW v, NEW last \in Nat, last < 32767, NEW b, Row(d, v, last, b)
  PROVE  Used(d) = v
<1> DEFINE S == {i \in DOMAIN d : d[i] = Unused}
           first == Min(S)
           N == NUM_OF_SLOTS
<1>0. N \in Nat /\ \A i : i \in Room <=> i \in Int /\ 1 <= i /\ i <= 2 * N + 1
  BY DEF AllocatorAssumption, Room
<1>1. /\ d \in [Room -> Chunk] /\ v \in Nat /\ 1 <= v /\ v <= N
      /\ \A i \in Room : v < i => d[i] = Unused
      /\ d[v].occupied /\ d[v].offset = last
      /\ \A i, j \in Room : i < j /\ j <= v => d[i].offset + d[i].size <= d[j].offset
  BY DEF Row
<1> HIDE DEF N
<1>2. v \in Room /\ v + 1 \in Room
  BY <1>0, <1>1
<1>3. ASSUME NEW i \in Room, i <= v PROVE d[i] # Unused
  <2>1. ~Unused.occupied /\ Unused.size = 32767 /\ Unused.offset = 0
    BY DEF Unused, DefaultSize
  <2>2. CASE i = v
    BY <1>1, <2>1, <2>2
  <2>3. CASE i # v
    <3>1. i < v
      BY <1>0, <1>1, <1>3, <2>3
    <3>2. d[i].offset + d[i].size <= last
      BY <1>1, <1>2, <3>1
    <3> QED BY <2>1, <3>2
  <2> QED BY <2>2, <2>3
<1>4. S = {i \in Room : d[i] = Unused}
  BY <1>1
<1>5. Used(d) = first - 1
  BY DEF Used
<1> HIDE DEF S
<1>6. v + 1 \in S
  BY <1>1, <1>2, <1>4
<1>7. first \in S /\ \A i \in S : first <= i
  <2>1. S \in SUBSET Nat /\ S # {}
    BY <1>0, <1>4, <1>6
  <2> HIDE DEF first
  <2> QED BY <2>1, MinInSet DEF first
<1> HIDE DEF first
<1>8. first \in Room /\ first \in Int /\ first <= v + 1 /\ ~(first <= v)
  BY <1>0, <1>3, <1>4, <1>6, <1>7
<1>9. first = v + 1
  BY <1>1, <1>8
<1> QED
  BY <1>1, <1>5, <1>9

LEMMA BlocksSurviveDefrag ==
  ASSUME AllocatorAssumption, Laid
  PROVE  DefragKeepsBlocks
<1> DEFINE used == Used(WithRoom)
           d == DefragTable(WithRoom)
<1> SUFFICES ASSUME used > 0, table[used].occupied, table[used].offset < 32768
    PROVE  /\ \A b \in held : \E i \in 1..Used(d) :
                d[i].occupied /\ d[i].offset = b.address /\ d[i].size >= b.length
           /\ \A i \in 1..(Used(d) - 1) :
                /\ d[i].occupied \/ d[i + 1].occupied
                /\ d[i + 1].offset = d[i].offset + d[i].size
           /\ \A i \in DOMAIN d : i > Used(d) => d[i] = Unused
  BY DEF DefragKeepsBlocks
<1> DEFINE last == table[used].offset
           N == NUM_OF_SLOTS
<1>0. N \in Nat /\ \A i : i \in Room <=> i \in Int /\ 1 <= i /\ i <= 2 * N + 1
  BY DEF AllocatorAssumption, Room
<1>1. /\ used \in Nat /\ used <= N
      /\ \A i \in Room : i <= used => WithRoom[i] = table[i]
      /\ \A i \in Slots : InUse(i) => i \in Room /\ i <= used
  BY UsedSlots DEF Laid
<1>2. last \in Nat /\ last < 32767 /\ Row(WithRoom, used, last, 0)
  BY TableInARow
<1> HIDE DEF last, used
<1>3. PICK v : v <= used /\ Row(d, v, last, used - 1) /\ Keeps(d, v, WithRoom, used)
  BY <1>1, <1>2, DefragKeepsRow DEF used
<1>4. Used(d) = v
  BY <1>2, <1>3, RowIsUsed
<1> HIDE DEF d
<1>5. /\ d \in [Room -> Chunk] /\ v \in Nat /\ v <= N
      /\ \A i \in Room : v < i => d[i] = Unused
      /\ \A i \in Room : i < v => d[i + 1].offset = d[i].offset + d[i].size
      /\ \A i \in Room : i < v /\ i <= used - 1 => d[i].occupied \/ d[i + 1].occupied
  BY <1>3 DEF Row
<1>6. ASSUME NEW b \in held
      PROVE  \E i \in 1..v : d[i].occupied /\ d[i].offset = b.address /\ d[i].size >= b.length
  <2>1. PICK i \in Slots : /\ table[i].occupied /\ InUse(i)
                           /\ table[i].offset = b.address /\ table[i].size >= b.length
    BY DEF Laid, BlocksAreChunks
  <2>2. i \in Room /\ i <= used /\ WithRoom[i] = table[i]
    BY <1>1, <2>1
  <2>3. PICK j \in Room : j <= v /\ d[j] = WithRoom[i]
    BY <1>3, <2>1, <2>2 DEF Keeps
  <2>4. j \in 1..v
    BY <1>0, <1>5, <2>3
  <2> QED BY <2>1, <2>2, <2>3, <2>4
<1>7. ASSUME NEW i \in 1..(v - 1)
      PROVE  /\ d[i].occupied \/ d[i + 1].occupied
             /\ d[i + 1].offset = d[i].offset + d[i].size
  <2>1. i \in Room /\ i < v /\ i <= used - 1
    BY <1>0, <1>1, <1>3, <1>5
  <2> QED BY <1>5, <2>1
<1>8. ASSUME NEW i \in DOMAIN d, i > v PROVE d[i] = Unused
  <2>1. i \in Room
    BY <1>5
  <2>2. v < i
    BY <1>8
  <2> QED BY <1>5, <2>1, <2>2
<1> QED
  BY <1>4, <1>6, <1>7, <1>8

(***************************************************************************)
(* defrag would lose no block its callers hold: whatever the table, as     *)
(* long as it can describe its chunks, and the last one is occupied and    *)
(* starts below 32 KB.                                                     *)
(***************************************************************************)
THEOREM DefragIsSafe ==
  ASSUME AllocatorAssumption
  PROVE  Spec => []DefragKeepsBlocks
<1>1. Init => IInv
  BY InitIInv
<1>2. IInv /\ [Next]_vars => IInv'
  BY StepIInv
<1>3. IInv => DefragKeepsBlocks
  <2>1. CASE TableFits
    BY <2>1, BlocksSurviveDefrag DEF IInv
  <2>2. CASE ~TableFits
    BY <2>2 DEF DefragKeepsBlocks
  <2> QED BY <2>1, <2>2
<1> QED
  BY <1>1, <1>2, <1>3, PTL DEF Spec

=============================================================================
