----------------------------- MODULE Allocator ------------------------------
(***************************************************************************)
(* The allocator of os/src/memory.c: a table of chunks in the order of     *)
(* their addresses, with the bit fields of MemoryEntry_t, and the mutex of *)
(* os/src/mutex.s around it.                                               *)
(*                                                                         *)
(* No interrupt handler allocates and threads switch only by system calls, *)
(* so a call runs to its end before the next one starts.  defrag is in     *)
(* module Defrag.                                                          *)
(***************************************************************************)
EXTENDS Integers, FiniteSetsExt

CONSTANTS
  NUM_OF_SLOTS,    \* entries of the table
  Requests         \* the sizes in bytes that are asked for

ASSUME AllocatorAssumption ==
  /\ NUM_OF_SLOTS \in Nat \ {0}
  /\ Requests \subseteq Nat

VARIABLES
  table,     \* at MEM_TABLE_START
  mutex,     \* the word lock_mutex and release_mutex work on
  held       \* the blocks the callers have not given back yet

vars == <<table, mutex, held>>

Slots == 1..NUM_OF_SLOTS
DefaultSize == 32767                  \* 0x7FFF: the chunk has never been used
Offsets == 0..65535                   \* the bit fields of MemoryEntry_t
Sizes == 0..32767
Unused == [offset |-> 0, size |-> DefaultSize, occupied |-> FALSE]

-----------------------------------------------------------------------------
(* The sizes allocate serves at all. *)
SizeAccepted(size) == size > 0 /\ size <= 32768

(* Rounded up to words, ... *)
WordAligned(size) == ((size + 3) \div 4) * 4

(* Mutant: the chunk is as big as the request. *)
ChunkSize_WordsOnly(need) == need

(* ... and the chunk to double words, in a bit field of 15 bits. *)
ChunkSize(need) == (((need + 7) \div 8) * 8) % 32768

(* Mutant: the size of a free chunk is not compared with the request. *)
Candidates_AnySize(need) == {i \in Slots : ~table[i].occupied}

(* The slots that allocate would take: reused or new. *)
Candidates(need) ==
  {i \in Slots : ~table[i].occupied /\ table[i].size >= need}

(* Mutant: free chunks that are passed over are not counted. *)
NextUseableChunk_SkipsFree(i) ==
  LET sum[k \in 0..(i - 1)] ==
        IF k = 0 THEN 0
        ELSE sum[k - 1] + IF table[k].occupied THEN table[k].size ELSE 0
  IN  sum[i - 1]

(* next_useable_chunk when the loop arrives at slot i. *)
NextUseableChunk(i) ==
  LET sum[k \in 0..(i - 1)] == IF k = 0 THEN 0 ELSE sum[k - 1] + table[k].size
  IN  sum[i - 1]

(* A chunk that was in use keeps its place and size; a new one follows the others. *)
Occupy(i, need) ==
  IF table[i].size # DefaultSize
    THEN [table[i] EXCEPT !.occupied = TRUE]
    ELSE [offset   |-> NextUseableChunk(i) % 65536,
          size     |-> ChunkSize(need),
          occupied |-> TRUE]

(***************************************************************************)
(* lock_mutex spins while the word is "locked".  It stores what register   *)
(* r1 happens to hold, which its callers do not set.                       *)
(***************************************************************************)
LockValues == {"unlocked", "locked", "other"}
MutexFree == mutex # "locked"

-----------------------------------------------------------------------------
(* init_allocator *)
Init ==
  /\ table = [i \in Slots |-> Unused]
  /\ mutex = "unlocked"
  /\ held = {}

Allocate(size) ==
  LET need == WordAligned(size)
      i == Min(Candidates(need))
  IN  /\ MutexFree
      /\ SizeAccepted(size)
      /\ Candidates(need) # {}
      /\ table' = [table EXCEPT ![i] = Occupy(i, need)]
      /\ held' = held \cup {[address |-> table'[i].offset, length |-> size]}
      /\ mutex' = "unlocked"

(* No slot is left for this size: NULL. *)
AllocateFails(size) ==
  /\ MutexFree
  /\ SizeAccepted(size)
  /\ Candidates(WordAligned(size)) = {}
  /\ mutex' = "unlocked"
  /\ UNCHANGED <<table, held>>

(* The early return for a bad size is taken after lock_mutex. *)
AllocateRejects(size) ==
  /\ MutexFree
  /\ ~SizeAccepted(size)
  /\ mutex' \in LockValues
  /\ UNCHANGED <<table, held>>

(* The entries deallocate compares successfully with an address. *)
Matches(address) == {i \in Slots : table[i].offset = address}

(* A caller gives back a block it holds. *)
Deallocate(b) ==
  /\ MutexFree
  /\ b \in held
  /\ held' = held \ {b}
  /\ table' = IF Matches(b.address) = {} THEN table
              ELSE [table EXCEPT ![Min(Matches(b.address))].occupied = FALSE]
  /\ mutex' = "unlocked"

(* deallocate(NULL), as in update_memory_statistic: no entry has this offset. *)
DeallocateUnknown ==
  /\ MutexFree
  /\ mutex' = "unlocked"
  /\ UNCHANGED <<table, held>>

Next ==
  \/ \E size \in Requests : \/ Allocate(size)
                            \/ AllocateFails(size)
                            \/ AllocateRejects(size)
  \/ \E b \in held : Deallocate(b)
  \/ DeallocateUnknown

Spec == Init /\ [][Next]_vars

-----------------------------------------------------------------------------
(***************************************************************************)
(* The type invariant.  Offsets and the sizes of used chunks are multiples *)
(* of eight, as stacks need it.                                            *)
(***************************************************************************)
TypeOK ==
  /\ table \in [Slots -> [offset : Offsets, size : Sizes, occupied : BOOLEAN]]
  /\ \A i \in Slots : /\ table[i].offset % 8 = 0
                      /\ table[i].size % 8 = 0 \/ table[i].size = DefaultSize
  /\ mutex \in LockValues
  /\ held \subseteq [address : Offsets, length : Requests]

(* Extent(t)[k] is the number of bytes of the chunks in t's first k slots.  *)
Bytes(entry) == IF entry.size = DefaultSize THEN 0 ELSE entry.size
Extent(t) ==
  LET sum[k \in 0..NUM_OF_SLOTS] == IF k = 0 THEN 0 ELSE sum[k - 1] + Bytes(t[k])
  IN  sum

(***************************************************************************)
(* The table can describe its chunks: together they fit into the 16 bits   *)
(* of an offset, and none has a size that 15 bits cut off to nothing.      *)
(* allocate checks neither, and chunks never go away: what the table loses *)
(* it does not get back.                                                   *)
(***************************************************************************)
TableFits ==
  /\ Extent(table)[NUM_OF_SLOTS] <= 65536
  /\ \A i \in Slots : table[i].size > 0

(***************************************************************************)
(* As long as the table can describe its chunks, every block a caller      *)
(* holds is backed by an occupied chunk that is big enough, deallocate     *)
(* will find this chunk and no other one by the address of the block, and  *)
(* no chunk is occupied for nobody.                                        *)
(***************************************************************************)
BlocksBacked ==
  TableFits =>
    /\ \A b \in held :
         /\ Matches(b.address) # {}
         /\ LET i == Min(Matches(b.address))
            IN  table[i].occupied /\ table[i].size >= b.length
    /\ \A i \in Slots : table[i].occupied =>
         \E b \in held : Matches(b.address) # {} /\ Min(Matches(b.address)) = i

(***************************************************************************)
(* Blocks held at the same time never overlap: the table implements the    *)
(* promise of module Heap, although chunks are reused, keep a size other   *)
(* than the requested one and have no record of their neighbours.  When    *)
(* the table does not fit any more, the promise ends.                      *)
(***************************************************************************)
HeldBlocks == INSTANCE Heap WITH held <- IF TableFits THEN held ELSE {},
                                 kept <- TableFits

ImplementsHeap == HeldBlocks!Spec

(***************************************************************************)
(* mutex.s:13, "If locked - wait for it to be released": the mutex is not  *)
(* held by a call that has returned.                                       *)
(***************************************************************************)
MutexReleased == mutex = "unlocked"

=============================================================================
