-------------------------------- MODULE Heap --------------------------------
(***************************************************************************)
(* The kernel heap: mm/heap/heap.c and its only instance, mm/heap/kheap.c. *)
(*                                                                         *)
(* The heap is an array of blocks; a table holds one hb_entry per block, a *)
(* byte of flags that is modelled as the set of the flags it carries, so   *)
(* that HEAP_BLOCK_ENTRY_FREE (0x0) is the empty set.  Addresses and sizes *)
(* are unsigned words, computed modulo 2^32 in the code and modulo         *)
(* WordModulus here.                                                       *)
(*                                                                         *)
(* live and freed are history variables: live holds the segments that      *)
(* clients own, freed the segment given back by the last kfree while no    *)
(* allocation has succeeded since (task.c frees a task twice in a row).    *)
(***************************************************************************)
EXTENDS Integers

CONSTANTS
  num_entries,       \* _hb_table->num_entries
  KERNEL_HB_SIZE,    \* bytes per block, 4096
  KERNEL_HEAP_BASE,  \* address of block 0
  WordModulus,       \* 2^32
  Sizes              \* the sizes that the clients ask for

ASSUME HeapAssumption ==
  /\ num_entries \in Nat \ {0}              \* validate_heap_table
  /\ KERNEL_HB_SIZE \in Nat \ {0}
  /\ KERNEL_HEAP_BASE \in Nat \ {0}
  /\ WordModulus \in Nat
  /\ WordModulus % KERNEL_HB_SIZE = 0
  /\ KERNEL_HEAP_BASE % KERNEL_HB_SIZE = 0    \* validate_heap_alignment
  /\ num_entries <= (WordModulus - KERNEL_HEAP_BASE) \div KERNEL_HB_SIZE
  /\ num_entries < WordModulus - 2
  /\ Sizes \subseteq 0 .. (WordModulus - 1)

VARIABLES
  entries,   \* _heap->entry_table->entries
  live,      \* the segments that clients own
  freed      \* at most one segment: freed, and no allocation since

vars == <<entries, live, freed>>
-----------------------------------------------------------------------------
Blocks == 0 .. (num_entries - 1)

HEAP_BLOCK_ENTRY_FREE == {}
Flags == {"TAKEN", "IS_FIRST", "HAS_NEXT"}

ERR_MALLOC_FAIL == WordModulus - 2      \* (uint32_t) -ERR_MALLOC_FAIL

Span(a) == a.start .. (a.start + a.len - 1)

RoundedDown(size) ==                   \* variant: the wrong direction
  size - (size % KERNEL_HB_SIZE)

(* The round-up may wrap to 0 for sizes in the last block of the word.     *)
get_aligned_heap_size(size) ==
  IF size % KERNEL_HB_SIZE = 0
  THEN size
  ELSE (size - (size % KERNEL_HB_SIZE) + KERNEL_HB_SIZE) % WordModulus

IsFreeRun(table, b, n) ==
  /\ n > 0
  /\ b + n <= num_entries
  /\ \A i \in b .. (b + n - 1) : table[i] = HEAP_BLOCK_ENTRY_FREE

IsFirstFit(table, b, n) ==
  /\ IsFreeRun(table, b, n)
  /\ \A c \in Blocks : IsFreeRun(table, c, n) => b <= c

(* HeapScan shows that the loop of the code computes this.                 *)
find_free_entry(table, n) ==
  IF \E b \in Blocks : IsFirstFit(table, b, n)
  THEN CHOOSE b \in Blocks : IsFirstFit(table, b, n)
  ELSE ERR_MALLOC_FAIL

MarkAllButLast(table, sblock, eblock) ==   \* variant: < for <=
  [b \in Blocks |->
     IF b \in sblock .. (eblock - 1) \/ b = sblock
     THEN {"TAKEN"} \cup (IF b = sblock THEN {"IS_FIRST"} ELSE {})
                    \cup (IF b < eblock THEN {"HAS_NEXT"} ELSE {})
     ELSE table[b]]

mark_blocks_taken(table, sblock, eblock) ==
  [b \in Blocks |->
     IF b \in sblock .. eblock
     THEN {"TAKEN"} \cup (IF b = sblock THEN {"IS_FIRST"} ELSE {})
                    \cup (IF b < eblock THEN {"HAS_NEXT"} ELSE {})
     ELSE table[b]]

(* The loop clears an entry and then tests HAS_NEXT of the cleared entry:  *)
(* it always stops after the first block.                                  *)
free_blocks(table, start_block) ==
  [b \in Blocks |->
     IF b = start_block THEN HEAP_BLOCK_ENTRY_FREE ELSE table[b]]

block_address(b) == KERNEL_HEAP_BASE + b * KERNEL_HB_SIZE

BlockRoundedUp(addr) ==                \* variant: interior pointers
  ((addr - KERNEL_HEAP_BASE + KERNEL_HB_SIZE - 1) % WordModulus)
    \div KERNEL_HB_SIZE

block_of(addr) ==
  ((addr - KERNEL_HEAP_BASE) % WordModulus) \div KERNEL_HB_SIZE
-----------------------------------------------------------------------------
(* kmalloc and kzalloc: malloc, malloc_blocks.  kzalloc also zeroes the    *)
(* requested bytes, which stay inside the segment (AllocatorSpec).         *)
kmalloc(size) ==
  LET n == get_aligned_heap_size(size) \div KERNEL_HB_SIZE
      s == find_free_entry(entries, n)
  IN  /\ s # ERR_MALLOC_FAIL
      /\ entries' = mark_blocks_taken(entries, s, s + n - 1)
      /\ live' = live \cup {[start |-> s, len |-> n, size |-> size]}
      /\ freed' = {}

(* The request that cannot be served returns 0x0 and changes nothing.      *)
kmalloc_fails(size) ==
  /\ find_free_entry(entries,
       get_aligned_heap_size(size) \div KERNEL_HB_SIZE) = ERR_MALLOC_FAIL
  /\ UNCHANGED vars

(* free(&kheap, addr), whatever the address.                               *)
free(addr) == entries' = free_blocks(entries, block_of(addr))

(* A client gives a segment back.  The address may point anywhere into the *)
(* first block: parser.c advances temp_path before it frees it.            *)
kfree(a, offset) ==
  /\ free(block_address(a.start) + offset)
  /\ live' = live \ {a}
  /\ freed' = {a}

(* task_kill and close_task free a task that task_list_delete just freed.  *)
kfree_again(a) ==
  /\ free(block_address(a.start))
  /\ UNCHANGED <<live, freed>>

(* kfree of a null pointer: the block number is out of the table.          *)
kfree_null ==
  /\ free(0)
  /\ UNCHANGED <<live, freed>>

(* kheap_init, create_heap *)
Init ==
  /\ entries = [b \in Blocks |-> HEAP_BLOCK_ENTRY_FREE]
  /\ live = {}
  /\ freed = {}

Next ==
  \/ \E size \in Sizes : kmalloc(size)
  \/ \E size \in Sizes : kmalloc_fails(size)
  \/ \E a \in live, offset \in 0 .. (KERNEL_HB_SIZE - 1) : kfree(a, offset)
  \/ \E a \in freed : kfree_again(a)
  \/ kfree_null

Spec == Init /\ [][Next]_vars
-----------------------------------------------------------------------------
Segments == [start : Blocks, len : 1 .. num_entries, size : Sizes]

(* The table maps every block to a set of flags and the history variables  *)
(* hold segments of the heap.                                              *)
TypeOK ==
  /\ entries \in [Blocks -> SUBSET Flags]
  /\ live \subseteq Segments
  /\ freed \subseteq Segments

(* No two segments that clients own share a block: what first fit over the *)
(* table must guarantee although kfree clears only one entry, clients free *)
(* through interior pointers, and tasks are freed twice.                   *)
NoOverlap ==
  \A a, b \in live : a # b => Span(a) \cap Span(b) = {}

(* Every owned segment is recorded in the table as the chain that          *)
(* mark_blocks_taken wrote: no other operation has touched its entries.    *)
LiveMarked ==
  \A a \in live : \A i \in Span(a) :
    /\ i \in Blocks
    /\ entries[i] = {"TAKEN"}
         \cup (IF i = a.start THEN {"IS_FIRST"} ELSE {})
         \cup (IF i < a.start + a.len - 1 THEN {"HAS_NEXT"} ELSE {})

(* The segment that may be freed a second time overlaps no owned segment.  *)
FreedNotLive ==
  \A a \in freed, b \in live : a.start \notin Span(b)

(* The block table implements the contract of the heap.                    *)
A == INSTANCE Allocator WITH NumBlocks <- num_entries,
                             BlockSize <- KERNEL_HB_SIZE
AllocatorSpec == A!Spec

(* heap.c:57 "deallocates memory provided the base address of the segment  *)
(* tobe free'd": every block of the segment given back is free again.      *)
FreeReleasesSegment ==
  [][\A a \in live : live' = live \ {a} =>
       \A i \in Span(a) : entries'[i] = HEAP_BLOCK_ENTRY_FREE]_vars
=============================================================================
