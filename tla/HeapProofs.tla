----------------------------- MODULE HeapProofs -----------------------------
(***************************************************************************)
(* Proofs about Heap: the block table is safe, and implements Allocator,   *)
(* for every size of the heap, of a block and of the word; and the loop of *)
(* find_free_entry returns the first fit that Heap assumes of it.          *)
(***************************************************************************)
EXTENDS HeapScan, TLAPS

(* The quotient and the remainder of the machine's unsigned division.      *)
LEMMA DivMod ==
  ASSUME NEW a \in Nat, NEW b \in Nat \ {0}
  PROVE  /\ a \div b \in Nat
         /\ a % b \in 0 .. (b - 1)
         /\ a = b * (a \div b) + (a % b)
  BY SMT

LEMMA DivUnique ==
  ASSUME NEW q \in Nat, NEW b \in Nat \ {0}, NEW r \in 0 .. (b - 1)
  PROVE  (b * q + r) \div b = q
  BY SMT

LEMMA ModSmall ==
  ASSUME NEW m \in Nat \ {0}, NEW a \in 0 .. (m - 1)
  PROVE  a % m = a
  BY SMT

LEMMA MulMono ==
  ASSUME NEW a \in Nat, NEW b \in Nat, NEW c \in Nat, a <= b
  PROVE  c * a <= c * b
  BY SMT

LEMMA ModNegative ==
  ASSUME NEW m \in Nat \ {0}, NEW a \in 1 .. (m - 1)
  PROVE  (0 - a) % m = m - a
  BY SMT
-----------------------------------------------------------------------------
(* The constants of the kernel: the table ends before the word does.       *)
LEMMA HeapFits ==
  /\ num_entries \in Nat \ {0}
  /\ KERNEL_HB_SIZE \in Nat \ {0}
  /\ KERNEL_HEAP_BASE \in 1 .. (WordModulus - 1)
  /\ WordModulus \in Nat \ {0}
  /\ KERNEL_HB_SIZE * num_entries <= WordModulus - KERNEL_HEAP_BASE
<1>1. num_entries \in Nat \ {0} /\ KERNEL_HB_SIZE \in Nat \ {0}
      /\ KERNEL_HEAP_BASE \in Nat \ {0} /\ WordModulus \in Nat
  BY HeapAssumption
<1>2. num_entries <= (WordModulus - KERNEL_HEAP_BASE) \div KERNEL_HB_SIZE
  BY HeapAssumption
<1>3. KERNEL_HEAP_BASE < WordModulus
  <2>1. SUFFICES ASSUME WordModulus - KERNEL_HEAP_BASE <= 0 PROVE FALSE
    BY <1>1
  <2>2. (WordModulus - KERNEL_HEAP_BASE) \div KERNEL_HB_SIZE <= 0
    BY <1>1, <2>1
  <2> QED BY <1>1, <1>2, <2>2
<1>4. WordModulus - KERNEL_HEAP_BASE \in Nat
  BY <1>1, <1>3
<1> DEFINE q == (WordModulus - KERNEL_HEAP_BASE) \div KERNEL_HB_SIZE
<1> DEFINE r == (WordModulus - KERNEL_HEAP_BASE) % KERNEL_HB_SIZE
<1>a. /\ q \in Nat /\ r \in 0 .. (KERNEL_HB_SIZE - 1)
      /\ WordModulus - KERNEL_HEAP_BASE = KERNEL_HB_SIZE * q + r
  BY <1>1, <1>4, DivMod, Zenon
<1> HIDE DEF q, r
<1>5. q \in Nat /\ KERNEL_HB_SIZE * q <= WordModulus - KERNEL_HEAP_BASE
  BY <1>1, <1>a
<1>6. KERNEL_HB_SIZE * num_entries <= KERNEL_HB_SIZE * q
  BY <1>1, <1>2, <1>5, MulMono DEF q
<1>7. KERNEL_HB_SIZE * num_entries <= WordModulus - KERNEL_HEAP_BASE
  BY <1>1, <1>5, <1>6
<1> QED BY <1>1, <1>3, <1>7

(* free finds the first block of a segment from every address in it.       *)
LEMMA AddressBlock ==
  ASSUME NEW s \in Blocks, NEW offset \in 0 .. (KERNEL_HB_SIZE - 1)
  PROVE  block_of(block_address(s) + offset) = s
<1>1. s \in Nat /\ s + 1 <= num_entries
  BY HeapFits DEF Blocks
<1>2. KERNEL_HB_SIZE * (s + 1) <= KERNEL_HB_SIZE * num_entries
  BY <1>1, HeapFits, MulMono
<1> DEFINE d == KERNEL_HB_SIZE * s + offset
<1>3. d \in 0 .. (WordModulus - 1)
  BY <1>1, <1>2, HeapFits
<1> DEFINE addr == block_address(s) + offset
<1>4. addr - KERNEL_HEAP_BASE = d
  BY <1>1, HeapFits DEF block_address
<1>5. d % WordModulus = d
  BY <1>3, HeapFits, ModSmall
<1>6. d \div KERNEL_HB_SIZE = s
  BY <1>1, HeapFits, DivUnique
<1> HIDE DEF d, addr
<1>7. block_of(addr) =
        ((addr - KERNEL_HEAP_BASE) % WordModulus) \div KERNEL_HB_SIZE
  BY DEF block_of
<1>8. block_of(addr) = s
  BY <1>4, <1>5, <1>6, <1>7
<1> QED BY <1>8 DEF addr

(* kfree(0) addresses no entry of the table.                               *)
LEMMA NullOutside == block_of(0) \notin Blocks
<1>1. (0 - KERNEL_HEAP_BASE) % WordModulus = WordModulus - KERNEL_HEAP_BASE
  BY HeapFits, ModNegative
<1>2. block_of(0) = (WordModulus - KERNEL_HEAP_BASE) \div KERNEL_HB_SIZE
  BY <1>1 DEF block_of
<1>3. num_entries <= block_of(0) /\ num_entries \in Nat
  BY <1>2, HeapAssumption
<1>4. block_of(0) \in Nat
  BY <1>2, HeapFits, DivMod
<1> QED BY <1>3, <1>4 DEF Blocks

(* The blocks that malloc asks for hold the size, unless the round-up      *)
(* wrapped, which makes them none.                                         *)
LEMMA RoundUp ==
  ASSUME NEW size \in Sizes
  PROVE  LET n == get_aligned_heap_size(size) \div KERNEL_HB_SIZE
         IN  n \in Nat /\ (n > 0 => size <= n * KERNEL_HB_SIZE)
<1> DEFINE B == KERNEL_HB_SIZE
           q == size \div B
           w == WordModulus \div B
           aligned == get_aligned_heap_size(size)
           n == aligned \div B
<1>1. size \in 0 .. (WordModulus - 1) /\ WordModulus % B = 0
  BY HeapAssumption
<1>2. q \in Nat /\ size % B \in 0 .. (B - 1) /\ size = B * q + (size % B)
  <2>1. size \in Nat /\ B \in Nat \ {0}
    BY <1>1, HeapFits
  <2> QED BY <2>1, DivMod, Zenon
<1>3. w \in Nat /\ WordModulus = B * w
  <2>1. WordModulus \in Nat /\ B \in Nat \ {0}
    BY HeapFits
  <2>2. w \in Nat /\ WordModulus = B * w + (WordModulus % B)
    BY <2>1, DivMod, Zenon
  <2> HIDE DEF w
  <2> QED BY <1>1, <2>1, <2>2
<1>4. CASE size % B = 0
  <2>1. aligned = size
    BY <1>4 DEF get_aligned_heap_size
  <2>2. n = q
    BY <2>1
  <2>3. size = n * B
    BY <1>2, <1>4, <2>2, HeapFits
  <2>4. n \in Nat
    BY <1>2, <2>2
  <2>5. size <= n * B
    BY <1>1, <2>3
  <2> QED BY <2>4, <2>5
<1>5. CASE size % B # 0
  <2>1. aligned = (B * (q + 1)) % WordModulus
    <3>1. size - (size % B) + B = B * (q + 1)
      BY <1>2, HeapFits
    <3> QED BY <3>1, <1>5 DEF get_aligned_heap_size
  <2>2. q + 1 <= w
    <3>1. SUFFICES ASSUME w <= q PROVE FALSE
      BY <1>2, <1>3
    <3>2. B * w <= B * q
      BY <1>2, <1>3, <3>1, HeapFits, MulMono
    <3> QED BY <1>1, <1>2, <1>3, <3>2, HeapFits
  <2>3. B * (q + 1) <= WordModulus
    BY <1>2, <1>3, <2>2, HeapFits, MulMono
  <2> HIDE DEF q
  <2>4. CASE B * (q + 1) = WordModulus
    <3>1. aligned = 0
      BY <2>1, <2>4, HeapFits
    <3>2. n = 0
      BY <3>1, HeapFits
    <3> QED BY <3>2
  <2>5. CASE B * (q + 1) # WordModulus
    <3>1. B * (q + 1) \in 0 .. (WordModulus - 1)
      BY <1>2, <2>3, <2>5, HeapFits
    <3>2. aligned = B * (q + 1) + 0
      BY <2>1, <3>1, HeapFits, ModSmall
    <3>a. q + 1 \in Nat /\ B \in Nat \ {0} /\ 0 \in 0 .. (B - 1)
      BY <1>2, HeapFits
    <3>3. n = q + 1
      BY <3>a, <3>2, DivUnique, Zenon
    <3>4. size <= (q + 1) * B
      BY <1>2, HeapFits
    <3>5. n \in Nat /\ size <= n * B
      BY <1>2, <3>3, <3>4
    <3> QED BY <3>5
  <2> QED BY <2>4, <2>5
<1> QED BY <1>4, <1>5
-----------------------------------------------------------------------------
(* What find_free_entry returns, unless it fails, is a run of free blocks. *)
LEMMA FindFree ==
  ASSUME NEW table, NEW n \in Nat,
         find_free_entry(table, n) # ERR_MALLOC_FAIL
  PROVE  /\ find_free_entry(table, n) \in Blocks
         /\ IsFreeRun(table, find_free_entry(table, n), n)
<1>1. PICK b \in Blocks : IsFirstFit(table, b, n)
  BY DEF find_free_entry
<1>2. /\ find_free_entry(table, n) \in Blocks
      /\ IsFirstFit(table, find_free_entry(table, n), n)
  BY <1>1 DEF find_free_entry
<1> QED BY <1>2 DEF IsFirstFit

(* The inductive invariant.  NoOverlap alone is not inductive: that a new  *)
(* segment meets no owned one follows from the flags of the owned blocks   *)
(* (LiveMarked), and that a second kfree of a task leaves those flags      *)
(* alone from FreedNotLive.                                                *)
HeapInv == TypeOK /\ NoOverlap /\ LiveMarked /\ FreedNotLive

LEMMA SpanOfLive ==
  ASSUME TypeOK, NEW a \in live
  PROVE  /\ a \in Segments
         /\ a.start \in Nat /\ a.len \in Nat \ {0}
         /\ a.start \in Blocks
         /\ a.start \in Span(a)
  BY HeapFits DEF TypeOK, Segments, Blocks, Span

LEMMA HeapInvInit == Init => HeapInv
  BY DEF Init, HeapInv, TypeOK, NoOverlap, LiveMarked, FreedNotLive, Blocks,
         HEAP_BLOCK_ENTRY_FREE

(* kmalloc: the new segment lies in free blocks, so it meets no owned one. *)
LEMMA KmallocFacts ==
  ASSUME TypeOK, LiveMarked, NEW size \in Sizes, kmalloc(size)
  PROVE  \E a \in Segments :
           /\ a.size = size
           /\ size <= a.len * KERNEL_HB_SIZE
           /\ Span(a) \subseteq Blocks
           /\ \A b \in live : Span(a) \cap Span(b) = {}
           /\ entries' = mark_blocks_taken(entries, a.start, a.start + a.len - 1)
           /\ live' = live \cup {a}
           /\ freed' = {}
<1> DEFINE n == get_aligned_heap_size(size) \div KERNEL_HB_SIZE
           s == find_free_entry(entries, n)
           a == [start |-> s, len |-> n, size |-> size]
<1>1. /\ s # ERR_MALLOC_FAIL
      /\ entries' = mark_blocks_taken(entries, s, s + n - 1)
      /\ live' = live \cup {a}
      /\ freed' = {}
  BY DEF kmalloc
<1>2. n \in Nat /\ (n > 0 => size <= n * KERNEL_HB_SIZE)
  BY RoundUp
<1> HIDE DEF n
<1>3. s \in Blocks /\ IsFreeRun(entries, s, n)
  BY <1>1, <1>2, FindFree
<1> HIDE DEF s
<1>4. /\ n > 0 /\ s + n <= num_entries
      /\ \A i \in s .. (s + n - 1) : entries[i] = HEAP_BLOCK_ENTRY_FREE
  BY <1>3 DEF IsFreeRun
<1>5. a \in Segments
  BY <1>2, <1>3, <1>4, HeapFits DEF Segments, Blocks
<1>6. Span(a) = s .. (s + n - 1)
  BY DEF Span
<1>7. Span(a) \subseteq Blocks
  BY <1>2, <1>3, <1>4, <1>6, HeapFits DEF Blocks
<1>8. \A b \in live : Span(a) \cap Span(b) = {}
  <2>1. SUFFICES ASSUME NEW b \in live, NEW i \in Span(a), i \in Span(b)
                 PROVE  FALSE
    OBVIOUS
  <2>2. entries[i] = {}
    BY <1>4, <1>6 DEF HEAP_BLOCK_ENTRY_FREE
  <2>3. "TAKEN" \in entries[i]
    BY <2>1 DEF LiveMarked
  <2> QED BY <2>2, <2>3
<1>9. size <= n * KERNEL_HB_SIZE
  BY <1>2, <1>4
<1> QED BY <1>1, <1>5, <1>7, <1>8, <1>9

(* Clearing the entry of a block that no owned segment contains.           *)
LEMMA ClearOutside ==
  ASSUME TypeOK, NEW block, entries' = free_blocks(entries, block),
         live' \subseteq live, LiveMarked,
         \A b \in live' : block \notin Span(b)
  PROVE  /\ entries' \in [Blocks -> SUBSET Flags]
         /\ LiveMarked'
<1>1. entries' \in [Blocks -> SUBSET Flags]
  BY DEF TypeOK, free_blocks, HEAP_BLOCK_ENTRY_FREE
<1>2. ASSUME NEW b \in live', NEW i \in Span(b)
      PROVE  i \in Blocks /\ entries'[i] = entries[i]
  <2>1. i \in Blocks
    BY <1>2 DEF LiveMarked
  <2> QED BY <1>2, <2>1 DEF free_blocks
<1>3. LiveMarked'
  BY <1>2 DEF LiveMarked, Span
<1> QED BY <1>1, <1>3

LEMMA HeapInvNext == HeapInv /\ [Next]_vars => HeapInv'
<1> SUFFICES ASSUME HeapInv, [Next]_vars PROVE HeapInv'
  OBVIOUS
<1> USE DEF HeapInv
<1>1. ASSUME NEW size \in Sizes, kmalloc(size) PROVE HeapInv'
  <2>1. PICK a \in Segments :
          /\ Span(a) \subseteq Blocks
          /\ \A b \in live : Span(a) \cap Span(b) = {}
          /\ entries' = mark_blocks_taken(entries, a.start, a.start + a.len - 1)
          /\ live' = live \cup {a}
          /\ freed' = {}
    BY <1>1, KmallocFacts
  <2>2. TypeOK'
    <3>1. entries' \in [Blocks -> SUBSET Flags]
      BY <2>1 DEF TypeOK, mark_blocks_taken, Flags
    <3> QED BY <2>1, <3>1 DEF TypeOK
  <2>3. NoOverlap'
    BY <2>1 DEF NoOverlap
  <2>4. LiveMarked'
    <3>1. ASSUME NEW i \in Span(a)
          PROVE  /\ i \in Blocks
                 /\ entries'[i] = {"TAKEN"}
                      \cup (IF i = a.start THEN {"IS_FIRST"} ELSE {})
                      \cup (IF i < a.start + a.len - 1 THEN {"HAS_NEXT"} ELSE {})
      BY <2>1, <3>1 DEF mark_blocks_taken, Span
    <3>2. ASSUME NEW b \in live, NEW i \in Span(b)
          PROVE  i \in Blocks /\ entries'[i] = entries[i]
      <4>1. i \in Blocks
        BY DEF LiveMarked
      <4>2. i \notin a.start .. (a.start + a.len - 1)
        BY <2>1 DEF Span
      <4> QED BY <2>1, <4>1, <4>2 DEF mark_blocks_taken
    <3> QED BY <2>1, <3>1, <3>2 DEF LiveMarked
  <2>5. FreedNotLive'
    BY <2>1 DEF FreedNotLive
  <2> QED BY <2>2, <2>3, <2>4, <2>5
<1>2. ASSUME NEW size \in Sizes, kmalloc_fails(size) PROVE HeapInv'
  BY <1>2 DEF kmalloc_fails, vars, TypeOK, NoOverlap, LiveMarked, FreedNotLive
<1>3. ASSUME NEW a \in live, NEW offset \in 0 .. (KERNEL_HB_SIZE - 1),
             kfree(a, offset)
      PROVE  HeapInv'
  <2>1. a.start \in Blocks /\ a.start \in Span(a) /\ a \in Segments
    BY SpanOfLive
  <2>2. /\ entries' = free_blocks(entries, a.start)
        /\ live' = live \ {a}
        /\ freed' = {a}
    BY <1>3, <2>1, AddressBlock DEF kfree, free
  <2>3. \A b \in live' : a.start \notin Span(b)
    BY <2>1, <2>2 DEF NoOverlap
  <2>4. entries' \in [Blocks -> SUBSET Flags] /\ LiveMarked'
    BY <2>2, <2>3, ClearOutside
  <2>5. TypeOK'
    BY <2>1, <2>2, <2>4 DEF TypeOK
  <2>6. NoOverlap' /\ FreedNotLive'
    BY <2>2, <2>3 DEF NoOverlap, FreedNotLive
  <2> QED BY <2>4, <2>5, <2>6
<1>4. ASSUME NEW a \in freed, kfree_again(a) PROVE HeapInv'
  <2>1. a.start \in Blocks /\ 0 \in 0 .. (KERNEL_HB_SIZE - 1)
    BY HeapFits DEF TypeOK, Segments
  <2>2. block_address(a.start) + 0 = block_address(a.start)
    BY <2>1, HeapFits DEF block_address, Blocks
  <2>3. block_of(block_address(a.start)) = a.start
    BY <2>1, <2>2, AddressBlock
  <2>4. entries' = free_blocks(entries, a.start) /\ UNCHANGED <<live, freed>>
    BY <1>4, <2>3 DEF kfree_again, free
  <2>5. \A b \in live' : a.start \notin Span(b)
    BY <2>4 DEF FreedNotLive
  <2>6. entries' \in [Blocks -> SUBSET Flags] /\ LiveMarked'
    BY <2>4, <2>5, ClearOutside
  <2> QED BY <2>4, <2>6 DEF TypeOK, NoOverlap, FreedNotLive
<1>5. CASE kfree_null
  <2>1. entries' = free_blocks(entries, block_of(0)) /\ UNCHANGED <<live, freed>>
    BY <1>5 DEF kfree_null, free
  <2>2. \A b \in live' : block_of(0) \notin Span(b)
    BY <2>1, NullOutside DEF LiveMarked
  <2>3. entries' \in [Blocks -> SUBSET Flags] /\ LiveMarked'
    BY <2>1, <2>2, ClearOutside
  <2> QED BY <2>1, <2>3 DEF TypeOK, NoOverlap, FreedNotLive
<1>6. CASE UNCHANGED vars
  BY <1>6 DEF vars, TypeOK, NoOverlap, LiveMarked, FreedNotLive
<1> QED BY <1>1, <1>2, <1>3, <1>4, <1>5, <1>6 DEF Next

LEMMA HeapInvariant == Spec => []HeapInv
  BY HeapInvInit, HeapInvNext, PTL DEF Spec

(* The entries of the table keep their type and the history variables hold *)
(* segments of the heap, for every geometry of the heap.                   *)
THEOREM HeapTypeSafety == Spec => []TypeOK
<1>1. HeapInv => TypeOK
  BY DEF HeapInv
<1> QED BY <1>1, HeapInvariant, PTL

(* No block of the kernel heap is ever owned by two clients.               *)
THEOREM HeapNoOverlap == Spec => []NoOverlap
<1>1. HeapInv => NoOverlap
  BY DEF HeapInv
<1> QED BY <1>1, HeapInvariant, PTL

(* The flags of an owned segment are those that mark_blocks_taken wrote.   *)
THEOREM HeapLiveMarked == Spec => []LiveMarked
<1>1. HeapInv => LiveMarked
  BY DEF HeapInv
<1> QED BY <1>1, HeapInvariant, PTL
-----------------------------------------------------------------------------
LEMMA SameBlocks == A!Blocks = Blocks /\ (\A a : A!Span(a) = Span(a))
                    /\ A!Segments = Segments
  BY DEF A!Blocks, Blocks, A!Span, Span, A!Segments, Segments

LEMMA RefinesInit == Init => A!Init
  BY DEF Init, A!Init

LEMMA RefinesNext == HeapInv /\ [Next]_vars => [A!Next]_live
<1> SUFFICES ASSUME HeapInv, [Next]_vars PROVE [A!Next]_live
  OBVIOUS
<1> USE DEF HeapInv
<1>1. ASSUME NEW size \in Sizes, kmalloc(size) PROVE A!Next
  <2>1. PICK a \in Segments :
          /\ a.size = size
          /\ size <= a.len * KERNEL_HB_SIZE
          /\ Span(a) \subseteq Blocks
          /\ \A b \in live : Span(a) \cap Span(b) = {}
          /\ live' = live \cup {a}
    BY <1>1, KmallocFacts
  <2>2. A!Malloc(a)
    BY <2>1, SameBlocks DEF A!Malloc
  <2>3. a \in A!Segments
    BY <2>1, SameBlocks
  <2> QED BY <2>2, <2>3 DEF A!Next
<1>2. ASSUME NEW a \in live, NEW offset \in 0 .. (KERNEL_HB_SIZE - 1),
             kfree(a, offset)
      PROVE  A!Next
  BY <1>2 DEF kfree, A!Next, A!Free
<1>3. CASE \/ \E size \in Sizes : kmalloc_fails(size)
           \/ \E a \in freed : kfree_again(a)
           \/ kfree_null
           \/ UNCHANGED vars
  BY <1>3 DEF kmalloc_fails, kfree_again, kfree_null, vars
<1> QED BY <1>1, <1>2, <1>3 DEF Next

(* The block table implements the contract that Process and ProcMem rely   *)
(* on: whatever kmalloc returns lies in the heap, is large enough and      *)
(* meets no owned segment, also when the round-up of the size wraps, when  *)
(* clients free through interior pointers, twice, or free null.            *)
THEOREM HeapImplementsAllocator == Spec => AllocatorSpec
<1>1. Init /\ [][Next]_vars /\ []HeapInv => A!Init /\ [][A!Next]_live
  BY RefinesInit, RefinesNext, PTL
<1> QED BY <1>1, HeapInvariant, PTL DEF Spec, AllocatorSpec, A!Spec
-----------------------------------------------------------------------------
LEMMA ScanConstants ==
  /\ num_entries \in Nat \ {0}
  /\ WordModulus \in Nat
  /\ num_entries < WordModulus - 2
  BY HeapAssumption

(* A first fit is the value of find_free_entry.                            *)
LEMMA FirstFitUnique ==
  ASSUME NEW table, NEW n, NEW b \in Blocks, IsFirstFit(table, b, n)
  PROVE  find_free_entry(table, n) = b
<1>1. /\ find_free_entry(table, n) \in Blocks
      /\ IsFirstFit(table, find_free_entry(table, n), n)
  BY DEF find_free_entry
<1>2. b <= find_free_entry(table, n) /\ find_free_entry(table, n) <= b
  BY <1>1 DEF IsFirstFit
<1> QED BY <1>1, <1>2, ScanConstants DEF Blocks

(* Without a fit, find_free_entry is the error value.                      *)
LEMMA NoFitFails ==
  ASSUME NEW table, NEW n, \A b \in Blocks : ~IsFreeRun(table, b, n)
  PROVE  find_free_entry(table, n) = ERR_MALLOC_FAIL
  BY DEF find_free_entry, IsFirstFit

ScanInv == ScanTypeOK /\ ScanLoopInv /\ ScanFindsFirstFit

LEMMA ScanInvInit == ScanInit => ScanInv
<1> SUFFICES ASSUME ScanInit PROVE ScanInv
  OBVIOUS
<1> USE ScanConstants DEF ScanInit
<1>1. ScanTypeOK
  BY DEF ScanTypeOK, HEAP_BLOCK_ENTRY_FREE, Flags
<1>2. ScanLoopInv
  BY DEF ScanLoopInv, IsFreeRun, Blocks
<1>3. ScanFindsFirstFit
  BY DEF ScanFindsFirstFit, Returned
<1> QED BY <1>1, <1>2, <1>3 DEF ScanInv

(* A block in use ends the run: no fit ends at it.                         *)
LEMMA TakenStep == ScanInv /\ ScanTaken /\ UNCHANGED vars => ScanInv'
<1> SUFFICES ASSUME ScanInv, ScanTaken, UNCHANGED vars PROVE ScanInv'
  OBVIOUS
<1> USE ScanConstants DEF ScanInv
<1>1. /\ ~Returned /\ current_block < num_entries
      /\ entries[current_block] # HEAP_BLOCK_ENTRY_FREE
      /\ block_start' = NoStart /\ block_count' = 0
      /\ current_block' = current_block + 1
      /\ UNCHANGED <<blocks_to_allocate, result, entries>>
  BY DEF ScanTaken, vars
<1>2. ScanTypeOK'
  BY <1>1 DEF ScanTypeOK
<1>3. ~Returned' /\ ScanFindsFirstFit'
  BY <1>1 DEF Returned, ScanFindsFirstFit
<1>4. ASSUME NEW b \in Blocks, b + blocks_to_allocate <= current_block + 1,
             IsFreeRun(entries, b, blocks_to_allocate)
      PROVE  FALSE
  <2>1. b + blocks_to_allocate = current_block + 1
    BY <1>1, <1>4 DEF ScanTypeOK, ScanLoopInv, Blocks
  <2>2. current_block \in b .. (b + blocks_to_allocate - 1)
    BY <1>4, <2>1 DEF ScanTypeOK, IsFreeRun, Blocks
  <2> QED BY <1>1, <1>4, <2>2 DEF IsFreeRun
<1>5. \A b \in Blocks : b + blocks_to_allocate' <= current_block' =>
         ~IsFreeRun(entries', b, blocks_to_allocate')
  BY <1>1, <1>4
<1>6. ScanLoopInv'
  BY <1>1, <1>3, <1>5 DEF ScanLoopInv, ScanTypeOK
<1> QED BY <1>2, <1>3, <1>6

(* A free block extends the run, which is the first fit when it is long    *)
(* enough.                                                                 *)
LEMMA FreeStep == ScanInv /\ ScanFree /\ UNCHANGED vars => ScanInv'
<1> SUFFICES ASSUME ScanInv, ScanFree, UNCHANGED vars PROVE ScanInv'
  OBVIOUS
<1> USE ScanConstants DEF ScanInv
<1> DEFINE n == blocks_to_allocate
           s == block_start'
           cb == current_block
<1>1. /\ ~Returned /\ cb < num_entries
      /\ entries[cb] = HEAP_BLOCK_ENTRY_FREE
      /\ block_count' = block_count + 1
      /\ s = IF block_start = NoStart THEN cb ELSE block_start
      /\ UNCHANGED <<blocks_to_allocate, entries>>
  BY DEF ScanFree, vars
<1>2. /\ n \in Nat /\ cb \in 0 .. num_entries /\ block_count \in 0 .. num_entries
      /\ entries \in [Blocks -> SUBSET Flags]
      /\ block_start \in Blocks \cup {NoStart}
  BY DEF ScanTypeOK
<1>3. /\ s \in Blocks /\ s <= cb
      /\ s + block_count' = cb + 1
      /\ s > 0 => entries[s - 1] # HEAP_BLOCK_ENTRY_FREE
      /\ n = 0 \/ block_count < n
  BY <1>1, <1>2 DEF ScanLoopInv, Blocks
<1>4. \A i \in s .. cb : entries[i] = HEAP_BLOCK_ENTRY_FREE
  BY <1>1, <1>2, <1>3 DEF ScanLoopInv, Blocks
<1>5. \A b \in Blocks : b + n <= cb => ~IsFreeRun(entries, b, n)
  BY <1>1 DEF ScanLoopInv
<1>6. CASE block_count' = n
  <2>1. result' = s /\ current_block' = cb
    BY <1>6 DEF ScanFree
  <2>2. IsFreeRun(entries, s, n)
    BY <1>1, <1>2, <1>3, <1>4, <1>6 DEF IsFreeRun, Blocks
  <2>3. IsFirstFit(entries, s, n)
    <3>1. ASSUME NEW c \in Blocks, IsFreeRun(entries, c, n) PROVE s <= c
      <4>1. ~(c + n <= cb)
        BY <3>1, <1>5
      <4>2. s + n = cb + 1 /\ s \in Nat /\ c \in Nat
        BY <1>3, <1>6 DEF Blocks
      <4> HIDE DEF n, s, cb
      <4> QED BY <1>2, <4>1, <4>2
    <3> QED BY <2>2, <3>1 DEF IsFirstFit
  <2>4. find_free_entry(entries, n) = s
    BY <1>3, <2>3, FirstFitUnique
  <2>5. ScanFindsFirstFit'
    BY <1>1, <2>1, <2>4 DEF ScanFindsFirstFit
  <2>6. ScanTypeOK'
    BY <1>1, <1>2, <1>3, <2>1 DEF ScanTypeOK, Blocks
  <2>7. Returned'
    BY <1>3, <2>1 DEF Returned, NotReturned, Blocks
  <2> QED BY <2>5, <2>6, <2>7 DEF ScanLoopInv
<1>7. CASE block_count' # n
  <2>1. result' = result /\ current_block' = cb + 1
    BY <1>7 DEF ScanFree
  <2>2. ScanTypeOK'
    BY <1>1, <1>2, <1>3, <2>1 DEF ScanTypeOK, Blocks
  <2>3. ~Returned' /\ ScanFindsFirstFit'
    BY <1>1, <2>1 DEF Returned, ScanFindsFirstFit
  <2>4. n = 0 \/ block_count' < n
    BY <1>1, <1>2, <1>3, <1>7
  <2>5. ASSUME NEW b \in Blocks, b + n <= cb + 1, IsFreeRun(entries, b, n)
        PROVE  FALSE
    <3>1. n > 0 /\ b + n = cb + 1
      BY <1>2, <1>5, <2>5 DEF IsFreeRun, Blocks
    <3>2. CASE b < s
      <4>1. s - 1 \in b .. (b + n - 1) /\ s > 0
        <5>1. s \in Nat /\ b \in Nat /\ s <= cb
          BY <1>3 DEF Blocks
        <5> HIDE DEF n, s, cb
        <5> QED BY <1>2, <3>1, <3>2, <5>1
      <4> QED BY <1>3, <2>5, <4>1 DEF IsFreeRun
    <3>3. CASE b >= s
      BY <1>1, <1>2, <1>3, <2>4, <3>1, <3>3 DEF Blocks
    <3> QED BY <1>3, <3>2, <3>3 DEF Blocks
  <2>6. s # NoStart
    BY <1>3 DEF NoStart, Blocks
  <2>7. \A b \in Blocks : b + blocks_to_allocate' <= current_block' =>
          ~IsFreeRun(entries', b, blocks_to_allocate')
    BY <1>1, <2>1, <2>5
  <2>8. /\ block_count' > 0
        /\ s + block_count' = current_block'
        /\ blocks_to_allocate' = 0 \/ block_count' < blocks_to_allocate'
        /\ \A i \in s .. (current_block' - 1) :
             entries'[i] = HEAP_BLOCK_ENTRY_FREE
        /\ s > 0 => entries'[s - 1] # HEAP_BLOCK_ENTRY_FREE
    BY <1>1, <1>2, <1>3, <1>4, <2>1, <2>4
  <2> HIDE DEF s
  <2>9. ScanLoopInv'
    BY <2>6, <2>7, <2>8 DEF ScanLoopInv, s
  <2> QED BY <2>2, <2>3, <2>9
<1> QED BY <1>6, <1>7

(* At the end of the table no fit exists.                                  *)
LEMMA EndStep == ScanInv /\ ScanEnd /\ UNCHANGED vars => ScanInv'
<1> SUFFICES ASSUME ScanInv, ScanEnd, UNCHANGED vars PROVE ScanInv'
  OBVIOUS
<1> USE ScanConstants DEF ScanInv
<1>1. /\ ~Returned /\ current_block = num_entries
      /\ result' = ERR_MALLOC_FAIL
      /\ UNCHANGED <<blocks_to_allocate, current_block, block_start,
                     block_count, entries>>
  BY DEF ScanEnd, vars
<1>2. \A b \in Blocks : ~IsFreeRun(entries, b, blocks_to_allocate)
  BY <1>1 DEF ScanLoopInv, IsFreeRun
<1>3. ScanFindsFirstFit'
  BY <1>1, <1>2, NoFitFails DEF ScanFindsFirstFit
<1>4. ScanTypeOK'
  BY <1>1 DEF ScanTypeOK
<1>5. Returned'
  BY <1>1 DEF Returned, NotReturned, ERR_MALLOC_FAIL
<1> QED BY <1>3, <1>4, <1>5 DEF ScanLoopInv

LEMMA ScanInvNext == ScanInv /\ [ScanNext]_<<vars, scanVars>> => ScanInv'
<1> SUFFICES ASSUME ScanInv, [ScanNext]_<<vars, scanVars>> PROVE ScanInv'
  OBVIOUS
<1>1. CASE UNCHANGED <<vars, scanVars>>
  BY <1>1 DEF ScanInv, ScanTypeOK, ScanLoopInv, ScanFindsFirstFit, Returned,
              vars, scanVars
<1>2. CASE ScanNext
  BY <1>2, TakenStep, FreeStep, EndStep DEF ScanNext, Scan
<1> QED BY <1>1, <1>2

LEMMA ScanInvariant == ScanSpec => []ScanInv
  BY ScanInvInit, ScanInvNext, PTL DEF ScanSpec

(* find_free_entry returns the lowest run of enough free blocks, and the   *)
(* error value exactly when there is none, also for 0 blocks.              *)
THEOREM ScanComputesFirstFit == ScanSpec => []ScanFindsFirstFit
<1>1. ScanInv => ScanFindsFirstFit
  BY DEF ScanInv
<1> QED BY <1>1, ScanInvariant, PTL
=============================================================================
