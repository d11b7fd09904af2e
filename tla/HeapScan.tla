------------------------------ MODULE HeapScan ------------------------------
(***************************************************************************)
(* The loop of find_free_entry (mm/heap/heap.c), one action per iteration, *)
(* over every table and every number of blocks asked for.  Heap.tla uses   *)
(* the first-fit definition of find_free_entry; here the loop is shown to  *)
(* compute it.  The loop variables keep the names of the code;             *)
(* NoStart is (uint32_t) -1.                                               *)
(***************************************************************************)
EXTENDS Heap

VARIABLES
  blocks_to_allocate,
  current_block,
  block_start,
  block_count,
  result          \* the value returned, NotReturned while the loop runs

scanVars == <<blocks_to_allocate, current_block, block_start, block_count,
              result>>

NoStart == WordModulus - 1
NotReturned == -1

Returned == result # NotReturned

ScanInit ==
  /\ entries \in [Blocks -> {HEAP_BLOCK_ENTRY_FREE, {"TAKEN"}}]
  /\ blocks_to_allocate \in 0 .. (num_entries + 1)
  /\ current_block = 0
  /\ block_start = NoStart
  /\ block_count = 0
  /\ result = NotReturned
  /\ live = {}
  /\ freed = {}

TakenDoesNotMove ==                    \* variant: continue skips the step
  /\ ~Returned
  /\ current_block < num_entries
  /\ entries[current_block] # HEAP_BLOCK_ENTRY_FREE
  /\ block_start' = NoStart
  /\ block_count' = 0
  /\ UNCHANGED <<blocks_to_allocate, current_block, result>>

ScanTaken ==
  /\ ~Returned
  /\ current_block < num_entries
  /\ entries[current_block] # HEAP_BLOCK_ENTRY_FREE
  /\ block_start' = NoStart
  /\ block_count' = 0
  /\ current_block' = current_block + 1
  /\ UNCHANGED <<blocks_to_allocate, result>>

FreeReturnsLast ==                     \* variant: the last block, not the first
  /\ ~Returned
  /\ current_block < num_entries
  /\ entries[current_block] = HEAP_BLOCK_ENTRY_FREE
  /\ block_start' = IF block_start = NoStart THEN current_block
                                             ELSE block_start
  /\ block_count' = block_count + 1
  /\ IF block_count' = blocks_to_allocate
     THEN result' = current_block /\ UNCHANGED current_block
     ELSE current_block' = current_block + 1 /\ UNCHANGED result
  /\ UNCHANGED blocks_to_allocate

ScanFree ==
  /\ ~Returned
  /\ current_block < num_entries
  /\ entries[current_block] = HEAP_BLOCK_ENTRY_FREE
  /\ block_start' = IF block_start = NoStart THEN current_block
                                             ELSE block_start
  /\ block_count' = block_count + 1
  /\ IF block_count' = blocks_to_allocate
     THEN result' = block_start' /\ UNCHANGED current_block
     ELSE current_block' = current_block + 1 /\ UNCHANGED result
  /\ UNCHANGED blocks_to_allocate

ScanEnd ==
  /\ ~Returned
  /\ current_block = num_entries
  /\ result' = ERR_MALLOC_FAIL
  /\ UNCHANGED <<blocks_to_allocate, current_block, block_start, block_count>>

Scan == ScanTaken \/ ScanFree \/ ScanEnd

ScanNext == Scan /\ UNCHANGED vars

ScanSpec == ScanInit /\ [][ScanNext]_<<vars, scanVars>>

(* The loop runs with interrupts disabled: nothing keeps it from stepping. *)
FairScanSpec == ScanSpec /\ WF_<<vars, scanVars>>(ScanNext)
-----------------------------------------------------------------------------
ScanTypeOK ==
  /\ entries \in [Blocks -> SUBSET Flags]
  /\ blocks_to_allocate \in Nat
  /\ current_block \in 0 .. num_entries
  /\ block_start \in Blocks \cup {NoStart}
  /\ block_count \in 0 .. num_entries
  /\ result \in Blocks \cup {ERR_MALLOC_FAIL, NotReturned}

(* While the loop runs, block_start and block_count describe the run of    *)
(* free blocks that ends just before current_block, that run is maximal to *)
(* the left and too short, and no fit ends before current_block.           *)
ScanLoopInv ==
  ~Returned =>
    /\ block_start = NoStart =>
         /\ block_count = 0
         /\ current_block > 0 =>
              entries[current_block - 1] # HEAP_BLOCK_ENTRY_FREE
    /\ block_start # NoStart =>
         /\ block_count > 0
         /\ block_start + block_count = current_block
         /\ blocks_to_allocate = 0 \/ block_count < blocks_to_allocate
         /\ \A i \in block_start .. (current_block - 1) :
              entries[i] = HEAP_BLOCK_ENTRY_FREE
         /\ block_start > 0 =>
              entries[block_start - 1] # HEAP_BLOCK_ENTRY_FREE
    /\ \A b \in Blocks : b + blocks_to_allocate <= current_block =>
         ~IsFreeRun(entries, b, blocks_to_allocate)

(* What malloc_blocks relies on: the loop returns the first fit, or the    *)
(* error value exactly when no fit exists; in particular for 0 blocks, the *)
(* outcome of a size whose round-up wrapped.                               *)
ScanFindsFirstFit ==
  Returned => result = find_free_entry(entries, blocks_to_allocate)

(* The loop ends.                                                          *)
ScanReturns == <>Returned
=============================================================================
