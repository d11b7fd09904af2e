------------------------------ MODULE ProcMem ------------------------------
(***************************************************************************)
(* The memory that user programs get through the system calls MALLOC and   *)
(* FREE: process_malloc, process_free and process_kill over the contract   *)
(* of the kernel heap (Allocator), and the page mapping that makes the     *)
(* memory writable in the address space of the process.                    *)
(* (kernel/task/process/process.c, kernel/idt/__0x80/mm/heap/heap.c)       *)
(*                                                                         *)
(* A page is a heap block and both have PAGE_SIZE bytes.  Base addresses   *)
(* are page numbers: every address that kzalloc returns is the start of a  *)
(* page.  Page 0 is the null pointer; the heap begins at page HeapPage.    *)
(***************************************************************************)
EXTENDS Integers, FiniteSets

CONSTANTS
  Processes,      \* process structures
  Gshell,
  PROCESS_MAX_PROCESS_MEM_ALLOCATIONS,
  PAGE_SIZE,
  NumBlocks,      \* blocks of the kernel heap
  HeapPage,       \* the page of block 0
  Sizes           \* the sizes that programs ask for

ASSUME ProcMemAssumption ==
  /\ Gshell \in Processes
  /\ PROCESS_MAX_PROCESS_MEM_ALLOCATIONS \in Nat
  /\ PAGE_SIZE \in Nat \ {0}
  /\ NumBlocks \in Nat \ {0}
  /\ HeapPage \in Nat \ {0}
  /\ Sizes \subseteq Nat

VARIABLES
  mem_allocations,        \* per process and slot, the base page or 0
  mem_allocations_size,   \* per process and slot, the size in bytes
  writable,               \* the pages that each process may write
  live,                   \* the heap segments allocated to processes
  alive,
  current_process,
  hung                    \* a division by zero in the kernel

vars == <<mem_allocations, mem_allocations_size, writable, live, alive,
          current_process, hung>>
-----------------------------------------------------------------------------
H == INSTANCE Allocator WITH BlockSize <- PAGE_SIZE

Slots == 0 .. (PROCESS_MAX_PROCESS_MEM_ALLOCATIONS - 1)
PagesFor(size) == (size + PAGE_SIZE - 1) \div PAGE_SIZE
Base(a) == HeapPage + a.start

(* The first slot of the current process that holds this base.  A slot     *)
(* that holds 0 is free.                                                   *)
HasSlot(base) == \E s \in Slots : mem_allocations[current_process][s] = base
FirstSlot(base) ==
  CHOOSE s \in Slots :
    /\ mem_allocations[current_process][s] = base
    /\ \A r \in Slots : mem_allocations[current_process][r] = base => s <= r

SetSlot(s, base, size) ==
  /\ mem_allocations' =
       [mem_allocations EXCEPT ![current_process][s] = base]
  /\ mem_allocations_size' =
       [mem_allocations_size EXCEPT ![current_process][s] = size]

MapAllButLast(page, count) ==          \* variant: one page too few
  writable' = [writable EXCEPT ![current_process] =
                 @ \cup (page .. (page + count - 2))]

(* paging_map_range with PAGE_WRITE_ACCESS, identity mapping               *)
MapWritable(page, count) ==
  writable' = [writable EXCEPT ![current_process] =
                 @ \cup (page .. (page + count - 1))]
-----------------------------------------------------------------------------
(* The slot is filled and the pages are mapped whether or not kzalloc      *)
(* found memory: base is 0 when it did not.                                *)
process_malloc(size, base) ==
  /\ ~hung
  /\ HasSlot(0)
  /\ SetSlot(FirstSlot(0), base, size)
  /\ MapWritable(base, PagesFor(size))
  /\ UNCHANGED <<alive, current_process, hung>>

MallocSucceeds(size) ==
  \E start \in H!Blocks :
    LET a == [start |-> start, len |-> PagesFor(size), size |-> size]
    IN  /\ a.len > 0
        /\ H!Malloc(a)
        /\ process_malloc(size, Base(a))

MallocFails(size) ==
  /\ UNCHANGED live
  /\ process_malloc(size, 0)

(* No free slot: NULL is returned.                                         *)
MallocNoSlot ==
  /\ ~hung
  /\ ~HasSlot(0)
  /\ UNCHANGED vars

FreeAnyBase(base) ==                   \* variant: slots are not searched
  /\ ~hung
  /\ live' = {a \in live : Base(a) # base}
  /\ UNCHANGED <<mem_allocations, mem_allocations_size, writable, alive,
                 current_process, hung>>

FreeKeepingSlot(base) ==               \* variant: the slot is not reset
  /\ ~hung
  /\ HasSlot(base)
  /\ mem_allocations_size[current_process][FirstSlot(base)] > 0
  /\ live' = {a \in live : Base(a) # base}
  /\ UNCHANGED <<mem_allocations, mem_allocations_size, writable, alive,
                 current_process, hung>>

(* pages_to_free divides by the size of the allocation: a slot of size 0,  *)
(* which only holds the base 0, makes the kernel repeat the division for   *)
(* ever (its exception returns to the instruction).  kfree(0) does nothing *)
(* (Heap, kfree_null).  A base that is in no slot changes nothing.         *)
process_free(base) ==
  /\ ~hung
  /\ HasSlot(base)
  /\ LET s    == FirstSlot(base)
         size == mem_allocations_size[current_process][s]
     IN  /\ SetSlot(s, 0, 0)
         /\ IF size = 0
            THEN /\ hung' = TRUE
                 /\ UNCHANGED <<writable, live>>
            ELSE /\ MapWritable(base, (size + PAGE_SIZE - 1) \div size)
                 /\ live' = {a \in live : Base(a) # base}
                 /\ UNCHANGED hung
  /\ UNCHANGED <<alive, current_process>>

(* EXEC: kzalloc zeroes the slots, and the address space is a new one.     *)
Start(p) ==
  /\ ~hung
  /\ p \notin alive
  /\ mem_allocations' = [mem_allocations EXCEPT ![p] = [s \in Slots |-> 0]]
  /\ mem_allocations_size' =
       [mem_allocations_size EXCEPT ![p] = [s \in Slots |-> 0]]
  /\ writable' = [writable EXCEPT ![p] = {}]
  /\ alive' = alive \cup {p}
  /\ current_process' = p
  /\ UNCHANGED <<live, hung>>

(* EXIT, process_kill: the loop over the allocations has no effect.        *)
process_kill ==
  /\ ~hung
  /\ current_process # Gshell
  /\ alive' = alive \ {current_process}
  /\ current_process' = Gshell
  /\ UNCHANGED <<mem_allocations, mem_allocations_size, writable, live, hung>>

Hang == hung /\ UNCHANGED vars

Init ==
  /\ mem_allocations = [p \in Processes |-> [s \in Slots |-> 0]]
  /\ mem_allocations_size = [p \in Processes |-> [s \in Slots |-> 0]]
  /\ writable = [p \in Processes |-> {}]
  /\ live = {}
  /\ alive = {Gshell}
  /\ current_process = Gshell
  /\ hung = FALSE

Next ==
  \/ \E size \in Sizes : MallocSucceeds(size)
  \/ \E size \in Sizes : MallocFails(size)
  \/ MallocNoSlot
  \/ \E base \in 0 .. (HeapPage + NumBlocks - 1) : process_free(base)
  \/ \E p \in Processes : Start(p)
  \/ process_kill
  \/ Hang

Spec == Init /\ [][Next]_vars
-----------------------------------------------------------------------------
TypeOK ==
  /\ mem_allocations \in
       [Processes -> [Slots -> {0} \cup (HeapPage .. (HeapPage + NumBlocks - 1))]]
  /\ mem_allocations_size \in [Processes -> [Slots -> Sizes \cup {0}]]
  /\ writable \in [Processes -> SUBSET Nat]
  /\ live \subseteq H!Segments
  /\ alive \subseteq Processes
  /\ current_process \in alive
  /\ hung \in BOOLEAN

(* A filled slot of a live process holds an allocated segment of the size  *)
(* recorded in the slot, and no other slot of any live process holds it,   *)
(* although a failed kzalloc is recorded like a success and process_free   *)
(* finds its slot by base alone.                                           *)
SlotsOwnSegments ==
  \A p, q \in alive : \A s, r \in Slots :
    LET b == mem_allocations[p][s]
    IN  b # 0 =>
          /\ \E a \in live : Base(a) = b /\ a.size = mem_allocations_size[p][s]
          /\ b = mem_allocations[q][r] => p = q /\ s = r

(* What process_malloc returned can be written by the program: each page   *)
(* of the allocation is mapped writable, for as long as it is held.        *)
AllocationsWritable ==
  \A p \in alive : \A s \in Slots :
    LET b == mem_allocations[p][s]
    IN  b # 0 => (b .. (b + PagesFor(mem_allocations_size[p][s]) - 1))
                   \subseteq writable[p]

(* No step takes a segment away from a process other than the current one. *)
OthersKeepSegments ==
  [][\A p \in alive \ {current_process} : \A a \in live :
       (\E s \in Slots : mem_allocations[p][s] = Base(a)) => a \in live']_vars

(* process.c:305 "if we reach this part of the code, we tried to free some *)
(* address which we never allocated. we cant help it, just return NULL":   *)
(* process_free returns for every address.                                 *)
FreeReturns == ~hung

(* process.c:319 "free all data dynamically allocated by the process":     *)
(* nothing that a process allocated is still allocated when it is gone.    *)
KillFreesAllocations ==
  [][\A p \in alive \ alive' : \A a \in live' :
       \A s \in Slots : mem_allocations[p][s] # Base(a)]_vars
=============================================================================
