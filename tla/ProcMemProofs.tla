--------------------------- MODULE ProcMemProofs ---------------------------
(***************************************************************************)
(* Proofs about ProcMem, for every number of processes and slots, every    *)
(* heap and every page size: a filled slot of a live process owns one      *)
(* segment of the heap, the process may write all of it, and no step takes *)
(* it away from a process that is not running.                             *)
(***************************************************************************)
EXTENDS ProcMem, WellFoundedInduction, TLAPS

(* Every set of natural numbers that is not empty has a least member.      *)
LEMMA LeastNatural ==
  ASSUME NEW T, T \subseteq Nat, T # {}
  PROVE  \E x \in T : \A y \in T : x <= y
<1> DEFINE R == {ss \in Nat \X Nat : ss[1] < ss[2]}
<1>1. IsWellFoundedOn(R, Nat)
  BY NatLessThanWellFounded DEF OpToRel
<1>2. PICK x \in T : \A y \in T : ~ (<<y, x>> \in R)
  <2> HIDE DEF R
  <2> QED BY <1>1, WFMin
<1>3. ASSUME NEW y \in T PROVE x <= y
  <2>1. ~ (<<y, x>> \in R)
    BY <1>2
  <2>2. y < x => <<y, x>> \in R
    OBVIOUS
  <2> QED BY <2>1, <2>2
<1> QED BY <1>2, <1>3

LEMMA PagesForType ==
  ASSUME NEW n \in Nat PROVE PagesFor(n) \in Nat
<1>1. PAGE_SIZE \in Nat \ {0}
  BY ProcMemAssumption
<1>2. \A a \in Nat : a \div PAGE_SIZE \in Nat
  BY <1>1, SMT
<1>3. n + PAGE_SIZE - 1 \in Nat
  BY <1>1
<1> QED BY <1>2, <1>3 DEF PagesFor

(* The pages that process_free maps: a division by the size.               *)
LEMMA PagesToFreeType ==
  ASSUME NEW n \in Nat \ {0} PROVE (n + PAGE_SIZE - 1) \div n \in Nat
<1>1. PAGE_SIZE \in Nat \ {0}
  BY ProcMemAssumption
<1>2. \A a \in Nat : a \div n \in Nat
  BY SMT
<1>3. n + PAGE_SIZE - 1 \in Nat
  BY <1>1
<1> QED BY <1>2, <1>3

(* The segments that kzalloc has handed out begin at different pages.      *)
LiveApart == \A a, b \in live : Base(a) = Base(b) => a = b

ShellAlive == Gshell \in alive

MemInv ==
  /\ TypeOK
  /\ ShellAlive
  /\ LiveApart
  /\ SlotsOwnSegments
  /\ AllocationsWritable

Bases == {0} \cup (HeapPage .. (HeapPage + NumBlocks - 1))

LEMMA BaseType ==
  ASSUME NEW a, a.start \in H!Blocks
  PROVE  Base(a) \in Bases /\ Base(a) # 0
  BY ProcMemAssumption DEF Base, Bases, H!Blocks

(* FirstSlot finds a slot of the current process.  The least one exists    *)
(* because the slots are bounded.                                          *)
LEMMA FirstSlotType ==
  ASSUME NEW base, HasSlot(base)
  PROVE  /\ FirstSlot(base) \in Slots
         /\ mem_allocations[current_process][FirstSlot(base)] = base
<1> DEFINE T == {s \in Slots : mem_allocations[current_process][s] = base}
<1>1. Slots \subseteq Nat
  BY ProcMemAssumption DEF Slots
<1>2. PICK s \in T : \A r \in T : s <= r
  BY <1>1, LeastNatural DEF HasSlot
<1>3. \E x \in Slots :
        /\ mem_allocations[current_process][x] = base
        /\ \A r \in Slots : mem_allocations[current_process][r] = base => x <= r
  BY <1>2
<1> QED BY <1>3 DEF FirstSlot

LEMMA SlotTypes ==
  ASSUME MemInv
  PROVE  /\ current_process \in alive /\ current_process \in Processes
         /\ mem_allocations \in [Processes -> [Slots -> Bases]]
         /\ mem_allocations_size \in [Processes -> [Slots -> Sizes \cup {0}]]
         /\ writable \in [Processes -> SUBSET Nat]
         /\ alive \subseteq Processes
         /\ live \subseteq H!Segments
         /\ Bases \subseteq Nat /\ Sizes \subseteq Nat
  BY ProcMemAssumption DEF MemInv, TypeOK, Bases

(* SetSlot changes one slot of the running process.                        *)
LEMMA SetSlotFacts ==
  ASSUME MemInv, NEW s \in Slots, NEW base \in Bases, NEW n \in Sizes \cup {0},
         SetSlot(s, base, n)
  PROVE  /\ mem_allocations' \in [Processes -> [Slots -> Bases]]
         /\ mem_allocations_size' \in [Processes -> [Slots -> Sizes \cup {0}]]
         /\ mem_allocations'[current_process][s] = base
         /\ mem_allocations_size'[current_process][s] = n
         /\ \A p \in Processes, r \in Slots : <<p, r>> # <<current_process, s>> =>
              /\ mem_allocations'[p][r] = mem_allocations[p][r]
              /\ mem_allocations_size'[p][r] = mem_allocations_size[p][r]
  BY SlotTypes DEF SetSlot

LEMMA MapWritableFacts ==
  ASSUME MemInv, NEW page \in Nat, NEW count \in Nat, MapWritable(page, count)
  PROVE  /\ writable' \in [Processes -> SUBSET Nat]
         /\ (page .. (page + count - 1)) \subseteq writable'[current_process]
         /\ \A p \in Processes : writable[p] \subseteq writable'[p]
<1>1. (page .. (page + count - 1)) \subseteq Nat
  OBVIOUS
<1> HIDE DEF MapWritable
<1>2. writable' = [writable EXCEPT ![current_process] =
                     writable[current_process] \cup (page .. (page + count - 1))]
  BY DEF MapWritable
<1> DEFINE pages == page .. (page + count - 1)
<1>3. pages \subseteq Nat
  BY <1>1
<1> HIDE DEF pages
<1>4. writable' = [writable EXCEPT ![current_process] =
                     writable[current_process] \cup pages]
  BY <1>2 DEF pages
<1>5. /\ writable' \in [Processes -> SUBSET Nat]
      /\ pages \subseteq writable'[current_process]
      /\ \A p \in Processes : writable[p] \subseteq writable'[p]
  BY <1>3, <1>4, SlotTypes
<1> QED BY <1>5 DEF pages

(* A slot that is set to a new segment, or to 0, and pages that are mapped *)
(* for it keep the two invariants.                                         *)
LEMMA SetSlotKeeps ==
  ASSUME MemInv, NEW s \in Slots, NEW base \in Bases, NEW n \in Sizes \cup {0},
         SetSlot(s, base, n), UNCHANGED alive,
         \A p \in Processes : writable[p] \subseteq writable'[p],
         base # 0 =>
           /\ \E a \in live' : Base(a) = base /\ a.size = n
           /\ \A a \in live : Base(a) # base
           /\ (base .. (base + PagesFor(n) - 1)) \subseteq writable'[current_process],
         \A a \in live : Base(a) # mem_allocations[current_process][s] => a \in live'
  PROVE  SlotsOwnSegments' /\ AllocationsWritable'
<1>1. ASSUME NEW p \in alive, NEW r \in Slots, mem_allocations[p][r] # 0
      PROVE  /\ \E a \in live : /\ Base(a) = mem_allocations[p][r]
                                /\ a.size = mem_allocations_size[p][r]
             /\ \A q \in alive, t \in Slots :
                  mem_allocations[p][r] = mem_allocations[q][t] => p = q /\ r = t
             /\ (mem_allocations[p][r] ..
                   (mem_allocations[p][r] + PagesFor(mem_allocations_size[p][r]) - 1))
                  \subseteq writable[p]
  BY <1>1 DEF MemInv, SlotsOwnSegments, AllocationsWritable
<1>2. ASSUME NEW p \in alive', NEW r \in Slots, <<p, r>> # <<current_process, s>>,
             mem_allocations'[p][r] # 0
      PROVE  /\ p \in alive
             /\ mem_allocations'[p][r] = mem_allocations[p][r]
             /\ mem_allocations_size'[p][r] = mem_allocations_size[p][r]
             /\ \E a \in live' : /\ Base(a) = mem_allocations'[p][r]
                                 /\ a.size = mem_allocations_size'[p][r]
             /\ mem_allocations'[p][r] # base
  <2>1. /\ p \in alive /\ p \in Processes
        /\ mem_allocations'[p][r] = mem_allocations[p][r]
        /\ mem_allocations_size'[p][r] = mem_allocations_size[p][r]
    BY <1>2, SetSlotFacts, SlotTypes
  <2>2. PICK a \in live : /\ Base(a) = mem_allocations[p][r]
                          /\ a.size = mem_allocations_size[p][r]
    BY <1>1, <1>2, <2>1
  <2>3. mem_allocations[p][r] # mem_allocations[current_process][s]
    BY <1>1, <1>2, <2>1, SlotTypes
  <2> QED BY <1>2, <2>1, <2>2, <2>3
<1>3. SlotsOwnSegments'
  <2>1. ASSUME NEW p \in alive', NEW q \in alive', NEW t \in Slots, NEW r \in Slots,
               mem_allocations'[p][t] # 0
        PROVE  /\ \E a \in live' : /\ Base(a) = mem_allocations'[p][t]
                                   /\ a.size = mem_allocations_size'[p][t]
               /\ mem_allocations'[p][t] = mem_allocations'[q][r]
                    => p = q /\ t = r
    <3>1. CASE <<p, t>> = <<current_process, s>>
      BY <1>2, <2>1, <3>1, SetSlotFacts
    <3>2. CASE <<p, t>> # <<current_process, s>>
      <4>1. CASE <<q, r>> = <<current_process, s>>
        BY <1>2, <2>1, <3>2, <4>1, SetSlotFacts
      <4>2. CASE <<q, r>> # <<current_process, s>>
        BY <1>1, <1>2, <2>1, <3>2, <4>2
      <4> QED BY <4>1, <4>2
    <3> QED BY <3>1, <3>2
  <2> QED BY <2>1 DEF SlotsOwnSegments
<1>4. AllocationsWritable'
  <2>1. ASSUME NEW p \in alive', NEW t \in Slots, mem_allocations'[p][t] # 0
        PROVE  (mem_allocations'[p][t] ..
                  (mem_allocations'[p][t] + PagesFor(mem_allocations_size'[p][t]) - 1))
                 \subseteq writable'[p]
    <3>1. CASE <<p, t>> = <<current_process, s>>
      BY <2>1, <3>1, SetSlotFacts
    <3>2. CASE <<p, t>> # <<current_process, s>>
      <4>1. writable[p] \subseteq writable'[p]
        BY SlotTypes
      <4>2. (mem_allocations[p][t] ..
               (mem_allocations[p][t] + PagesFor(mem_allocations_size[p][t]) - 1))
              \subseteq writable[p]
        BY <1>1, <1>2, <2>1, <3>2
      <4> QED BY <1>2, <2>1, <3>2, <4>1, <4>2
    <3> QED BY <3>1, <3>2
  <2> QED BY <2>1 DEF AllocationsWritable
<1> QED BY <1>3, <1>4

LEMMA MemInvInit == Init => MemInv
<1> SUFFICES ASSUME Init PROVE MemInv
  OBVIOUS
<1> USE DEF Init
<1>1. TypeOK /\ ShellAlive
  BY ProcMemAssumption DEF TypeOK, ShellAlive
<1>2. LiveApart /\ SlotsOwnSegments /\ AllocationsWritable
  BY ProcMemAssumption DEF LiveApart, SlotsOwnSegments, AllocationsWritable
<1> QED BY <1>1, <1>2 DEF MemInv

LEMMA MallocSucceedsKeepsInv ==
  ASSUME MemInv, NEW size \in Sizes, MallocSucceeds(size)
  PROVE  MemInv'
<1> DEFINE a(start) == [start |-> start, len |-> PagesFor(size), size |-> size]
<1>1. PICK start \in H!Blocks :
        /\ a(start).len > 0
        /\ H!Malloc(a(start))
        /\ process_malloc(size, Base(a(start)))
  BY DEF MallocSucceeds
<1> DEFINE seg == a(start)
           base == Base(seg)
           s == FirstSlot(0)
<1>2. /\ seg.start = start /\ seg.size = size
      /\ seg.len = PagesFor(size) /\ seg.len \in Nat \ {0}
  BY <1>1, PagesForType, SlotTypes
<1>3. start \in 0 .. (NumBlocks - 1) /\ NumBlocks \in Nat
  BY ProcMemAssumption DEF H!Blocks
<1>4. seg \in H!Segments
  <2>1. start + seg.len - 1 \in H!Span(seg)
    BY <1>2, <1>3 DEF H!Span
  <2>2. start + seg.len - 1 \in 0 .. (NumBlocks - 1)
    BY <1>1, <2>1 DEF H!Malloc, H!Blocks
  <2>3. seg.len \in 1 .. NumBlocks
    BY <1>2, <1>3, <2>2
  <2> QED BY <1>2, <2>3 DEF H!Segments
<1>5. \A b \in live : b.start # start
  <2>1. ASSUME NEW b \in live PROVE b.start \in H!Span(b)
    BY SlotTypes DEF H!Segments, H!Span, H!Blocks
  <2>2. start \in H!Span(seg)
    BY <1>2, <1>3 DEF H!Span
  <2> QED BY <1>1, <2>1, <2>2 DEF H!Malloc
<1>6. base \in Bases /\ base # 0
  BY <1>2, BaseType
<1>7. live' = live \cup {seg}
  BY <1>1 DEF H!Malloc
<1>8. \A b \in live : Base(b) # base
  <2>1. base = HeapPage + start /\ HeapPage \in Nat
    BY <1>2, ProcMemAssumption DEF Base
  <2> SUFFICES ASSUME NEW b \in live PROVE Base(b) # base
    OBVIOUS
  <2>2. b.start \in Nat /\ b.start # start /\ Base(b) = HeapPage + b.start
    BY <1>5, SlotTypes DEF Base, H!Segments, H!Blocks
  <2> HIDE DEF a, seg, base
  <2> QED BY <1>3, <2>1, <2>2
<1> HIDE DEF a, seg, base
<1>9. /\ s \in Slots /\ SetSlot(s, base, size)
      /\ MapWritable(base, PagesFor(size))
      /\ UNCHANGED <<alive, current_process, hung>>
  BY <1>1, FirstSlotType DEF process_malloc, base, seg
<1>10. /\ writable' \in [Processes -> SUBSET Nat]
       /\ (base .. (base + PagesFor(size) - 1)) \subseteq writable'[current_process]
       /\ \A p \in Processes : writable[p] \subseteq writable'[p]
  BY <1>6, <1>9, PagesForType, MapWritableFacts, SlotTypes
<1>11. TypeOK' /\ ShellAlive'
  BY <1>4, <1>6, <1>7, <1>9, <1>10, SetSlotFacts, SlotTypes
     DEF MemInv, TypeOK, ShellAlive, Bases
<1>12. LiveApart'
  BY <1>7, <1>8 DEF MemInv, LiveApart, base
<1>13. SlotsOwnSegments' /\ AllocationsWritable'
  <2>1. \E b \in live' : Base(b) = base /\ b.size = size
    BY <1>2, <1>7 DEF base
  <2> QED BY <1>6, <1>7, <1>8, <1>9, <1>10, <2>1, SetSlotKeeps
<1> QED BY <1>11, <1>12, <1>13 DEF MemInv

(* A failed kzalloc fills a slot with 0 and maps pages from page 0.        *)
LEMMA MallocFailsKeepsInv ==
  ASSUME MemInv, NEW size \in Sizes, MallocFails(size)
  PROVE  MemInv'
<1> DEFINE s == FirstSlot(0)
<1>1. /\ s \in Slots /\ SetSlot(s, 0, size)
      /\ MapWritable(0, PagesFor(size))
      /\ UNCHANGED <<alive, current_process, hung, live>>
  BY FirstSlotType DEF MallocFails, process_malloc
<1>2. 0 \in Bases
  BY DEF Bases
<1>3. /\ writable' \in [Processes -> SUBSET Nat]
      /\ \A p \in Processes : writable[p] \subseteq writable'[p]
  BY <1>1, PagesForType, MapWritableFacts, SlotTypes
<1>4. TypeOK' /\ ShellAlive' /\ LiveApart'
  BY <1>1, <1>2, <1>3, SetSlotFacts, SlotTypes
     DEF MemInv, TypeOK, ShellAlive, LiveApart, Bases
<1>5. SlotsOwnSegments' /\ AllocationsWritable'
  BY <1>1, <1>2, <1>3, SetSlotKeeps
<1> QED BY <1>4, <1>5 DEF MemInv

(* The slot that is reset is the only one that held the freed segment.     *)
LEMMA FreeKeepsInv ==
  ASSUME MemInv, NEW base \in 0 .. (HeapPage + NumBlocks - 1), process_free(base)
  PROVE  MemInv'
<1> DEFINE s == FirstSlot(base)
           n == mem_allocations_size[current_process][s]
<1>1. /\ s \in Slots /\ mem_allocations[current_process][s] = base
      /\ SetSlot(s, 0, 0)
      /\ UNCHANGED <<alive, current_process>>
  BY FirstSlotType DEF process_free
<1>2. 0 \in Bases /\ base \in Bases /\ n \in Nat
  BY <1>1, SlotTypes DEF Bases
<1>3. /\ writable' \in [Processes -> SUBSET Nat]
      /\ \A p \in Processes : writable[p] \subseteq writable'[p]
      /\ live' \subseteq live
      /\ \A a \in live : Base(a) # base => a \in live'
      /\ hung' \in BOOLEAN
  <2>1. CASE n = 0
    BY <2>1, SlotTypes DEF process_free, MemInv, TypeOK
  <2>2. CASE n # 0
    <3>1. /\ MapWritable(base, (n + PAGE_SIZE - 1) \div n)
          /\ live' = {a \in live : Base(a) # base}
          /\ UNCHANGED hung
      BY <2>2 DEF process_free
    <3>2. (n + PAGE_SIZE - 1) \div n \in Nat
      BY <1>2, <2>2, PagesToFreeType
    <3>3. /\ writable' \in [Processes -> SUBSET Nat]
          /\ \A p \in Processes : writable[p] \subseteq writable'[p]
      BY <1>2, <3>1, <3>2, MapWritableFacts, SlotTypes
    <3> QED BY <3>1, <3>3 DEF MemInv, TypeOK
  <2> QED BY <2>1, <2>2
<1>4. TypeOK' /\ ShellAlive' /\ LiveApart'
  BY <1>1, <1>2, <1>3, SetSlotFacts, SlotTypes
     DEF MemInv, TypeOK, ShellAlive, LiveApart, Bases
<1>5. SlotsOwnSegments' /\ AllocationsWritable'
  BY <1>1, <1>2, <1>3, SetSlotKeeps
<1> QED BY <1>4, <1>5 DEF MemInv

LEMMA StartKeepsInv ==
  ASSUME MemInv, NEW p \in Processes, Start(p)
  PROVE  MemInv'
<1> USE DEF Start
<1>0. 0 \in Bases
  BY DEF Bases
<1>1. TypeOK' /\ ShellAlive' /\ LiveApart'
  BY <1>0, SlotTypes DEF MemInv, TypeOK, ShellAlive, LiveApart, Bases
<1>2. ASSUME NEW q \in alive', NEW s \in Slots, mem_allocations'[q][s] # 0
      PROVE  /\ q \in alive
             /\ mem_allocations'[q][s] = mem_allocations[q][s]
             /\ mem_allocations_size'[q][s] = mem_allocations_size[q][s]
             /\ writable'[q] = writable[q]
  <2>1. q # p
    BY <1>2, SlotTypes
  <2> QED BY <2>1, SlotTypes
<1>3. SlotsOwnSegments' /\ AllocationsWritable'
  BY <1>2 DEF MemInv, SlotsOwnSegments, AllocationsWritable
<1> QED BY <1>1, <1>3 DEF MemInv

LEMMA KillKeepsInv ==
  ASSUME MemInv, process_kill
  PROVE  MemInv'
<1> USE DEF process_kill
<1>1. TypeOK' /\ ShellAlive' /\ LiveApart'
  BY SlotTypes DEF MemInv, TypeOK, ShellAlive, LiveApart
<1>2. SlotsOwnSegments' /\ AllocationsWritable'
  BY DEF MemInv, SlotsOwnSegments, AllocationsWritable
<1> QED BY <1>1, <1>2 DEF MemInv

LEMMA MemInvStep == MemInv /\ [Next]_vars => MemInv'
<1> SUFFICES ASSUME MemInv, [Next]_vars PROVE MemInv'
  OBVIOUS
<1>1. ASSUME NEW size \in Sizes, MallocSucceeds(size) PROVE MemInv'
  BY <1>1, MallocSucceedsKeepsInv
<1>2. ASSUME NEW size \in Sizes, MallocFails(size) PROVE MemInv'
  BY <1>2, MallocFailsKeepsInv
<1>3. ASSUME NEW base \in 0 .. (HeapPage + NumBlocks - 1), process_free(base)
      PROVE  MemInv'
  BY <1>3, FreeKeepsInv
<1>4. ASSUME NEW p \in Processes, Start(p) PROVE MemInv'
  BY <1>4, StartKeepsInv
<1>5. CASE process_kill
  BY <1>5, KillKeepsInv
<1>6. CASE MallocNoSlot \/ Hang \/ UNCHANGED vars
  BY <1>6 DEF MallocNoSlot, Hang, vars, MemInv, TypeOK, ShellAlive, LiveApart,
              SlotsOwnSegments, AllocationsWritable
<1> QED BY <1>1, <1>2, <1>3, <1>4, <1>5, <1>6 DEF Next

LEMMA MemInvariant == Spec => []MemInv
  BY MemInvInit, MemInvStep, PTL DEF Spec

(* The slots hold 0 or pages of the heap and sizes that were asked for,    *)
(* and the running process is alive.                                       *)
THEOREM MemTypeSafety == Spec => []TypeOK
<1>1. MemInv => TypeOK
  BY DEF MemInv
<1> QED BY <1>1, MemInvariant, PTL

(* No two slots of live processes hold the same segment, and a slot is     *)
(* never left behind for a segment that process_free has given back.       *)
THEOREM MemSlotsOwnSegments == Spec => []SlotsOwnSegments
<1>1. MemInv => SlotsOwnSegments
  BY DEF MemInv
<1> QED BY <1>1, MemInvariant, PTL

(* process_malloc maps enough pages for every size and page size.          *)
THEOREM MemAllocationsWritable == Spec => []AllocationsWritable
<1>1. MemInv => AllocationsWritable
  BY DEF MemInv
<1> QED BY <1>1, MemInvariant, PTL

LEMMA OthersKeepStep ==
  ASSUME MemInv, [Next]_vars,
         NEW p \in alive \ {current_process}, NEW a \in live,
         NEW s \in Slots, mem_allocations[p][s] = Base(a)
  PROVE  a \in live'
<1>0. Base(a) # 0
  BY SlotTypes, BaseType DEF H!Segments
<1>1. ASSUME NEW base \in 0 .. (HeapPage + NumBlocks - 1), process_free(base)
      PROVE  a \in live'
  <2>1. /\ FirstSlot(base) \in Slots
        /\ mem_allocations[current_process][FirstSlot(base)] = base
    BY <1>1, FirstSlotType DEF process_free
  <2>2. Base(a) # base
    BY <1>0, <2>1, SlotTypes DEF MemInv, SlotsOwnSegments
  <2> QED BY <1>1, <2>2 DEF process_free
<1>2. ASSUME NEW size \in Sizes, MallocSucceeds(size) PROVE a \in live'
  BY <1>2 DEF MallocSucceeds, H!Malloc
<1>3. CASE \/ \E size \in Sizes : MallocFails(size)
           \/ MallocNoSlot
           \/ \E q \in Processes : Start(q)
           \/ process_kill
           \/ Hang
           \/ UNCHANGED vars
  BY <1>3 DEF MallocFails, MallocNoSlot, Start, process_kill, Hang, vars
<1> QED BY <1>1, <1>2, <1>3 DEF Next

(* Whatever base the running program frees, the segments of the processes  *)
(* that wait for their turn stay allocated.                                *)
THEOREM MemOthersKeepSegments == Spec => OthersKeepSegments
<1>1. MemInv /\ [Next]_vars =>
        [\A p \in alive \ {current_process} : \A a \in live :
           (\E s \in Slots : mem_allocations[p][s] = Base(a)) => a \in live']_vars
  BY OthersKeepStep
<1> QED BY <1>1, MemInvariant, PTL DEF Spec, OthersKeepSegments
=============================================================================
