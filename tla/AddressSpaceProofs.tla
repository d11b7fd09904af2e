------------------------ MODULE AddressSpaceProofs ------------------------
(***************************************************************************)
(* Proofs about AddressSpace: address spaces own their frames, the         *)
(* processor never uses a stale translation, and programs in user memory   *)
(* see the kernel where it is, write only to their own frames (until they  *)
(* call FREE), have their strings copied, and, where segments do not cover *)
(* each other or the stack, see their file and their stack in place, for   *)
(* every size of memory, tables and files.                                 *)
(***************************************************************************)
EXTENDS AddressSpace, TLAPS, WellFoundedInduction, FiniteSetTheorems

(* The hypothesis of the later theorems: segments with their .bss, raw     *)
(* programs and the stack lie at user pages, and segments begin in the     *)
(* blocks of their file, at addresses congruent to their offsets.          *)
UserPages == Pages \ (KernelPages \cup HeapFrames)
PagesFrom(page, n) == page .. (page + n - 1)

SegmentInUserMemory(f, h) ==
  /\ h.p_vaddr % PAGE_SIZE = h.p_offset % PAGE_SIZE
  /\ h.p_offset < Blocks(f.size) * PAGE_SIZE
  /\ PageOf(h.p_vaddr) .. (Blocks(h.p_vaddr + h.p_memsz) - 1) \subseteq UserPages

UserMemory ==
  /\ \A f \in Files :
       /\ \A i \in DOMAIN f.phdrs : SegmentInUserMemory(f, f.phdrs[i])
       /\ PagesFrom(PageOf(TASK_DEFAULT_START), Blocks(f.size))
            \subseteq UserPages
  /\ PagesFrom(PageOf(TASK_DEFAULT_STACK_END), Blocks(TASK_STACK_SIZE))
       \subseteq UserPages
  /\ StackTop \in UserPages

(* The hypothesis for what a program sees: nothing is mapped over a        *)
(* segment but a segment that puts the same part of the file there, no raw *)
(* program reaches the stack, and raw programs begin on a page.            *)
SegmentPages(h) == PageOf(h.p_vaddr) .. (Blocks(h.p_vaddr + h.p_memsz) - 1)
StackPages == PagesFrom(PageOf(TASK_DEFAULT_STACK_END), Blocks(TASK_STACK_SIZE))

BinaryPages(f) == PagesFrom(PageOf(TASK_DEFAULT_START), Blocks(f.size))

LaidOut(phdrs) ==
  /\ \A i \in DOMAIN phdrs : SegmentPages(phdrs[i]) \cap StackPages = {}
  /\ \A i, j \in DOMAIN phdrs :
       SegmentPages(phdrs[i]) \cap SegmentPages(phdrs[j]) # {} =>
         PageOf(phdrs[i].p_offset) + PageOf(phdrs[j].p_vaddr)
           = PageOf(phdrs[j].p_offset) + PageOf(phdrs[i].p_vaddr)

ProgramLayout ==
  /\ UserMemory
  /\ \A f \in Files : LaidOut(f.phdrs) /\ BinaryPages(f) \cap StackPages = {}
  /\ address_page_aligned(TASK_DEFAULT_START)
-----------------------------------------------------------------------------
Entries == 0 .. (PAGE_TABLE_ENTRIES - 1)
Dirs == 0 .. (PAGE_DIR_ENTRIES - 1)
Words == [frame : Nat, flags : SUBSET KernelFlags]
Memories == [free : SUBSET HeapFrames, word : [Pages -> [Entries -> Words]]]

TableOf(m, s, i) == m.word[Directory(m, s)][i].frame

(* The structures of an address space are distinct frames of the heap.     *)
Space(m, s) ==
  /\ {s, pd_of(m, s), Directory(m, s)} \subseteq HeapFrames
  /\ s # pd_of(m, s) /\ s # Directory(m, s) /\ pd_of(m, s) # Directory(m, s)
  /\ \A i \in Dirs :
       TableOf(m, s, i) \in HeapFrames \ {s, pd_of(m, s), Directory(m, s)}
  /\ \A i, j \in Dirs : i # j => TableOf(m, s, i) # TableOf(m, s, j)

FramesOf(m, s) == {s, pd_of(m, s), Directory(m, s)} \cup Tables(m, s)

(* What a process holds beside its address space.                          *)
Program(q) == Segment(q.stack, StackBlocks)
                \cup Segment(q.data, Blocks(q.file.size))
Held(q) == ({q.struct, q.stack, q.data, q.task, q.elf} \ {0})
             \cup Program(q)

Allocations == [Slots -> [base : HeapFrames \cup {0}, size : Nat]]
Processes == [type : {"PROCESS_ELF_FILE", "PROCESS_BIN_FILE"}, file : Files,
              struct : HeapFrames, stack : HeapFrames,
              elf : HeapFrames \cup {0}, data : HeapFrames,
              task : HeapFrames, space : HeapFrames,
              mem_allocations : Allocations, freed : BOOLEAN]

(* The allocation of a slot, and what keeps FREE from the others: its base *)
(* is in it, and in nothing else that the process has.                     *)
BaseOf(q, s) == q.mem_allocations[s].base
SlotFrames(q, s) == Segment(BaseOf(q, s), Blocks(q.mem_allocations[s].size))

SlotsApart(q) ==
  \A s \in Slots : BaseOf(q, s) # 0 =>
    /\ BaseOf(q, s) \in SlotFrames(q, s) \ Held(q)
    /\ \A t \in Slots \ {s} :
         BaseOf(q, t) # 0 => BaseOf(q, s) \notin SlotFrames(q, t)

(* A process whose memory is its own.                                      *)
Mine(q) == Held(q) \cup Allocated(q)

Whole(m, q) ==
  /\ q \in Processes
  /\ Space(m, q.space)
  /\ Mine(q) \subseteq HeapFrames
  /\ Mine(q) \cap FramesOf(m, q.space) = {}
  /\ (Mine(q) \cup FramesOf(m, q.space)) \cap m.free = {}
  /\ SlotsApart(q)

(* What process_new gives to a process, and all that it has later.         *)
Given(m, q) == Held(q) \cup FramesOf(m, q.space)
AllOf(m, q) == Mine(q) \cup FramesOf(m, q.space)
Copying == pc \in {"copying", "copied"}
OnTask == pc \in {"user", "copying", "copied"}

Typed ==
  /\ ram \in Memories
  /\ proc \in [Procs -> Processes \cup {NoProcess}]
  /\ current \in Procs
  /\ pc = "boot" => Alive = {} /\ current = Gshell
  /\ pc # "boot" => Gshell \in Alive /\ current \in Alive

(* The processes of procs have their memory for themselves.               *)
Apart(m, kernel, procs, process) ==
  /\ Space(m, kernel)
  /\ FramesOf(m, kernel) \cap m.free = {}
  /\ \A p \in procs : /\ Whole(m, process[p])
                      /\ AllOf(m, process[p]) \cap FramesOf(m, kernel) = {}
  /\ \A p, r \in procs :
       p # r => AllOf(m, process[p]) \cap AllOf(m, process[r]) = {}

SpacesApart == Apart(ram, kernel_space, Alive, proc)

SharedApart ==
  Copying =>
    /\ call.shared \in HeapFrames \ ram.free
    /\ call.shared \notin FramesOf(ram, kernel_space)
    /\ \A p \in Alive : call.shared \notin AllOf(ram, proc[p])
    /\ call.old \in Words

IsCall(c) ==
  c = [nr |-> c.nr, arg |-> c.arg, pushed |-> c.pushed, seen |-> c.seen,
       shared |-> c.shared, old |-> c.old, got |-> c.got]

CallAllowed ==
  pc \notin {"boot", "user", "done"} =>
    /\ IsCall(call)
    /\ call.nr = "EXIT" => current # Gshell
    /\ call.nr = "EXEC" => Alive # Procs

Loaded ==
  /\ cr3 = Directory(ram, IF OnTask THEN proc[current].space ELSE kernel_space)
  /\ tlb = [v \in Pages |-> Translate(ram, cr3, v)]

(* The translation of a page in a space.                                   *)
PageWord(m, s, v) == Translate(m, Directory(m, s), v)

(* An entry that leaves the kernel in its place and, if FREE and the .bss  *)
(* have not spoiled it, others unwritten.                                  *)
Contained(q) == ~q.freed /\ SegmentsInFile(q.file)
Fine(q, v, w) ==
  /\ v \in KernelPages \cup HeapFrames => w.frame = v
  /\ Contained(q) /\ "WRITE" \in w.flags =>
       w.frame \in Program(q) \cup Allocated(q)

EntriesFine ==
  /\ \A p \in Alive : \A v \in Pages :
       ~(Copying /\ p = current /\ v = call.shared) =>
         Fine(proc[p], v, PageWord(ram, proc[p].space, v))
  /\ Copying => /\ PageWord(ram, proc[current].space, call.shared)
                     = Word(call.shared, SharedFlags)
                /\ Fine(proc[current], call.shared, call.old)

FramesSeen(v) == <<PageWord(ram, proc[current].space, v).frame,
                   PageWord(ram, proc[current].space, v + 1).frame>>

CopyFaithful ==
  /\ (pc = "kernel" /\ call.nr \in {"PRINT", "EXEC"}) =>
       call.pushed = PageWord(ram, proc[current].space, StackTop).frame
  /\ (pc = "kernel" /\ call.nr \in {"PRINT", "EXEC"}) \/ pc = "called" =>
       call.shared = 0
  /\ (pc = "kernel" /\ call.nr \in {"PRINT", "EXEC"})
     \/ pc \in {"called", "copying"} =>
       call.arg \in Strings /\ call.seen = FramesSeen(call.arg)
  /\ (pc = "copied" \/ (pc = "argument" /\ call.shared # 0)) =>
       call.got = call.seen \/ call.shared \in {call.seen[1], call.seen[2]}
  /\ (pc = "argument" /\ call.shared # 0) => call.shared \in ram.free

SpaceInv == Typed /\ SpacesApart /\ SharedApart /\ CallAllowed /\ Loaded
UserInv == EntriesFine /\ CopyFaithful

(* An entry that shows the stack, and the segments of the file, in place.  *)
Right(q, v, w) ==
  /\ v \in StackPages =>
       w = Word(q.stack + (v - PageOf(TASK_DEFAULT_STACK_END)),
                TaskFlags \cup {"WRITE"})
  /\ q.type = "PROCESS_ELF_FILE" =>
       \A i \in DOMAIN q.file.phdrs :
         LET h == q.file.phdrs[i]
         IN  v \in SegmentPages(h) =>
               w.frame + PageOf(h.p_vaddr) = q.data + PageOf(h.p_offset) + v
  /\ q.type = "PROCESS_BIN_FILE" =>
       (v \in BinaryPages(q.file) =>
          w.frame + PageOf(TASK_DEFAULT_START) = q.data + v)

LayoutInv ==
  \A p \in Alive : \A v \in UserPages :
    Right(proc[p], v, PageWord(ram, proc[p].space, v))

AddressSpaceInv == SpaceInv /\ (UserMemory => UserInv)
-----------------------------------------------------------------------------
(* Induction: a nonempty set of naturals has a least element, and a set of *)
(* naturals that holds 0 and the successors of its members up to n holds   *)
(* them all.  Predicates are given as sets.                                *)
LEMMA LeastNatural ==
  ASSUME NEW T, T \subseteq Nat, T # {}
  PROVE  \E x \in T : \A y \in T : x <= y
<1> DEFINE R == {ss \in Nat \X Nat : ss[1] < ss[2]}
<1>1. IsWellFoundedOn(R, Nat)
  BY NatLessThanWellFounded DEF OpToRel
<1>2. PICK x \in T : \A y \in T : ~ (<<y, x>> \in R)
  <2> HIDE DEF R
  <2> QED BY <1>1, WFMin
<1>3. ASSUME NEW y \in T PROVE x <= y
  <2>1. ~ (<<y, x>> \in R)
    BY <1>2
  <2>2. y < x => <<y, x>> \in R
    OBVIOUS
  <2> QED BY <2>1, <2>2
<1> QED BY <1>2, <1>3

LEMMA UpTo ==
  ASSUME NEW n \in Nat, NEW S, 0 \in S,
         \A i \in 1 .. n : i - 1 \in S => i \in S
  PROVE  \A i \in 0 .. n : i \in S
<1> SUFFICES ASSUME NEW k \in 0 .. n, k \notin S PROVE FALSE
  OBVIOUS
<1> DEFINE Bad == {i \in 0 .. n : i \notin S}
<1>1. PICK i \in Bad : \A j \in Bad : i <= j
  <2>1. Bad \subseteq Nat /\ k \in Bad
    OBVIOUS
  <2> HIDE DEF Bad
  <2> QED BY <2>1, LeastNatural
<1>2. i \in 1 .. n /\ i - 1 \in 0 .. n /\ ~(i <= i - 1)
  BY <1>1
<1>3. i - 1 \in S
  BY <1>1, <1>2
<1> QED BY <1>1, <1>2, <1>3

(* A recursive function over 0 .. n exists.                                *)
IsRecursive(g, n, x, F) ==
  g = [i \in 0 .. n |-> IF i = 0 THEN x ELSE F[i][g[i - 1]]]

LEMMA RecursionExists ==
  ASSUME NEW n \in Nat, NEW M, NEW x \in M, NEW F \in [1 .. n -> [M -> M]]
  PROVE  \E g \in [0 .. n -> M] : IsRecursive(g, n, x, F)
<1> DEFINE Good(k, g) == /\ g \in [0 .. k -> M]
                         /\ g[0] = x
                         /\ \A i \in 1 .. k : g[i] = F[i][g[i - 1]]
           S == {k \in 0 .. n : \E g : Good(k, g)}
<1>1. 0 \in S
  <2>1. Good(0, [i \in 0 .. 0 |-> x])
    OBVIOUS
  <2> HIDE DEF Good
  <2> QED BY <2>1
<1>2. ASSUME NEW k \in 1 .. n, k - 1 \in S PROVE k \in S
  <2>1. PICK g : Good(k - 1, g)
    BY <1>2
  <2> DEFINE h == [i \in 0 .. k |-> IF i = k THEN F[k][g[k - 1]] ELSE g[i]]
  <2>2. g[k - 1] \in M
    BY <2>1
  <2>3. F[k][g[k - 1]] \in M
    BY <2>2
  <2>4. h \in [0 .. k -> M]
    BY <2>1, <2>3
  <2>5. h[0] = x
    BY <2>1
  <2>6. ASSUME NEW i \in 1 .. k PROVE h[i] = F[i][h[i - 1]]
    <3>1. i - 1 \in 0 .. k /\ i - 1 # k
      OBVIOUS
    <3>2. h[i - 1] = g[i - 1]
      BY <3>1
    <3>3. CASE i = k
      BY <3>2, <3>3
    <3>4. CASE i # k
      <4>1. i \in 1 .. (k - 1)
        BY <3>4
      <4> QED BY <2>1, <3>2, <3>4, <4>1
    <3> QED BY <3>3, <3>4
  <2>7. Good(k, h)
    BY <2>4, <2>5, <2>6
  <2> HIDE DEF Good
  <2> QED BY <2>7
<1>3. n \in S
  <2> HIDE DEF S
  <2>1. \A i \in 0 .. n : i \in S
    BY <1>1, <1>2, UpTo
  <2> QED BY <2>1
<1>4. PICK g : Good(n, g)
  BY <1>3
<1>5. g = [i \in 0 .. n |-> IF i = 0 THEN x ELSE F[i][g[i - 1]]]
  <2>1. \A i \in 0 .. n : g[i] = IF i = 0 THEN x ELSE F[i][g[i - 1]]
    <3> TAKE i \in 0 .. n
    <3>1. i # 0 => i \in 1 .. n
      OBVIOUS
    <3> QED BY <1>4, <3>1
  <2> QED BY <1>4, <2>1
<1> QED BY <1>4, <1>5 DEF IsRecursive
-----------------------------------------------------------------------------
(* Arithmetic of addresses.                                                *)
LEMMA DivMod ==
  ASSUME NEW a \in Nat, NEW b \in Nat \ {0}
  PROVE  /\ a \div b \in Nat
         /\ a % b \in 0 .. (b - 1)
         /\ a = b * (a \div b) + (a % b)
  BY SMT

LEMMA DivUnique ==
  ASSUME NEW b \in Nat \ {0}, NEW q \in Nat, NEW r \in 0 .. (b - 1)
  PROVE  /\ (b * q + r) \div b = q
         /\ (b * q + r) % b = r
  BY SMT

LEMMA MulMono ==
  ASSUME NEW a \in Nat, NEW b \in Nat, NEW c \in Nat, a <= b
  PROVE  c * a <= c * b
  BY SMT

LEMMA MulPositive ==
  ASSUME NEW a \in Nat \ {0}, NEW b \in Nat \ {0} PROVE a * b \in Nat \ {0}
  BY SMT

LEMMA EntrySizes ==
  /\ PAGE_SIZE \in Nat \ {0} /\ PAGE_DIR_ENTRIES \in Nat \ {0}
  /\ PAGE_TABLE_ENTRIES \in Nat \ {0}
  /\ PAGE_DIR_ENTRIES <= PAGE_TABLE_ENTRIES
  /\ HeapPage \in Nat \ {0}
  /\ PAGE_DIR_ENTRIES * PAGE_TABLE_ENTRIES \in Nat \ {0}
  /\ PAGE_SIZE * PAGE_TABLE_ENTRIES \in Nat \ {0}
  BY PagingAssumption, MulPositive

LEMMA PagesAre ==
  /\ Pages \subseteq Nat /\ 0 \in Pages
  /\ HeapFrames \subseteq Pages /\ 0 \notin HeapFrames
  /\ 0 \in Entries /\ Dirs \subseteq Entries
  BY EntrySizes DEF Pages, HeapFrames, Entries, Dirs

(* The place of a page in directory and table.                             *)
DirIndex(v) == v \div PAGE_TABLE_ENTRIES
TableIndex(v) == v % PAGE_TABLE_ENTRIES

LEMMA PageIndex ==
  ASSUME NEW v \in Pages
  PROVE  /\ DirIndex(v) \in Dirs
         /\ TableIndex(v) \in Entries
         /\ v = DirIndex(v) * PAGE_TABLE_ENTRIES + TableIndex(v)
<1> DEFINE T == PAGE_TABLE_ENTRIES
           D == PAGE_DIR_ENTRIES
           q == DirIndex(v)
           r == TableIndex(v)
<1>1. v \in Nat /\ v < D * T /\ T \in Nat \ {0} /\ D \in Nat
  BY EntrySizes DEF Pages
<1>2. q \in Nat /\ r \in 0 .. (T - 1) /\ v = T * q + r
  BY <1>1, DivMod DEF DirIndex, TableIndex
<1>3. T * q = q * T /\ D * T = T * D
  BY <1>1, <1>2
<1>4. q < D
  <2> SUFFICES ASSUME D <= q PROVE FALSE
    BY <1>1, <1>2
  <2>1. T * D <= T * q
    BY <1>1, <1>2, MulMono
  <2> HIDE DEF T, D
  <2>2. T * q \in Nat /\ T * D \in Nat
    BY <1>1, <1>2
  <2> QED BY <1>1, <1>2, <1>3, <2>1, <2>2
<1> QED BY <1>1, <1>2, <1>3, <1>4 DEF Dirs, Entries

LEMMA TwoPagesDiffer ==
  ASSUME NEW v \in Pages, NEW w \in Pages, DirIndex(v) = DirIndex(w),
         TableIndex(v) = TableIndex(w)
  PROVE  v = w
  BY PageIndex

LEMMA AddressOfPage ==
  ASSUME NEW v \in Pages
  PROVE  /\ Address(v) \in Nat
         /\ address_page_aligned(Address(v))
         /\ PageOf(Address(v)) = v
         /\ pd_index(Address(v)) = DirIndex(v)
         /\ pt_index(Address(v)) = TableIndex(v)
<1> DEFINE S == PAGE_SIZE
           T == PAGE_TABLE_ENTRIES
           q == DirIndex(v)
           r == TableIndex(v)
<1>1. /\ v \in Nat /\ S \in Nat \ {0} /\ T \in Nat \ {0}
      /\ S * T \in Nat \ {0} /\ S * T = T * S
  BY EntrySizes DEF Pages
<1>2. q \in Nat /\ r \in 0 .. (T - 1) /\ v = T * q + r
  BY <1>1, DivMod DEF DirIndex, TableIndex
<1>3. S * r \in 0 .. (S * T - 1)
  <2>1. S * (r + 1) <= S * T
    BY <1>1, <1>2, MulMono
  <2>2. S * (r + 1) = S * r + S /\ S * r \in Nat
    BY <1>1, <1>2
  <2> HIDE DEF S, T
  <2> QED BY <1>1, <1>2, <2>1, <2>2
<1>4. v * S = (S * T) * q + S * r
  <2> HIDE DEF S, T
  <2>1. (T * q + r) * S = (T * q) * S + r * S
    BY <1>1, <1>2
  <2>2. (T * q) * S = (S * T) * q /\ r * S = S * r
    BY <1>1, <1>2
  <2> QED BY <1>2, <2>1, <2>2
<1>5. Address(v) = v * S
  BY DEF Address
<1>6. v * S = S * v + 0 /\ v * S \in Nat
  BY <1>1
<1>7. (S * v + 0) \div S = v /\ (S * v + 0) % S = 0
  BY <1>1, DivUnique
<1>8. ((S * T) * q + S * r) \div (S * T) = q
      /\ ((S * T) * q + S * r) % (S * T) = S * r
  BY <1>1, <1>2, <1>3, DivUnique
<1>9. (S * r) \div S = r
  <2>1. r \in Nat /\ S * r + 0 = S * r /\ 0 \in 0 .. (S - 1)
    BY <1>1, <1>2
  <2>2. (S * r + 0) \div S = r
    BY <1>1, <2>1, DivUnique
  <2> QED BY <2>1, <2>2
<1>10. pd_index(v * S) = (v * S) \div (S * T)
       /\ pt_index(v * S) = ((v * S) % (S * T)) \div S
  BY <1>1 DEF pd_index, pt_index
<1> HIDE DEF S, T
<1>11. pd_index(v * S) = q /\ pt_index(v * S) = r
  BY <1>4, <1>8, <1>9, <1>10
<1>12. (v * S) \div S = v /\ (v * S) % S = 0
  BY <1>6, <1>7
<1> QED BY <1>5, <1>6, <1>11, <1>12
        DEF PageOf, address_page_aligned, S, T
-----------------------------------------------------------------------------
(* Operations on memory.                                                   *)
Write(m, f, i, w) == [m EXCEPT !.word[f][i] = w]

(* Only frames that were free in m, and page 0, differ in n, and no others *)
(* are free.                                                               *)
Grows(m, n) ==
  /\ n \in Memories
  /\ n.free \subseteq m.free
  /\ \A g \in Pages : g \notin m.free /\ g # 0 => n.word[g] = m.word[g]

LEMMA WordTyped ==
  ASSUME NEW f \in Nat, NEW flags \in SUBSET KernelFlags
  PROVE  Word(f, flags) \in Words
  BY DEF Word, Words

LEMMA MemoryTyped ==
  ASSUME NEW m \in Memories
  PROVE  /\ m.free \subseteq HeapFrames /\ m.free \subseteq Pages
         /\ 0 \notin m.free /\ m.free \subseteq Nat
         /\ m.word \in [Pages -> [Entries -> Words]]
         /\ m = [free |-> m.free, word |-> m.word]
  BY PagesAre DEF Memories

LEMMA WriteFacts ==
  ASSUME NEW m \in Memories, NEW f, NEW i, NEW w \in Words
  PROVE  LET n == Write(m, f, i, w)
         IN  /\ n \in Memories
             /\ n.free = m.free
             /\ \A g \in Pages : g # f => n.word[g] = m.word[g]
             /\ \A g \in Pages : \A e \in Entries :
                  n.word[g][e] = IF g = f /\ e = i THEN w ELSE m.word[g][e]
<1> DEFINE n == Write(m, f, i, w)
<1>1. m.word \in [Pages -> [Entries -> Words]] /\ m.free \subseteq HeapFrames
  BY MemoryTyped
<1>2. /\ n.free = m.free
      /\ n.word = [m.word EXCEPT ![f] = [m.word[f] EXCEPT ![i] = w]]
      /\ n = [free |-> n.free, word |-> n.word]
  <2>1. n = [m EXCEPT !.word = [m.word EXCEPT ![f] =
                                  [m.word[f] EXCEPT ![i] = w]]]
    BY Zenon DEF Write
  <2>2. m = [free |-> m.free, word |-> m.word]
    BY MemoryTyped
  <2> DEFINE new == [m.word EXCEPT ![f] = [m.word[f] EXCEPT ![i] = w]]
  <2>3. n = [m EXCEPT !.word = new]
    BY <2>1
  <2> HIDE DEF new, n
  <2>4. n.free = m.free /\ n.word = new /\ n = [free |-> n.free, word |-> n.word]
    BY <2>2, <2>3
  <2> QED BY <2>4 DEF new
<1> HIDE DEF n
<1>3. ASSUME NEW g \in Pages
      PROVE  /\ n.word[g] \in [Entries -> Words]
             /\ g # f => n.word[g] = m.word[g]
             /\ \A e \in Entries :
                  n.word[g][e] = IF g = f /\ e = i THEN w ELSE m.word[g][e]
  <2>1. m.word[g] \in [Entries -> Words]
    BY <1>1
  <2>2. CASE g = f
    <3>1. n.word[g] = [m.word[g] EXCEPT ![i] = w]
      BY <1>1, <1>2, <2>2
    <3> QED BY <2>1, <2>2, <3>1
  <2>3. CASE g # f
    <3>1. n.word[g] = m.word[g]
      BY <1>1, <1>2, <2>3
    <3> QED BY <2>1, <2>3, <3>1
  <2> QED BY <2>2, <2>3
<1>4. n.word \in [Pages -> [Entries -> Words]]
  <2>1. n.word = [g \in Pages |-> n.word[g]]
    BY <1>1, <1>2
  <2> QED BY <1>3, <2>1
<1>5. n \in Memories
  BY <1>1, <1>2, <1>4 DEF Memories
<1> QED BY <1>2, <1>3, <1>5 DEF n

LEMMA SegmentOne == ASSUME NEW f \in Nat PROVE Segment(f, 1) = {f}
  BY DEF Segment

(* kzalloc takes a segment of free frames and clears it, or fails.         *)
LEMMA AllocFacts ==
  ASSUME NEW m \in Memories, NEW n \in Nat
  PROVE  LET f == Fit(m, n)
             r == kzalloc(m, n)
         IN  /\ r \in Memories
             /\ f = 0 => r = m
             /\ f # 0 => /\ f \in m.free /\ n # 0 /\ f \in Segment(f, n)
                         /\ Segment(f, n) \subseteq m.free
                         /\ r.free = m.free \ Segment(f, n)
                         /\ \A g \in Segment(f, n) : r.word[g] = ZeroFrame
             /\ \A g \in Pages : g \notin m.free => r.word[g] = m.word[g]
             /\ \A g \in Pages : g \notin Segment(f, n) =>
                                   r.word[g] = m.word[g]
             /\ n = 1 /\ m.free # {} => f # 0
<1> DEFINE f == Fit(m, n)
           r == kzalloc(m, n)
           fits == {g \in m.free : Segment(g, n) \subseteq m.free}
<1>1. /\ m.word \in [Pages -> [Entries -> Words]]
      /\ m.free \subseteq HeapFrames /\ m.free \subseteq Nat
      /\ m.free \subseteq Pages /\ 0 \notin m.free
  BY MemoryTyped
<1>2. f = IF n = 0 \/ fits = {} THEN 0 ELSE Min(fits)
  BY DEF Fit
<1>3. fits # {} => Min(fits) \in fits
  <2>1. fits \subseteq Nat
    BY <1>1
  <2>2. fits # {} => \E x \in fits : \A y \in fits : x <= y
    <3> HIDE DEF fits
    <3> QED BY <2>1, LeastNatural
  <2> HIDE DEF fits
  <2> QED BY <2>2 DEF Min
<1>4. f # 0 => /\ n # 0 /\ f \in m.free /\ Segment(f, n) \subseteq m.free
  BY <1>2, <1>3
<1>5. n = 1 /\ m.free # {} => f # 0
  <2> SUFFICES ASSUME n = 1, m.free # {} PROVE f # 0
    OBVIOUS
  <2>1. PICK g \in m.free : TRUE
    OBVIOUS
  <2>2. Segment(g, n) = {g}
    BY <1>1, SegmentOne
  <2>3. g \in fits
    BY <2>2
  <2>4. Min(fits) \in m.free
    BY <1>3, <2>3
  <2> QED BY <1>1, <1>2, <2>3, <2>4
<1>6. ZeroFrame \in [Entries -> Words]
  BY WordTyped DEF ZeroFrame, Entries
<1>7. CASE f = 0
  BY <1>5, <1>7 DEF kzalloc
<1>8. CASE f # 0
  <2>1. r = [free |-> m.free \ Segment(f, n),
             word |-> [g \in Pages |-> IF g \in Segment(f, n) THEN ZeroFrame
                                       ELSE m.word[g]]]
    BY <1>8 DEF kzalloc
  <2> HIDE DEF f
  <2>2. r \in Memories
    BY <1>1, <1>6, <2>1 DEF Memories
  <2>3. f \in Segment(f, n)
    BY <1>1, <1>4, <1>8 DEF Segment
  <2>4. \A g \in Segment(f, n) : g \in m.free /\ g \in Pages
    BY <1>1, <1>4, <1>8
  <2> HIDE DEF fits
  <2> QED BY <1>1, <1>4, <1>5, <1>8, <2>1, <2>2, <2>3, <2>4 DEF f
<1> QED BY <1>7, <1>8

LEMMA FreeFacts ==
  ASSUME NEW m \in Memories, NEW f
  PROVE  /\ kfree(m, f) \in Memories
         /\ kfree(m, f).word = m.word
         /\ kfree(m, f).free = m.free \cup ({f} \cap HeapFrames)
  BY DEF kfree, Memories

LEMMA GrowsSame == ASSUME NEW m \in Memories PROVE Grows(m, m)
  BY DEF Grows

LEMMA AllocGrows ==
  ASSUME NEW m \in Memories, NEW k, Grows(m, k), NEW n \in Nat
  PROVE  /\ Grows(m, kzalloc(k, n))
         /\ Fit(k, n) # 0 => Segment(Fit(k, n), n) \subseteq m.free
<1>1. k \in Memories /\ k.free \subseteq m.free
  BY DEF Grows
<1>2. /\ kzalloc(k, n) \in Memories
      /\ kzalloc(k, n).free \subseteq k.free
      /\ \A g \in Pages : g \notin k.free => kzalloc(k, n).word[g] = k.word[g]
      /\ Fit(k, n) # 0 => Segment(Fit(k, n), n) \subseteq k.free
  BY <1>1, AllocFacts
<1> QED BY <1>1, <1>2 DEF Grows

LEMMA FreeGrows ==
  ASSUME NEW m \in Memories, NEW k, Grows(m, k), NEW f, f \in m.free \cup {0}
  PROVE  Grows(m, kfree(k, f))
<1>1. k \in Memories
  BY DEF Grows
<1>2. {f} \cap HeapFrames \subseteq m.free
  BY PagesAre
<1> QED BY <1>1, <1>2, FreeFacts DEF Grows

LEMMA WriteGrows ==
  ASSUME NEW m \in Memories, NEW k, Grows(m, k), NEW f, f \in m.free \cup {0},
         NEW i, NEW w \in Words
  PROVE  Grows(m, Write(k, f, i, w))
<1>1. k \in Memories
  BY DEF Grows
<1> QED BY <1>1, WriteFacts DEF Grows
-----------------------------------------------------------------------------
(* Address spaces are created.                                             *)
LEMMA FreeFinite ==
  ASSUME NEW m \in Memories
  PROVE  IsFiniteSet(m.free) /\ Cardinality(m.free) \in Nat
<1>1. IsFiniteSet(Pages)
  BY EntrySizes, FS_Interval DEF Pages
<1> QED BY <1>1, MemoryTyped, FS_Subset, FS_CardinalityType

Row(i, flags) == [j \in Entries |-> Word(i * PAGE_TABLE_ENTRIES + j, flags)]

LEMMA RowTyped ==
  ASSUME NEW i \in Dirs, NEW flags \in SUBSET KernelFlags
  PROVE  Row(i, flags) \in [Entries -> Words]
<1>1. \A j \in Entries : i * PAGE_TABLE_ENTRIES + j \in Nat
  BY EntrySizes DEF Dirs, Entries
<1> QED BY <1>1, WordTyped DEF Row

(* One table: t is its frame, d that of the directory's entries.           *)
TableMade(m, d, i, flags) ==
  LET t == Fit(m, 1)
      r == NewPageTable(m, d, i, flags)
  IN  /\ r \in Memories
      /\ r.free = m.free \ {t}
      /\ t \in m.free \cup {0} /\ (m.free # {} => t \in m.free)
      /\ \A g \in Pages : g # t /\ g # d => r.word[g] = m.word[g]
      /\ t # d =>
           /\ r.word[t] = Row(i, flags)
           /\ r.word[d][i] = Word(t, flags \cup {"WRITE"})
           /\ \A e \in Entries : e # i => r.word[d][e] = m.word[d][e]

LEMMA TableFacts ==
  ASSUME NEW m \in Memories, NEW d \in Pages, NEW i \in Dirs,
         NEW flags \in SUBSET KernelFlags
  PROVE  TableMade(m, d, i, flags)
<1> DEFINE t == Fit(m, 1)
           z == kzalloc(m, 1)
           n == [z EXCEPT !.word[t] = Row(i, flags)]
           w == Word(t, flags \cup {"WRITE"})
           r == NewPageTable(m, d, i, flags)
<1>1. r = Write(n, d, i, w)
  BY DEF NewPageTable, Write, Row, Entries
<1>2. m.free \subseteq Nat /\ m.free \subseteq Pages /\ 0 \notin m.free
  BY MemoryTyped
<1>3. /\ z \in Memories
      /\ t = 0 => z = m
      /\ t # 0 => /\ t \in m.free /\ z.free = m.free \ Segment(t, 1)
      /\ \A g \in Pages : g \notin Segment(t, 1) => z.word[g] = m.word[g]
      /\ m.free # {} => t # 0
  BY AllocFacts
<1>4. t \in Pages /\ t \in Nat /\ Segment(t, 1) = {t}
  BY <1>2, <1>3, PagesAre, SegmentOne
<1>5. z.free = m.free \ {t}
  BY <1>2, <1>3, <1>4
<1>6. w \in Words
  BY <1>4, WordTyped DEF KernelFlags
<1> HIDE DEF t, z, w
<1>7. /\ n \in Memories /\ n.free = z.free
      /\ n.word[t] = Row(i, flags)
      /\ \A g \in Pages : g # t => n.word[g] = z.word[g]
  <2>1. z.word \in [Pages -> [Entries -> Words]]
        /\ z = [free |-> z.free, word |-> z.word]
    BY <1>3, MemoryTyped
  <2>2. n.free = z.free /\ n.word = [z.word EXCEPT ![t] = Row(i, flags)]
        /\ n = [free |-> n.free, word |-> n.word]
    BY <2>1
  <2>3. n.word \in [Pages -> [Entries -> Words]]
    BY <2>1, <2>2, RowTyped
  <2>4. n \in Memories
    BY <1>3, <2>2, <2>3 DEF Memories
  <2> QED BY <1>4, <2>1, <2>2, <2>4
<1> HIDE DEF n
<1>8. /\ r \in Memories /\ r.free = n.free
      /\ \A g \in Pages : g # d => r.word[g] = n.word[g]
      /\ \A g \in Pages : \A e \in Entries :
           r.word[g][e] = IF g = d /\ e = i THEN w ELSE n.word[g][e]
  BY <1>1, <1>6, <1>7, WriteFacts
<1> HIDE DEF r
<1>9. i \in Entries
  BY PagesAre
<1>10. \A g \in Pages : g # t /\ g # d => r.word[g] = m.word[g]
  BY <1>3, <1>4, <1>7, <1>8
<1>11. t # d =>
         /\ r.word[t] = Row(i, flags)
         /\ r.word[d][i] = w
         /\ \A e \in Entries : e # i => r.word[d][e] = m.word[d][e]
  BY <1>3, <1>4, <1>7, <1>8, <1>9
<1> QED BY <1>3, <1>5, <1>7, <1>8, <1>10, <1>11 DEF r, t, w, TableMade

LEMMA TableGrows ==
  ASSUME NEW m \in Memories, NEW k, Grows(m, k), NEW d, d \in m.free \cup {0},
         NEW i \in Dirs, NEW flags \in SUBSET KernelFlags
  PROVE  Grows(m, NewPageTable(k, d, i, flags))
<1>1. k \in Memories /\ k.free \subseteq m.free /\ d \in Pages
  BY MemoryTyped, PagesAre DEF Grows
<1> DEFINE t == Fit(k, 1)
           r == NewPageTable(k, d, i, flags)
<1>2. /\ r \in Memories /\ r.free = k.free \ {t} /\ t \in k.free \cup {0}
      /\ \A g \in Pages : g # t /\ g # d => r.word[g] = k.word[g]
  <2>1. TableMade(k, d, i, flags)
    BY <1>1, TableFacts
  <2> QED BY <2>1 DEF TableMade
<1> HIDE DEF t, r
<1>3. Grows(m, r)
  BY <1>1, <1>2 DEF Grows
<1> QED BY <1>3 DEF r

(* The loop of new_page_directory, table by table.                         *)
LEMMA TablesUnfold ==
  ASSUME NEW m \in Memories, NEW d \in Pages,
         NEW flags \in SUBSET KernelFlags
  PROVE  \E f : /\ f[0] = m
                /\ \A i \in 1 .. PAGE_DIR_ENTRIES :
                     f[i] = NewPageTable(f[i - 1], d, i - 1, flags)
                /\ NewPageTables(m, d, flags) = f[PAGE_DIR_ENTRIES]
<1> DEFINE D == PAGE_DIR_ENTRIES
           F == [i \in 1 .. D |->
                   [x \in Memories |-> NewPageTable(x, d, i - 1, flags)]]
           P(g) == g = [i \in 0 .. D |->
                          IF i = 0 THEN m
                          ELSE NewPageTable(g[i - 1], d, i - 1, flags)]
<1>1. D \in Nat /\ \A i \in 1 .. D : i - 1 \in Dirs
  BY EntrySizes DEF Dirs
<1>2. F \in [1 .. D -> [Memories -> Memories]]
  <2>1. \A i \in 1 .. D : \A x \in Memories :
          NewPageTable(x, d, i - 1, flags) \in Memories
    BY <1>1, TableFacts DEF TableMade
  <2> QED BY <2>1
<1>3. PICK g \in [0 .. D -> Memories] : IsRecursive(g, D, m, F)
  <2> HIDE DEF F, D
  <2> QED BY <1>1, <1>2, RecursionExists
<1>4. P(g)
  <2>1. ASSUME NEW i \in 0 .. D
        PROVE  g[i] = IF i = 0 THEN m
                      ELSE NewPageTable(g[i - 1], d, i - 1, flags)
    <3>1. CASE i = 0
      BY <1>3, <3>1 DEF IsRecursive
    <3>2. CASE i # 0
      <4>1. i \in 1 .. D /\ i - 1 \in 0 .. D
        BY <1>1, <3>2
      <4>2. g[i - 1] \in Memories
        BY <4>1
      <4>3. g[i] = F[i][g[i - 1]]
        BY <1>3, <3>2 DEF IsRecursive
      <4>4. F[i][g[i - 1]] = NewPageTable(g[i - 1], d, i - 1, flags)
        BY <4>1, <4>2
      <4> QED BY <3>2, <4>3, <4>4
    <3> QED BY <3>1, <3>2
  <2> QED BY <2>1
<1> DEFINE f == CHOOSE h : P(h)
<1>5. NewPageTables(m, d, flags) = f[D]
  BY Zenon DEF NewPageTables
<1>6. P(f)
  <2> HIDE DEF P
  <2> QED BY <1>4
<1> HIDE DEF f
<1>7. f[0] = m /\ \A i \in 1 .. D :
                    f[i] = NewPageTable(f[i - 1], d, i - 1, flags)
  <2>1. 0 \in 0 .. D /\ \A i \in 1 .. D : i \in 0 .. D /\ i # 0
    BY <1>1
  <2>2. \A i \in 0 .. D : f[i] = IF i = 0 THEN m
                          ELSE NewPageTable(f[i - 1], d, i - 1, flags)
    BY <1>6, Zenon
  <2> QED BY <2>1, <2>2
<1> QED BY <1>5, <1>7

LEMMA TablesGrow ==
  ASSUME NEW m \in Memories, NEW k, Grows(m, k), NEW d, d \in m.free \cup {0},
         NEW flags \in SUBSET KernelFlags
  PROVE  Grows(m, NewPageTables(k, d, flags))
<1> DEFINE D == PAGE_DIR_ENTRIES
<1>1. k \in Memories /\ d \in Pages
  BY MemoryTyped, PagesAre DEF Grows
<1>2. PICK f : /\ f[0] = k
               /\ \A i \in 1 .. D :
                    f[i] = NewPageTable(f[i - 1], d, i - 1, flags)
               /\ NewPageTables(k, d, flags) = f[D]
  BY <1>1, TablesUnfold
<1> DEFINE S == {i \in 0 .. D : Grows(m, f[i])}
<1>3. D \in Nat /\ \A i \in 1 .. D : i - 1 \in Dirs
  BY EntrySizes DEF Dirs
<1>4. 0 \in S
  BY <1>2, <1>3
<1>5. ASSUME NEW i \in 1 .. D, i - 1 \in S PROVE i \in S
  <2>1. Grows(m, f[i - 1]) /\ i - 1 \in Dirs
    BY <1>3, <1>5
  <2>2. Grows(m, NewPageTable(f[i - 1], d, i - 1, flags))
    BY <2>1, TableGrows
  <2> QED BY <1>2, <1>3, <2>2
<1> HIDE DEF S
<1>6. \A i \in 0 .. D : i \in S
  BY <1>3, <1>4, <1>5, UpTo
<1>7. D \in S
  BY <1>3, <1>6
<1> QED BY <1>2, <1>7 DEF S

(* After i tables, with memory for all of them: they are distinct, taken   *)
(* from the free frames, and map their pages to themselves.                *)
TableAt(x, d, j) == x.word[d][j].frame
Built(m, x, d, i, flags) ==
  /\ x \in Memories /\ x.free \subseteq m.free
  /\ Cardinality(x.free) = Cardinality(m.free) - i
  /\ \A j \in 0 .. (i - 1) : /\ TableAt(x, d, j) \in m.free \ x.free
                             /\ x.word[TableAt(x, d, j)] = Row(j, flags)
  /\ \A j, k \in 0 .. (i - 1) : j # k => TableAt(x, d, j) # TableAt(x, d, k)

LEMMA BuiltStep ==
  ASSUME NEW m \in Memories, NEW d \in Pages, d \notin m.free,
         NEW flags \in SUBSET KernelFlags,
         NEW i \in 1 .. PAGE_DIR_ENTRIES,
         PAGE_DIR_ENTRIES <= Cardinality(m.free),
         NEW x, Built(m, x, d, i - 1, flags)
  PROVE  Built(m, NewPageTable(x, d, i - 1, flags), d, i, flags)
<1> DEFINE t == Fit(x, 1)
           r == NewPageTable(x, d, i - 1, flags)
<1>1. /\ x \in Memories /\ x.free \subseteq m.free
      /\ Cardinality(x.free) = Cardinality(m.free) - (i - 1)
  BY DEF Built
<1>2. i - 1 \in Dirs /\ i - 1 \in Entries /\ i \in Nat
      /\ PAGE_DIR_ENTRIES \in Nat
      /\ \A j \in 0 .. (i - 1) : j \in Entries
  BY EntrySizes, PagesAre DEF Dirs, Entries
<1>3. Cardinality(m.free) \in Nat /\ IsFiniteSet(x.free)
  BY <1>1, FreeFinite
<1>4. x.free # {}
  <2>1. Cardinality(x.free) > 0
    BY <1>1, <1>2, <1>3
  <2> QED BY <2>1, <1>3, FS_EmptySet
<1>5. TableMade(x, d, i - 1, flags)
  BY <1>1, <1>2, TableFacts
<1>6. /\ r \in Memories /\ r.free = x.free \ {t} /\ t \in x.free /\ t # d
      /\ t \in Pages
      /\ \A g \in Pages : g # t /\ g # d => r.word[g] = x.word[g]
      /\ r.word[t] = Row(i - 1, flags)
      /\ r.word[d][i - 1] = Word(t, flags \cup {"WRITE"})
      /\ \A e \in Entries : e # i - 1 => r.word[d][e] = x.word[d][e]
  BY <1>1, <1>4, <1>5, MemoryTyped DEF TableMade
<1> HIDE DEF t, r
<1>7. Cardinality(r.free) = Cardinality(m.free) - i
  <2>1. Cardinality(r.free) = Cardinality(x.free) - 1
    <3>1. Cardinality(x.free \ {t}) = Cardinality(x.free) - 1
      BY <1>3, <1>6, FS_RemoveElement, Zenon
    <3> QED BY <1>6, <3>1
  <2> QED BY <1>1, <1>2, <1>3, <2>1
<1>8. TableAt(r, d, i - 1) = t
  BY <1>6 DEF TableAt, Word
<1>9. ASSUME NEW j \in 0 .. ((i - 1) - 1)
      PROVE  /\ TableAt(r, d, j) = TableAt(x, d, j)
             /\ TableAt(r, d, j) \in m.free \ r.free
             /\ TableAt(r, d, j) # t
             /\ r.word[TableAt(r, d, j)] = Row(j, flags)
  <2>1. j # i - 1 /\ j \in Entries
    BY <1>2
  <2>2. TableAt(r, d, j) = TableAt(x, d, j)
    BY <1>6, <2>1 DEF TableAt
  <2>3. /\ TableAt(x, d, j) \in m.free \ x.free
        /\ x.word[TableAt(x, d, j)] = Row(j, flags)
    BY DEF Built
  <2>4. TableAt(x, d, j) # t /\ TableAt(x, d, j) # d
        /\ TableAt(x, d, j) \in Pages
    BY <1>6, <2>3, MemoryTyped
  <2> QED BY <1>6, <2>2, <2>3, <2>4
<1>10. ASSUME NEW j \in 0 .. (i - 1)
       PROVE  /\ TableAt(r, d, j) \in m.free \ r.free
              /\ r.word[TableAt(r, d, j)] = Row(j, flags)
  <2>1. CASE j = i - 1
    BY <1>1, <1>6, <1>8, <2>1
  <2>2. CASE j # i - 1
    <3>1. j \in 0 .. ((i - 1) - 1)
      BY <1>2, <2>2
    <3> QED BY <1>9, <3>1
  <2> QED BY <2>1, <2>2
<1>11. ASSUME NEW j \in 0 .. (i - 1), NEW k \in 0 .. (i - 1), j # k
       PROVE  TableAt(r, d, j) # TableAt(r, d, k)
  <2>1. \A l \in 0 .. (i - 1) : l # i - 1 => l \in 0 .. ((i - 1) - 1)
    BY <1>2
  <2>2. CASE j = i - 1
    BY <1>8, <1>9, <1>11, <2>1, <2>2
  <2>3. CASE k = i - 1
    BY <1>8, <1>9, <1>11, <2>1, <2>3
  <2>4. CASE j # i - 1 /\ k # i - 1
    <3>1. TableAt(x, d, j) # TableAt(x, d, k)
      BY <1>11, <2>1, <2>4 DEF Built
    <3> QED BY <1>9, <2>1, <2>4, <3>1
  <2> QED BY <2>2, <2>3, <2>4
<1>12. Built(m, r, d, i, flags)
  BY <1>1, <1>6, <1>7, <1>10, <1>11 DEF Built
<1> QED BY <1>12 DEF r

LEMMA TablesBuilt ==
  ASSUME NEW m \in Memories, NEW d \in Pages, d \notin m.free,
         NEW flags \in SUBSET KernelFlags,
         PAGE_DIR_ENTRIES <= Cardinality(m.free)
  PROVE  Built(m, NewPageTables(m, d, flags), d, PAGE_DIR_ENTRIES, flags)
<1> DEFINE D == PAGE_DIR_ENTRIES
<1>1. PICK f : /\ f[0] = m
               /\ \A i \in 1 .. D :
                    f[i] = NewPageTable(f[i - 1], d, i - 1, flags)
               /\ NewPageTables(m, d, flags) = f[D]
  BY TablesUnfold
<1> DEFINE S == {i \in 0 .. D : Built(m, f[i], d, i, flags)}
<1>2. D \in Nat
  BY EntrySizes
<1>3. 0 \in S
  <2>1. Cardinality(m.free) \in Nat
    BY FreeFinite
  <2>2. Built(m, m, d, 0, flags)
    BY <2>1 DEF Built
  <2> QED BY <1>1, <1>2, <2>2
<1>4. ASSUME NEW i \in 1 .. D, i - 1 \in S PROVE i \in S
  <2>1. Built(m, f[i - 1], d, i - 1, flags)
    BY <1>4
  <2>2. Built(m, NewPageTable(f[i - 1], d, i - 1, flags), d, i, flags)
    BY <2>1, BuiltStep
  <2> QED BY <1>1, <1>2, <2>2
<1> HIDE DEF S
<1>5. \A i \in 0 .. D : i \in S
  BY <1>2, <1>3, <1>4, UpTo
<1>6. D \in S
  BY <1>2, <1>5
<1> QED BY <1>1, <1>6 DEF S

(* create_virtual_address_space, as allocations and writes.                *)
LEMMA CreateUnfold ==
  ASSUME NEW m, NEW flags
  PROVE  LET s == Fit(m, 1)
             d == Fit(kzalloc(m, 1), 1)
             x == NewPageTables(kzalloc(kzalloc(m, 1), 1), d, flags)
             p == Fit(x, 1)
             v == create_virtual_address_space(m, flags)
         IN  /\ v.at = s
             /\ v.ram = Write(Write(kzalloc(x, 1), p, 0, Word(d, {})),
                              s, 0, Word(p, {}))
<1> DEFINE s == Alloc(m, 1)
           d == Alloc(s.ram, 1)
           x == NewPageTables(d.ram, d.at, flags)
           p == Alloc(x, 1)
           e == new_page_directory(s.ram, flags)
<1>1. /\ s.at = Fit(m, 1) /\ s.ram = kzalloc(m, 1)
      /\ d.at = Fit(kzalloc(m, 1), 1)
      /\ d.ram = kzalloc(kzalloc(m, 1), 1)
      /\ p.at = Fit(x, 1) /\ p.ram = kzalloc(x, 1)
      /\ p = [at |-> Fit(x, 1), ram |-> kzalloc(x, 1)]
  BY DEF Alloc
<1>2. e = [p EXCEPT !.ram = Write(p.ram, p.at, 0, Word(d.at, {}))]
  BY Zenon DEF new_page_directory, Write
<1> HIDE DEF x, p, d
<1>3. e.at = p.at /\ e.ram = Write(p.ram, p.at, 0, Word(d.at, {}))
  BY <1>1, <1>2
<1>4. create_virtual_address_space(m, flags) =
        [at |-> s.at, ram |-> Write(e.ram, s.at, 0, Word(e.at, {}))]
  BY DEF create_virtual_address_space, Write
<1> HIDE DEF s, e
<1>5. x = NewPageTables(kzalloc(kzalloc(m, 1), 1),
                        Fit(kzalloc(m, 1), 1), flags)
  BY <1>1 DEF x
<1> QED BY <1>1, <1>3, <1>4, <1>5

LEMMA CreateGrows ==
  ASSUME NEW m \in Memories, NEW flags \in SUBSET KernelFlags
  PROVE  /\ Grows(m, create_virtual_address_space(m, flags).ram)
         /\ create_virtual_address_space(m, flags).at \in m.free \cup {0}
<1> DEFINE s == Fit(m, 1)
           a == kzalloc(m, 1)
           d == Fit(a, 1)
           b == kzalloc(a, 1)
           x == NewPageTables(b, d, flags)
           p == Fit(x, 1)
           c == kzalloc(x, 1)
           v == create_virtual_address_space(m, flags)
<1>1. ASSUME NEW k, Grows(m, k)
      PROVE  /\ Grows(m, kzalloc(k, 1))
             /\ Fit(k, 1) \in m.free \cup {0} /\ Fit(k, 1) \in Nat
  <2>1. k \in Memories /\ k.free \subseteq m.free /\ m.free \subseteq Nat
    BY <1>1, MemoryTyped DEF Grows
  <2>2. Fit(k, 1) # 0 => Fit(k, 1) \in k.free
    BY <2>1, AllocFacts
  <2> QED BY <1>1, <2>1, <2>2, AllocGrows
<1>2. Grows(m, a) /\ s \in m.free \cup {0}
  BY <1>1, GrowsSame
<1>3. Grows(m, b) /\ d \in m.free \cup {0} /\ d \in Nat
  <2> HIDE DEF a
  <2> QED BY <1>1, <1>2
<1>4. Grows(m, x)
  <2> HIDE DEF b, d
  <2> QED BY <1>3, TablesGrow
<1>5. Grows(m, c) /\ p \in m.free \cup {0} /\ p \in Nat
  <2> HIDE DEF x
  <2> QED BY <1>1, <1>4
<1>6. v.at = s /\ v.ram = Write(Write(c, p, 0, Word(d, {})),
                                s, 0, Word(p, {}))
  BY CreateUnfold
<1> HIDE DEF s, d, p, c, v
<1>7. Word(d, {}) \in Words /\ Word(p, {}) \in Words
  BY <1>3, <1>5, WordTyped
<1>8. Grows(m, Write(c, p, 0, Word(d, {})))
  BY <1>5, <1>7, WriteGrows
<1>9. Grows(m, v.ram)
  BY <1>2, <1>6, <1>7, <1>8, WriteGrows
<1> QED BY <1>2, <1>6, <1>9 DEF v

(* A new space consists of frames that were free and maps every page to    *)
(* itself.                                                                 *)
Created(m, v, flags) ==
  /\ v.at \in m.free
  /\ Space(v.ram, v.at)
  /\ FramesOf(v.ram, v.at) \subseteq m.free \ v.ram.free
  /\ \A page \in Pages : PageWord(v.ram, v.at, page) = Word(page, flags)

(* One frame is allocated while there is one.                              *)
LEMMA AllocOne ==
  ASSUME NEW m \in Memories, m.free # {}
  PROVE  /\ kzalloc(m, 1) \in Memories
         /\ Fit(m, 1) \in m.free /\ Fit(m, 1) \in Pages /\ Fit(m, 1) # 0
         /\ kzalloc(m, 1).free = m.free \ {Fit(m, 1)}
         /\ Cardinality(kzalloc(m, 1).free) = Cardinality(m.free) - 1
         /\ \A g \in Pages : g # Fit(m, 1) =>
                               kzalloc(m, 1).word[g] = m.word[g]
<1> DEFINE f == Fit(m, 1)
           r == kzalloc(m, 1)
<1>1. m.free \subseteq Nat /\ m.free \subseteq Pages /\ 0 \notin m.free
  BY MemoryTyped
<1>2. /\ r \in Memories
      /\ f # 0 => f \in m.free /\ r.free = m.free \ Segment(f, 1)
      /\ \A g \in Pages : g \notin Segment(f, 1) => r.word[g] = m.word[g]
      /\ m.free # {} => f # 0
  BY AllocFacts
<1> HIDE DEF f, r
<1>3. f \in m.free /\ f \in Pages /\ f # 0 /\ Segment(f, 1) = {f}
  BY <1>1, <1>2, SegmentOne
<1>4. r.free = m.free \ {f}
  BY <1>2, <1>3
<1>5. Cardinality(m.free \ {f}) = Cardinality(m.free) - 1
  BY <1>3, FreeFinite, FS_RemoveElement, Zenon
<1> QED BY <1>2, <1>3, <1>4, <1>5 DEF f, r

LEMMA NotEmpty ==
  ASSUME NEW m \in Memories, Cardinality(m.free) > 0 PROVE m.free # {}
  BY FS_EmptySet

LEMMA CreateFacts ==
  ASSUME NEW m \in Memories, NEW flags \in SUBSET KernelFlags,
         PAGE_DIR_ENTRIES + 3 <= Cardinality(m.free)
  PROVE  Created(m, create_virtual_address_space(m, flags), flags)
<1> DEFINE D == PAGE_DIR_ENTRIES
           s == Fit(m, 1)
           a == kzalloc(m, 1)
           d == Fit(a, 1)
           b == kzalloc(a, 1)
           x == NewPageTables(b, d, flags)
           p == Fit(x, 1)
           c == kzalloc(x, 1)
           v == create_virtual_address_space(m, flags)
           e == Write(c, p, 0, Word(d, {}))
<1>1. D \in Nat \ {0} /\ Cardinality(m.free) \in Nat
  BY EntrySizes, FreeFinite
<1>2. /\ a \in Memories /\ s \in m.free /\ a.free = m.free \ {s}
      /\ Cardinality(a.free) = Cardinality(m.free) - 1
      /\ s \in Pages
  <2>1. m.free # {}
    BY <1>1, NotEmpty
  <2> QED BY <2>1, AllocOne
<1> HIDE DEF s, a
<1>3. /\ b \in Memories /\ d \in a.free /\ b.free = a.free \ {d}
      /\ Cardinality(b.free) = Cardinality(a.free) - 1
      /\ d \in Pages
  <2>1. Cardinality(a.free) > 0
    BY <1>1, <1>2
  <2>2. a.free # {}
    BY <1>2, <2>1, NotEmpty
  <2> QED BY <1>2, <2>2, AllocOne
<1> HIDE DEF d, b
<1>4. Built(b, x, d, D, flags)
  <2>1. d \notin b.free /\ D <= Cardinality(b.free)
    BY <1>1, <1>2, <1>3
  <2> QED BY <1>3, <2>1, TablesBuilt
<1> HIDE DEF x
<1>5. /\ x \in Memories /\ x.free \subseteq b.free
      /\ Cardinality(x.free) = Cardinality(b.free) - D
      /\ \A j \in Dirs : /\ TableAt(x, d, j) \in b.free \ x.free
                         /\ x.word[TableAt(x, d, j)] = Row(j, flags)
      /\ \A j, k \in Dirs : j # k => TableAt(x, d, j) # TableAt(x, d, k)
  BY <1>4 DEF Built, Dirs
<1>6. /\ c \in Memories /\ p \in x.free /\ c.free = x.free \ {p}
      /\ p \in Pages
      /\ \A g \in Pages : g # p => c.word[g] = x.word[g]
  <2>1. x.free # {}
    BY <1>1, <1>2, <1>3, <1>5, NotEmpty
  <2> QED BY <1>5, <2>1, AllocOne
<1> HIDE DEF p, c
<1>7. s # d /\ s # p /\ d # p /\ {s, d, p} \subseteq m.free
  BY <1>2, <1>3, <1>5, <1>6
<1>8. Word(d, {}) \in Words /\ Word(p, {}) \in Words
  BY <1>3, <1>6, PagesAre, WordTyped
<1>9. /\ e \in Memories /\ e.free = c.free
      /\ \A g \in Pages : g # p => e.word[g] = c.word[g]
      /\ \A g \in Pages : \A i \in Entries :
           e.word[g][i] = IF g = p /\ i = 0 THEN Word(d, {}) ELSE c.word[g][i]
  BY <1>6, <1>8, WriteFacts
<1>10. v.at = s /\ v.ram = Write(e, s, 0, Word(p, {}))
  BY CreateUnfold DEF s, a, d, b, x, p, c
<1> HIDE DEF e, v
<1> DEFINE n == v.ram
<1>11. /\ n \in Memories /\ n.free = e.free
       /\ \A g \in Pages : g # s => n.word[g] = e.word[g]
       /\ \A g \in Pages : \A i \in Entries :
            n.word[g][i] = IF g = s /\ i = 0 THEN Word(p, {}) ELSE e.word[g][i]
  BY <1>8, <1>9, <1>10, WriteFacts
<1> HIDE DEF n
<1>12. pd_of(n, s) = p /\ Directory(n, s) = d
  <2>1. n.word[s][0] = Word(p, {}) /\ n.word[p][0] = Word(d, {})
    BY <1>2, <1>6, <1>7, <1>9, <1>11, PagesAre
  <2> QED BY <2>1 DEF pd_of, Directory, page_directory_entries, Word
<1>13. \A g \in Pages : g # s /\ g # p => n.word[g] = x.word[g]
  BY <1>6, <1>9, <1>11
<1>14. ASSUME NEW j \in Dirs
       PROVE  /\ TableOf(n, s, j) = TableAt(x, d, j)
              /\ TableOf(n, s, j) \in b.free \ x.free
              /\ TableOf(n, s, j) \in Pages
              /\ TableOf(n, s, j) \notin {s, p, d}
              /\ n.word[TableOf(n, s, j)] = Row(j, flags)
  <2>1. n.word[d] = x.word[d]
    BY <1>3, <1>7, <1>13
  <2>2. TableOf(n, s, j) = TableAt(x, d, j)
    BY <1>12, <2>1 DEF TableOf, TableAt
  <2>3. TableAt(x, d, j) \in b.free \ x.free
        /\ x.word[TableAt(x, d, j)] = Row(j, flags)
    BY <1>5
  <2>4. TableAt(x, d, j) \notin {s, p, d} /\ TableAt(x, d, j) \in Pages
    BY <1>2, <1>3, <1>6, <2>3, MemoryTyped
  <2> QED BY <1>13, <2>2, <2>3, <2>4
<1>15. Space(n, s)
  <2>1. {s, p, d} \subseteq HeapFrames
    BY <1>7, MemoryTyped
  <2>2. \A j \in Dirs : TableOf(n, s, j) \in HeapFrames \ {s, p, d}
    BY <1>3, <1>14, MemoryTyped
  <2>3. \A i, j \in Dirs : i # j => TableOf(n, s, i) # TableOf(n, s, j)
    BY <1>5, <1>14
  <2> QED BY <1>7, <1>12, <2>1, <2>2, <2>3 DEF Space
<1>16. FramesOf(n, s) \subseteq m.free \ n.free
  <2>1. n.free = x.free \ {p}
    BY <1>6, <1>9, <1>11
  <2>2. Tables(n, s) = {TableOf(n, s, j) : j \in Dirs}
    BY DEF Tables, TableOf, Dirs
  <2>3. \A j \in Dirs : TableOf(n, s, j) \in m.free \ n.free
    BY <1>2, <1>3, <1>14, <2>1
  <2>4. {s, p, d} \subseteq m.free \ n.free
    BY <1>2, <1>3, <1>5, <1>6, <1>7, <2>1
  <2> QED BY <1>12, <2>2, <2>3, <2>4 DEF FramesOf
<1>17. ASSUME NEW page \in Pages
       PROVE  PageWord(n, s, page) = Word(page, flags)
  <2>1. DirIndex(page) \in Dirs /\ TableIndex(page) \in Entries
        /\ page = DirIndex(page) * PAGE_TABLE_ENTRIES + TableIndex(page)
    BY PageIndex
  <2>2. PageWord(n, s, page)
          = n.word[TableOf(n, s, DirIndex(page))][TableIndex(page)]
    BY DEF PageWord, Translate, TableOf, DirIndex, TableIndex
  <2>3. n.word[TableOf(n, s, DirIndex(page))] = Row(DirIndex(page), flags)
    BY <1>14, <2>1
  <2>4. Row(DirIndex(page), flags)[TableIndex(page)]
          = Word(DirIndex(page) * PAGE_TABLE_ENTRIES + TableIndex(page), flags)
    BY <2>1 DEF Row
  <2> QED BY <2>1, <2>2, <2>3, <2>4
<1>18. v.at \in m.free
  BY <1>2, <1>10
<1> QED BY <1>10, <1>15, <1>16, <1>17, <1>18 DEF Created, n, v
-----------------------------------------------------------------------------
(* Mappings in a space.                                                    *)
LEMMA FramesAre ==
  ASSUME NEW m, NEW s, Space(m, s)
  PROVE  /\ FramesOf(m, s) \subseteq HeapFrames
         /\ {s, pd_of(m, s), Directory(m, s)} \subseteq FramesOf(m, s)
         /\ Tables(m, s) \subseteq FramesOf(m, s)
         /\ Tables(m, s) = {TableOf(m, s, i) : i \in Dirs}
         /\ {s, pd_of(m, s), Directory(m, s)} \cap Tables(m, s) = {}
<1>1. Tables(m, s) = {TableOf(m, s, i) : i \in Dirs}
  BY DEF Tables, TableOf, Dirs
<1> QED BY <1>1 DEF FramesOf, Space

(* The space has the same structure in m and n.                            *)
SameSpace(m, n, s) ==
  /\ Space(n, s)
  /\ pd_of(n, s) = pd_of(m, s) /\ Directory(n, s) = Directory(m, s)
  /\ Tables(n, s) = Tables(m, s) /\ FramesOf(n, s) = FramesOf(m, s)
  /\ \A i \in Dirs : TableOf(n, s, i) = TableOf(m, s, i)

LEMMA SpaceSame ==
  ASSUME NEW m, NEW n, NEW s, Space(m, s),
         \A g \in {s, pd_of(m, s), Directory(m, s)} : n.word[g] = m.word[g]
  PROVE  SameSpace(m, n, s)
<1>1. n.word[s] = m.word[s] /\ n.word[pd_of(m, s)] = m.word[pd_of(m, s)]
      /\ n.word[Directory(m, s)] = m.word[Directory(m, s)]
  OBVIOUS
<1>2. pd_of(n, s) = pd_of(m, s)
  BY <1>1 DEF pd_of
<1>3. Directory(n, s) = Directory(m, s)
  BY <1>1, <1>2 DEF Directory, page_directory_entries
<1>4. \A i \in Dirs : TableOf(n, s, i) = TableOf(m, s, i)
  BY <1>1, <1>3 DEF TableOf
<1>5. Tables(n, s) = Tables(m, s)
  BY <1>1, <1>3 DEF Tables
<1>6. FramesOf(n, s) = FramesOf(m, s)
  BY <1>2, <1>3, <1>5 DEF FramesOf
<1>7. Space(n, s)
  BY <1>2, <1>3, <1>4 DEF Space
<1> QED BY <1>2, <1>3, <1>4, <1>5, <1>6, <1>7 DEF SameSpace

LEMMA PageWordAt ==
  ASSUME NEW m, NEW s, NEW v \in Pages
  PROVE  PageWord(m, s, v) = m.word[TableOf(m, s, DirIndex(v))][TableIndex(v)]
  BY DEF PageWord, Translate, TableOf, DirIndex, TableIndex

(* Memory that keeps the frames of a space keeps its translations.         *)
KeepsSpace(m, n, s) ==
  /\ SameSpace(m, n, s)
  /\ \A v \in Pages : PageWord(n, s, v) = PageWord(m, s, v)

LEMMA SpaceKept ==
  ASSUME NEW m, NEW n, NEW s, Space(m, s),
         \A g \in FramesOf(m, s) : n.word[g] = m.word[g]
  PROVE  KeepsSpace(m, n, s)
<1>1. SameSpace(m, n, s)
  BY FramesAre, SpaceSame
<1>2. ASSUME NEW v \in Pages PROVE PageWord(n, s, v) = PageWord(m, s, v)
  <2>1. DirIndex(v) \in Dirs
    BY PageIndex
  <2>2. TableOf(n, s, DirIndex(v)) = TableOf(m, s, DirIndex(v))
    BY <1>1, <2>1 DEF SameSpace
  <2>3. TableOf(m, s, DirIndex(v)) \in FramesOf(m, s)
    BY <2>1, FramesAre
  <2>4. n.word[TableOf(m, s, DirIndex(v))] = m.word[TableOf(m, s, DirIndex(v))]
    BY <2>3
  <2> QED BY <2>2, <2>4, PageWordAt
<1> QED BY <1>1, <1>2 DEF KeepsSpace

LEMMA PageWordTyped ==
  ASSUME NEW m \in Memories, NEW s, Space(m, s), NEW v \in Pages
  PROVE  PageWord(m, s, v) \in Words
<1>1. DirIndex(v) \in Dirs /\ TableIndex(v) \in Entries
  BY PageIndex
<1>2. TableOf(m, s, DirIndex(v)) \in Pages
  BY <1>1, PagesAre DEF Space
<1> QED BY <1>1, <1>2, MemoryTyped, PageWordAt

LEMMA AlignedPage ==
  ASSUME NEW a \in 0 .. (MemoryEnd - 1)
  PROVE  /\ PageOf(a) \in Pages
         /\ address_page_aligned(a) => a = Address(PageOf(a))
<1> DEFINE S == PAGE_SIZE
           N == PAGE_DIR_ENTRIES * PAGE_TABLE_ENTRIES
           q == a \div S
           r == a % S
<1>1. S \in Nat \ {0} /\ N \in Nat \ {0} /\ MemoryEnd = S * N
      /\ S * N \in Nat \ {0}
  BY EntrySizes, MulPositive DEF MemoryEnd
<1>2. a \in Nat /\ a < S * N
  BY <1>1
<1>3. q \in Nat /\ r \in 0 .. (S - 1) /\ a = S * q + r
  BY <1>1, <1>2, DivMod
<1>4. S * q = q * S /\ S * q \in Nat
  BY <1>1, <1>3
<1>5. q < N
  <2> SUFFICES ASSUME N <= q PROVE FALSE
    BY <1>1, <1>3
  <2>1. S * N <= S * q
    BY <1>1, <1>3, MulMono
  <2> HIDE DEF S, N, q, r
  <2> QED BY <1>1, <1>2, <1>3, <1>4, <2>1
<1>6. q \in Pages
  BY <1>1, <1>3, <1>5 DEF Pages
<1>7. r = 0 => a = q * S
  <2> HIDE DEF S, N, q, r
  <2> QED BY <1>3, <1>4
<1> QED BY <1>6, <1>7 DEF PageOf, Address, address_page_aligned

(* map_vaddr_to_val changes one translation of one space.                  *)
MapsPage(m, n, s, v, w) ==
  /\ n \in Memories /\ n.free = m.free
  /\ \A g \in Pages : g \notin Tables(m, s) => n.word[g] = m.word[g]
  /\ \A u \in Pages : PageWord(n, s, u) = IF u = v THEN w
                                          ELSE PageWord(m, s, u)

LEMMA MapOne ==
  ASSUME NEW m \in Memories, NEW s, Space(m, s), NEW v \in Pages,
         NEW w \in Words
  PROVE  MapsPage(m, map_vaddr_to_val(m, pd_of(m, s), Address(v), w), s, v, w)
<1> DEFINE t == TableOf(m, s, DirIndex(v))
           n == map_vaddr_to_val(m, pd_of(m, s), Address(v), w)
<1>1. /\ address_page_aligned(Address(v))
      /\ pd_index(Address(v)) = DirIndex(v)
      /\ pt_index(Address(v)) = TableIndex(v)
  BY AddressOfPage
<1>2. n = Write(m, t, TableIndex(v), w)
  BY <1>1 DEF map_vaddr_to_val, Write, TableOf, Directory
<1>3. DirIndex(v) \in Dirs /\ TableIndex(v) \in Entries
  BY PageIndex
<1>4. t \in Tables(m, s) /\ t \in Pages
  <2>1. Tables(m, s) = {TableOf(m, s, i) : i \in Dirs}
    BY FramesAre
  <2>2. t \in Tables(m, s)
    BY <1>3, <2>1
  <2> QED BY <2>2, FramesAre, PagesAre
<1> HIDE DEF t, n
<1>5. /\ n \in Memories /\ n.free = m.free
      /\ \A g \in Pages : g # t => n.word[g] = m.word[g]
      /\ \A g \in Pages : \A e \in Entries :
           n.word[g][e] = IF g = t /\ e = TableIndex(v) THEN w
                          ELSE m.word[g][e]
  BY <1>2, WriteFacts
<1>6. SameSpace(m, n, s)
  <2>1. \A g \in {s, pd_of(m, s), Directory(m, s)} : g \in Pages /\ g # t
    BY <1>4, FramesAre, PagesAre
  <2>2. \A g \in {s, pd_of(m, s), Directory(m, s)} : n.word[g] = m.word[g]
    BY <1>5, <2>1
  <2> QED BY <2>2, SpaceSame
<1>7. ASSUME NEW u \in Pages
      PROVE  PageWord(n, s, u) = IF u = v THEN w ELSE PageWord(m, s, u)
  <2> DEFINE x == TableOf(m, s, DirIndex(u))
  <2>1. DirIndex(u) \in Dirs /\ TableIndex(u) \in Entries
    BY PageIndex
  <2>2. TableOf(n, s, DirIndex(u)) = x /\ x \in Pages
    BY <1>6, <2>1, PagesAre DEF SameSpace, Space
  <2>3. x = t => DirIndex(u) = DirIndex(v)
    BY <1>3, <2>1 DEF Space, t
  <2>4. x = t /\ TableIndex(u) = TableIndex(v) <=> u = v
    BY <2>3, TwoPagesDiffer DEF t
  <2>5. n.word[x][TableIndex(u)] = IF x = t /\ TableIndex(u) = TableIndex(v)
                                   THEN w ELSE m.word[x][TableIndex(u)]
    BY <1>5, <2>1, <2>2
  <2> QED BY <2>2, <2>4, <2>5, PageWordAt
<1>8. \A g \in Pages : g \notin Tables(m, s) => n.word[g] = m.word[g]
  BY <1>4, <1>5
<1> QED BY <1>5, <1>7, <1>8 DEF MapsPage, n

(* Several translations change, to pairs of page and word in ok.           *)
Remapped(m, n, s, ok) ==
  /\ n \in Memories /\ n.free = m.free
  /\ \A g \in Pages : g \notin Tables(m, s) => n.word[g] = m.word[g]
  /\ \A u \in Pages : \/ PageWord(n, s, u) = PageWord(m, s, u)
                      \/ <<u, PageWord(n, s, u)>> \in ok

LEMMA RemappedSpace ==
  ASSUME NEW m, NEW n, NEW s, NEW ok, Space(m, s), Remapped(m, n, s, ok)
  PROVE  SameSpace(m, n, s)
<1>1. \A g \in {s, pd_of(m, s), Directory(m, s)} :
        g \in Pages /\ g \notin Tables(m, s)
  BY FramesAre, PagesAre
<1> QED BY <1>1, SpaceSame DEF Remapped

LEMMA RemappedTwice ==
  ASSUME NEW m, NEW n, NEW k, NEW s, NEW ok, Space(m, s),
         Remapped(m, n, s, ok), Remapped(n, k, s, ok)
  PROVE  Remapped(m, k, s, ok)
<1>1. Tables(n, s) = Tables(m, s)
  BY RemappedSpace DEF SameSpace
<1>2. ASSUME NEW u \in Pages
      PROVE  \/ PageWord(k, s, u) = PageWord(m, s, u)
             \/ <<u, PageWord(k, s, u)>> \in ok
  <2>1. \/ PageWord(n, s, u) = PageWord(m, s, u)
        \/ <<u, PageWord(n, s, u)>> \in ok
    BY DEF Remapped
  <2>2. \/ PageWord(k, s, u) = PageWord(n, s, u)
        \/ <<u, PageWord(k, s, u)>> \in ok
    BY DEF Remapped
  <2>3. PageWord(k, s, u) = PageWord(n, s, u) =>
          <<u, PageWord(k, s, u)>> = <<u, PageWord(n, s, u)>>
    OBVIOUS
  <2> QED BY <2>1, <2>2, <2>3
<1> QED BY <1>1, <1>2 DEF Remapped

LEMMA RemappedNot ==
  ASSUME NEW m \in Memories, NEW s, NEW ok PROVE Remapped(m, m, s, ok)
  BY DEF Remapped

(* One round of paging_map_range.                                          *)
LEMMA RoundMaps ==
  ASSUME NEW m \in Memories, NEW s, Space(m, s),
         NEW b \in 0 .. (MemoryEnd - 1), NEW w \in Words,
         address_page_aligned(b)
  PROVE  MapsPage(m, map_vaddr_to_val(m, pd_of(m, s), b, w), s, PageOf(b), w)
<1> DEFINE v == PageOf(b)
<1>1. v \in Pages /\ Address(v) = b
  BY AlignedPage
<1> HIDE DEF v
<1>2. MapsPage(m, map_vaddr_to_val(m, pd_of(m, s), Address(v), w), s, v, w)
  BY <1>1, MapOne
<1>3. MapsPage(m, map_vaddr_to_val(m, pd_of(m, s), b, w), s, v, w)
  BY <1>1, <1>2
<1> QED BY <1>3 DEF v

LEMMA MapRound ==
  ASSUME NEW m \in Memories, NEW s, Space(m, s), NEW a \in Nat,
         NEW w \in Words, NEW ok,
         address_page_aligned(a % MemoryEnd)
           => <<PageOf(a % MemoryEnd), w>> \in ok
  PROVE  Remapped(m, map_vaddr_to_val(m, pd_of(m, s), a % MemoryEnd, w), s, ok)
<1> DEFINE b == a % MemoryEnd
           n == map_vaddr_to_val(m, pd_of(m, s), b, w)
<1>1. b \in 0 .. (MemoryEnd - 1)
  <2>1. MemoryEnd \in Nat \ {0}
    BY EntrySizes, MulPositive DEF MemoryEnd
  <2> QED BY <2>1, DivMod
<1> HIDE DEF b
<1>2. CASE ~address_page_aligned(b)
  <2>1. n = m
    BY <1>2 DEF map_vaddr_to_val
  <2> QED BY <2>1, RemappedNot DEF b
<1>3. CASE address_page_aligned(b)
  <2>1. MapsPage(m, n, s, PageOf(b), w)
    BY <1>1, <1>3, RoundMaps
  <2> HIDE DEF n
  <2>2. <<PageOf(b), w>> \in ok
    BY <1>3 DEF b
  <2>3. Remapped(m, n, s, ok)
    BY <2>1, <2>2 DEF MapsPage, Remapped
  <2> QED BY <2>3 DEF n, b
<1> QED BY <1>2, <1>3

(* A recursive function whose rounds stay in M has its values in M,        *)
(* however it was chosen.                                                  *)
StaysIn(f, n, M) == \A i \in 0 .. n : f[i] \in M

LEMMA RecursionStays ==
  ASSUME NEW n \in Nat, NEW M, NEW x \in M, NEW F \in [1 .. n -> [M -> M]],
         NEW f, f[0] = x,
         \A i \in 1 .. n : f[i - 1] \in M => f[i] = F[i][f[i - 1]]
  PROVE  StaysIn(f, n, M)
<1> DEFINE S == {i \in 0 .. n : f[i] \in M}
<1>1. 0 \in S
  OBVIOUS
<1>2. ASSUME NEW i \in 1 .. n, i - 1 \in S PROVE i \in S
  <2>1. f[i - 1] \in M /\ i \in 0 .. n
    BY <1>2
  <2>2. F[i][f[i - 1]] \in M
    BY <2>1
  <2> QED BY <2>1, <2>2
<1> HIDE DEF S
<1>3. \A i \in 0 .. n : i \in S
  BY <1>1, <1>2, UpTo
<1> QED BY <1>3 DEF S, StaysIn

(* The words that paging_map_range writes.                                 *)
RangeAddress(vaddr, i) == (vaddr + (i - 1) * PAGE_SIZE) % MemoryEnd
RangeWord(paddr, i, flags) == Word(PageOf(paddr) + i - 1, flags)
RangeOk(vaddr, paddr, n, flags, ok) ==
  \A i \in 1 .. n :
    address_page_aligned(RangeAddress(vaddr, i)) =>
      <<PageOf(RangeAddress(vaddr, i)), RangeWord(paddr, i, flags)>> \in ok

(* paging_map_range, round by round.                                       *)
RangeRounds(f, m, s, vaddr, paddr, n, flags, ok) ==
  /\ f[0] = m
  /\ \A i \in 0 .. n : Remapped(m, f[i], s, ok)
  /\ \A i \in 1 .. n : f[i] = map_vaddr_to_val(f[i - 1], pd_of(f[i - 1], s),
                                RangeAddress(vaddr, i),
                                RangeWord(paddr, i, flags))
InRounds(r, m, s, vaddr, paddr, n, flags, ok) ==
  /\ n \in Nat
  /\ \E f : RangeRounds(f, m, s, vaddr, paddr, n, flags, ok) /\ r = f[n]

LEMMA RangeUnfold ==
  ASSUME NEW m \in Memories, NEW s, Space(m, s), NEW vaddr \in Nat,
         NEW paddr \in Nat, NEW endaddr \in Nat,
         NEW flags \in SUBSET KernelFlags, NEW ok,
         ~MapRangeFails(vaddr, paddr, endaddr),
         NEW n, n = (endaddr - paddr) \div PAGE_SIZE,
         RangeOk(vaddr, paddr, n, flags, ok)
  PROVE  InRounds(paging_map_range(m, s, vaddr, paddr, endaddr, flags),
                  m, s, vaddr, paddr, n, flags, ok)
<1> DEFINE Step(x, i) == map_vaddr_to_val(x, pd_of(x, s),
                           (vaddr + (i - 1) * PAGE_SIZE) % MemoryEnd,
                           Word(PageOf(paddr) + i - 1, flags))
           P(g) == g = [i \in 0 .. n |-> IF i = 0 THEN m
                                         ELSE Step(g[i - 1], i)]
           f == CHOOSE h : P(h)
           r == paging_map_range(m, s, vaddr, paddr, endaddr, flags)
<1>1. r = f[n]
  <2> DEFINE k == (endaddr - paddr) \div PAGE_SIZE
             Q(g) == g = [i \in 0 .. k |-> IF i = 0 THEN m
                                           ELSE Step(g[i - 1], i)]
             e == CHOOSE h : Q(h)
  <2>1. r = IF MapRangeFails(vaddr, paddr, endaddr) THEN m ELSE e[k]
    BY Zenon DEF paging_map_range
  <2>2. k = n
    OBVIOUS
  <2> HIDE DEF k, Step
  <2> QED BY <2>1, <2>2, Zenon
<1>2. PAGE_SIZE \in Nat \ {0} /\ endaddr - paddr \in Nat
  BY EntrySizes DEF MapRangeFails
<1>3. n \in Nat
  BY <1>2, DivMod
<1> DEFINE M == {x \in Memories : Remapped(m, x, s, ok)}
           F == [i \in 1 .. n |-> [x \in M |-> Step(x, i)]]
<1>4. m \in M
  BY RemappedNot
<1>5. ASSUME NEW i \in 1 .. n, NEW x \in M PROVE Step(x, i) \in M
  <2>1. x \in Memories /\ Remapped(m, x, s, ok)
    OBVIOUS
  <2>2. Space(x, s)
    BY <2>1, RemappedSpace DEF SameSpace
  <2> DEFINE a == vaddr + (i - 1) * PAGE_SIZE
             w == Word(PageOf(paddr) + i - 1, flags)
  <2>3. a \in Nat
    <3>1. i - 1 \in Nat
      BY <1>3
    <3>2. (i - 1) * PAGE_SIZE \in Nat
      BY <1>2, <3>1
    <3> QED BY <3>2
  <2>4. w \in Words
    <3>1. PageOf(paddr) \in Nat
      BY <1>2, DivMod DEF PageOf
    <3>2. PageOf(paddr) + i - 1 \in Nat
      BY <1>3, <3>1
    <3> QED BY <3>2, WordTyped
  <2>5. address_page_aligned(a % MemoryEnd)
          => <<PageOf(a % MemoryEnd), w>> \in ok
    BY DEF RangeOk, RangeAddress, RangeWord
  <2> HIDE DEF a, w
  <2>6. Remapped(x, map_vaddr_to_val(x, pd_of(x, s), a % MemoryEnd, w),
                 s, ok)
    BY <2>1, <2>2, <2>3, <2>4, <2>5, MapRound
  <2>7. Remapped(x, Step(x, i), s, ok)
    BY <2>6 DEF a, w
  <2> HIDE DEF Step
  <2>8. Remapped(m, Step(x, i), s, ok)
    BY <2>1, <2>7, RemappedTwice
  <2> QED BY <2>8 DEF Remapped
<1>6. \A x : \A i \in 1 .. n :
        Step(x, i) = map_vaddr_to_val(x, pd_of(x, s), RangeAddress(vaddr, i),
                                      RangeWord(paddr, i, flags))
  BY DEF RangeAddress, RangeWord
<1> HIDE DEF Step
<1>7. F \in [1 .. n -> [M -> M]]
  BY <1>5
<1>8. \A i \in 1 .. n : \A x \in M : F[i][x] = Step(x, i)
  OBVIOUS
<1> HIDE DEF M, F
<1>9. PICK g \in [0 .. n -> M] : IsRecursive(g, n, m, F)
  BY <1>3, <1>4, <1>7, RecursionExists
<1>10. P(g)
  <2>1. ASSUME NEW i \in 0 .. n
        PROVE  g[i] = IF i = 0 THEN m ELSE Step(g[i - 1], i)
    <3>1. g[i] = IF i = 0 THEN m ELSE F[i][g[i - 1]]
      BY <1>9 DEF IsRecursive
    <3>2. i # 0 => i \in 1 .. n /\ i - 1 \in 0 .. n
      BY <1>3
    <3>3. i # 0 => g[i - 1] \in M
      BY <3>2
    <3> QED BY <1>8, <3>1, <3>2, <3>3
  <2> QED BY <2>1
<1>11. P(f)
  <2> HIDE DEF P
  <2> QED BY <1>10
<1> HIDE DEF f
<1>12. \A i \in 0 .. n : f[i] = IF i = 0 THEN m ELSE Step(f[i - 1], i)
  BY <1>11, Zenon
<1>13. f[0] = m /\ \A i \in 1 .. n : f[i] = Step(f[i - 1], i)
  <2>1. 0 \in 0 .. n /\ \A i \in 1 .. n : i \in 0 .. n /\ i # 0
    BY <1>3
  <2> QED BY <1>12, <2>1
<1>14. \A i \in 1 .. n : f[i - 1] \in M => f[i] = F[i][f[i - 1]]
  BY <1>8, <1>13
<1>15. StaysIn(f, n, M)
  BY <1>3, <1>4, <1>7, <1>13, <1>14, RecursionStays
<1>16. RangeRounds(f, m, s, vaddr, paddr, n, flags, ok)
  <2>1. \A i \in 0 .. n : Remapped(m, f[i], s, ok)
    BY <1>15 DEF M, StaysIn
  <2> QED BY <1>6, <1>13, <2>1 DEF RangeRounds
<1> QED BY <1>1, <1>3, <1>16 DEF InRounds

LEMMA MapRange ==
  ASSUME NEW m \in Memories, NEW s, Space(m, s), NEW vaddr \in Nat,
         NEW paddr \in Nat, NEW endaddr \in Nat,
         NEW flags \in SUBSET KernelFlags, NEW ok,
         ~MapRangeFails(vaddr, paddr, endaddr) =>
           RangeOk(vaddr, paddr, (endaddr - paddr) \div PAGE_SIZE, flags, ok)
  PROVE  Remapped(m, paging_map_range(m, s, vaddr, paddr, endaddr, flags),
                  s, ok)
<1> DEFINE n == (endaddr - paddr) \div PAGE_SIZE
           r == paging_map_range(m, s, vaddr, paddr, endaddr, flags)
<1>1. CASE MapRangeFails(vaddr, paddr, endaddr)
  <2>1. r = m
    BY <1>1, Zenon DEF paging_map_range
  <2> QED BY <2>1, RemappedNot
<1>2. CASE ~MapRangeFails(vaddr, paddr, endaddr)
  <2>1. n = (endaddr - paddr) \div PAGE_SIZE
        /\ RangeOk(vaddr, paddr, n, flags, ok)
    BY <1>2
  <2> HIDE DEF n
  <2>2. InRounds(r, m, s, vaddr, paddr, n, flags, ok)
    BY <1>2, <2>1, RangeUnfold
  <2> HIDE DEF r
  <2>3. PICK f : RangeRounds(f, m, s, vaddr, paddr, n, flags, ok) /\ r = f[n]
    BY <2>2 DEF InRounds
  <2>4. Remapped(m, r, s, ok)
    <3>1. n \in 0 .. n
      BY <2>2 DEF InRounds
    <3> QED BY <2>3, <3>1 DEF RangeRounds
  <2> QED BY <2>4 DEF r
<1> QED BY <1>1, <1>2

(* ... and every page of the range is mapped.                              *)
LEMMA MapRangeAll ==
  ASSUME NEW m \in Memories, NEW s, Space(m, s), NEW vaddr \in Nat,
         NEW paddr \in Nat, NEW endaddr \in Nat,
         NEW flags \in SUBSET KernelFlags, NEW ok,
         ~MapRangeFails(vaddr, paddr, endaddr),
         NEW n, n = (endaddr - paddr) \div PAGE_SIZE,
         RangeOk(vaddr, paddr, n, flags, ok), NEW i \in 1 .. n,
         address_page_aligned(RangeAddress(vaddr, i))
  PROVE  LET u == PageOf(RangeAddress(vaddr, i))
             r == paging_map_range(m, s, vaddr, paddr, endaddr, flags)
         IN  <<u, PageWord(r, s, u)>> \in ok
<1> DEFINE b(j) == RangeAddress(vaddr, j)
           w(j) == RangeWord(paddr, j, flags)
           u == PageOf(b(i))
           r == paging_map_range(m, s, vaddr, paddr, endaddr, flags)
<1>1. InRounds(r, m, s, vaddr, paddr, n, flags, ok) /\ n \in Nat
  <2>1. InRounds(r, m, s, vaddr, paddr, n, flags, ok)
    BY RangeUnfold
  <2> QED BY <2>1 DEF InRounds
<1>2. PICK f : RangeRounds(f, m, s, vaddr, paddr, n, flags, ok) /\ r = f[n]
  <2> HIDE DEF r
  <2> QED BY <1>1 DEF InRounds
<1>3. ASSUME NEW j \in 1 .. n
      PROVE  b(j) \in 0 .. (MemoryEnd - 1) /\ w(j) \in Words
             /\ PageOf(b(j)) \in Pages
  <2>1. j \in Nat \ {0} /\ j - 1 \in Nat
    BY <1>1
  <2>2. (j - 1) * PAGE_SIZE \in Nat
    BY <2>1, EntrySizes
  <2> DEFINE a == vaddr + (j - 1) * PAGE_SIZE
  <2>3. a \in Nat /\ b(j) = a % MemoryEnd
    BY <2>2 DEF RangeAddress
  <2>4. MemoryEnd \in Nat \ {0}
    BY EntrySizes, MulPositive DEF MemoryEnd
  <2> HIDE DEF a, b, w
  <2>5. b(j) \in 0 .. (MemoryEnd - 1)
    BY <2>3, <2>4, DivMod
  <2>6. PageOf(b(j)) \in Pages
    BY <2>5, AlignedPage
  <2>7. w(j) \in Words
    <3>1. PageOf(paddr) \in Nat
      BY EntrySizes, DivMod DEF PageOf
    <3>2. PageOf(paddr) + j - 1 \in Nat
      BY <2>1, <3>1
    <3> QED BY <3>2, WordTyped DEF w, RangeWord
  <2> QED BY <2>5, <2>6, <2>7
<1>4. \A j \in 1 .. n :
        address_page_aligned(b(j)) => <<PageOf(b(j)), w(j)>> \in ok
  BY DEF RangeOk
<1>5. \A j \in 1 .. n : f[j] = map_vaddr_to_val(f[j - 1], pd_of(f[j - 1], s),
                                               b(j), w(j))
  BY <1>2 DEF RangeRounds
<1>6. \A j \in 0 .. n : f[j] \in Memories /\ Space(f[j], s)
  <2> TAKE j \in 0 .. n
  <2>1. Remapped(m, f[j], s, ok)
    BY <1>2 DEF RangeRounds
  <2>2. SameSpace(m, f[j], s)
    BY <2>1, RemappedSpace
  <2> QED BY <2>1, <2>2 DEF Remapped, SameSpace
<1>7. u \in Pages /\ address_page_aligned(b(i))
  BY <1>3
<1> DEFINE S == {j \in 0 .. n : i <= j => <<u, PageWord(f[j], s, u)>> \in ok}
<1>8. 0 \in S
  BY <1>1
<1> HIDE DEF b, w
<1>9. ASSUME NEW j \in 1 .. n, j - 1 \in S PROVE j \in S
  <2> SUFFICES ASSUME i <= j PROVE <<u, PageWord(f[j], s, u)>> \in ok
    BY <1>1
  <2>1. j - 1 \in 0 .. n /\ (i # j => i <= j - 1)
    BY <1>1
  <2>2. i # j => <<u, PageWord(f[j - 1], s, u)>> \in ok
    BY <1>9, <2>1
  <2> DEFINE x == f[j - 1]
             y == f[j]
  <2>3. x \in Memories /\ Space(x, s)
        /\ y = map_vaddr_to_val(x, pd_of(x, s), b(j), w(j))
    BY <1>5, <1>6, <2>1
  <2> HIDE DEF x, y
  <2>4. CASE ~address_page_aligned(b(j))
    <3>1. y = x
      BY <2>3, <2>4 DEF map_vaddr_to_val
    <3>2. i # j
      BY <1>7, <2>4
    <3> QED BY <2>2, <3>1, <3>2 DEF x, y
  <2>5. CASE address_page_aligned(b(j))
    <3>1. MapsPage(x, y, s, PageOf(b(j)), w(j))
      BY <1>3, <2>3, <2>5, RoundMaps
    <3>2. PageWord(y, s, u) = IF u = PageOf(b(j)) THEN w(j)
                              ELSE PageWord(x, s, u)
      BY <1>7, <3>1 DEF MapsPage
    <3>3. CASE u = PageOf(b(j))
      BY <1>4, <2>5, <3>2, <3>3 DEF y
    <3>4. CASE u # PageOf(b(j))
      <4>1. i # j
        BY <3>4
      <4> QED BY <2>2, <3>2, <3>4, <4>1 DEF x, y
    <3> QED BY <3>3, <3>4
  <2> QED BY <2>4, <2>5
<1> HIDE DEF S
<1>10. \A j \in 0 .. n : j \in S
  BY <1>1, <1>8, <1>9, UpTo
<1>11. n \in S /\ i <= n
  BY <1>1, <1>10
<1>12. <<u, PageWord(r, s, u)>> \in ok
  <2> HIDE DEF u, r
  <2> QED BY <1>2, <1>11 DEF S
<1> QED BY <1>12 DEF b
-----------------------------------------------------------------------------
(* Alignment.  Address is linear, and the rest is linear in it.            *)
LEMMA AddressLinear ==
  ASSUME NEW x \in Nat, NEW y \in Nat
  PROVE  /\ Address(x) \in Nat
         /\ Address(x + y) = Address(x) + Address(y)
         /\ x <= y => Address(x) <= Address(y)
         /\ x < y => Address(x) + PAGE_SIZE <= Address(y)
         /\ Address(1) = PAGE_SIZE /\ Address(0) = 0
         /\ Address(PAGE_DIR_ENTRIES * PAGE_TABLE_ENTRIES) = MemoryEnd
<1> DEFINE S == PAGE_SIZE
<1>1. S \in Nat \ {0} /\ PAGE_DIR_ENTRIES \in Nat /\ PAGE_TABLE_ENTRIES \in Nat
  BY EntrySizes
<1>2. x * S \in Nat /\ (x + y) * S = x * S + y * S
  BY <1>1
<1>3. x <= y => x * S <= y * S
  BY <1>1, MulMono
<1>4. x < y => x * S + S <= y * S
  <2> SUFFICES ASSUME x < y PROVE x * S + S <= y * S
    OBVIOUS
  <2>1. S * (x + 1) <= S * y
    BY <1>1, MulMono
  <2>2. S * (x + 1) = x * S + S /\ S * y = y * S
    BY <1>1
  <2> HIDE DEF S
  <2> QED BY <2>1, <2>2
<1>5. 1 * S = S /\ 0 * S = 0
  BY <1>1
<1>6. (PAGE_DIR_ENTRIES * PAGE_TABLE_ENTRIES) * S
        = S * PAGE_DIR_ENTRIES * PAGE_TABLE_ENTRIES
  BY <1>1
<1> QED BY <1>2, <1>3, <1>4, <1>5, <1>6 DEF Address, MemoryEnd

LEMMA PageSplit ==
  ASSUME NEW a \in Nat
  PROVE  /\ PageOf(a) \in Nat /\ a % PAGE_SIZE \in 0 .. (PAGE_SIZE - 1)
         /\ a = Address(PageOf(a)) + (a % PAGE_SIZE)
<1> DEFINE S == PAGE_SIZE
           q == a \div S
<1>1. S \in Nat \ {0}
  BY EntrySizes
<1>2. q \in Nat /\ a % S \in 0 .. (S - 1) /\ a = S * q + (a % S)
  BY <1>1, DivMod
<1>3. S * q = q * S
  BY <1>1, <1>2
<1> QED BY <1>2, <1>3 DEF PageOf, Address

LEMMA PageJoin ==
  ASSUME NEW x \in Nat, NEW r \in 0 .. (PAGE_SIZE - 1)
  PROVE  /\ PageOf(Address(x) + r) = x
         /\ (Address(x) + r) % PAGE_SIZE = r
<1> DEFINE S == PAGE_SIZE
<1>1. S \in Nat \ {0} /\ S * x = x * S
  BY EntrySizes
<1>2. (S * x + r) \div S = x /\ (S * x + r) % S = r
  BY <1>1, DivUnique
<1> QED BY <1>1, <1>2 DEF PageOf, Address

LEMMA PageOfAddress ==
  ASSUME NEW x \in Nat
  PROVE  PageOf(Address(x)) = x /\ address_page_aligned(Address(x))
<1>1. Address(x) + 0 = Address(x) /\ 0 \in 0 .. (PAGE_SIZE - 1)
  BY AddressLinear, EntrySizes
<1> QED BY <1>1, PageJoin DEF address_page_aligned

LEMMA Ceil ==
  ASSUME NEW a \in Nat
  PROVE  /\ Blocks(a) \in Nat
         /\ a <= Address(Blocks(a)) /\ Address(Blocks(a)) < a + PAGE_SIZE
<1> DEFINE S == PAGE_SIZE
           b == a + S - 1
<1>1. S \in Nat \ {0} /\ b \in Nat
  BY EntrySizes
<1>2. Blocks(a) = PageOf(b)
  BY DEF Blocks, PageOf
<1>3. PageOf(b) \in Nat /\ b % S \in 0 .. (S - 1)
      /\ b = Address(PageOf(b)) + (b % S)
  <2> HIDE DEF b
  <2> QED BY <1>1, PageSplit
<1>4. Address(PageOf(b)) \in Nat
  BY <1>3, AddressLinear
<1> QED BY <1>1, <1>2, <1>3, <1>4

LEMMA CeilUnique ==
  ASSUME NEW a \in Nat, NEW k \in Nat, a <= Address(k),
         Address(k) < a + PAGE_SIZE
  PROVE  Blocks(a) = k
<1> DEFINE b == Blocks(a)
<1>1. b \in Nat /\ a <= Address(b) /\ Address(b) < a + PAGE_SIZE
  BY Ceil
<1> HIDE DEF b
<1>2. Address(b) \in Nat /\ Address(k) \in Nat /\ PAGE_SIZE \in Nat
  BY <1>1, AddressLinear, EntrySizes
<1>3. ~(b < k)
  <2>1. b < k => Address(b) + PAGE_SIZE <= Address(k)
    BY <1>1, AddressLinear
  <2> QED BY <1>1, <1>2, <2>1
<1>4. ~(k < b)
  <2>1. k < b => Address(k) + PAGE_SIZE <= Address(b)
    BY <1>1, AddressLinear
  <2> QED BY <1>1, <1>2, <2>1
<1> QED BY <1>1, <1>3, <1>4 DEF b

LEMMA CeilShift ==
  ASSUME NEW k \in Nat, NEW a \in Nat
  PROVE  Blocks(Address(k) + a) = k + Blocks(a)
<1> DEFINE b == Blocks(a)
<1>1. b \in Nat /\ a <= Address(b) /\ Address(b) < a + PAGE_SIZE
  BY Ceil
<1> HIDE DEF b
<1>2. Address(k + b) = Address(k) + Address(b) /\ Address(k) \in Nat
      /\ Address(b) \in Nat
  BY <1>1, AddressLinear
<1>3. Blocks(Address(k) + a) = k + b
  <2> DEFINE c == Address(k) + a
             j == k + b
  <2>1. c \in Nat /\ j \in Nat /\ c <= Address(j)
        /\ Address(j) < c + PAGE_SIZE
    BY <1>1, <1>2, EntrySizes
  <2> HIDE DEF c, j
  <2>2. Blocks(c) = j
    BY <2>1, CeilUnique
  <2> QED BY <2>2 DEF c, j
<1> QED BY <1>3 DEF b

LEMMA CeilBound ==
  ASSUME NEW a \in Nat, NEW k \in Nat, a <= Address(k)
  PROVE  Blocks(a) <= k
<1> DEFINE b == Blocks(a)
<1>1. b \in Nat /\ Address(b) < a + PAGE_SIZE
  BY Ceil
<1> HIDE DEF b
<1>2. k < b => Address(k) + PAGE_SIZE <= Address(b)
  BY <1>1, AddressLinear
<1>3. Address(k) \in Nat /\ Address(b) \in Nat /\ PAGE_SIZE \in Nat
  BY <1>1, AddressLinear, EntrySizes
<1>4. b <= k
  BY <1>1, <1>2, <1>3
<1> QED BY <1>4 DEF b

LEMMA AlignLower ==
  ASSUME NEW a \in Nat
  PROVE  paging_align_to_page_lower(a) = Address(PageOf(a))
<1>1. /\ PageOf(a) \in Nat /\ a % PAGE_SIZE \in 0 .. (PAGE_SIZE - 1)
      /\ a = Address(PageOf(a)) + (a % PAGE_SIZE)
  BY PageSplit
<1>2. Address(PageOf(a)) \in Nat /\ a % PAGE_SIZE \in Nat
  BY <1>1, AddressLinear, EntrySizes
<1> DEFINE A == Address(PageOf(a))
           r == a % PAGE_SIZE
<1>3. paging_align_to_page_lower(a) = IF r = 0 THEN a ELSE a - r
  BY DEF paging_align_to_page_lower, address_page_aligned
<1>4. A \in Nat /\ r \in Nat /\ a = A + r
  BY <1>1, <1>2
<1> HIDE DEF A, r
<1>5. paging_align_to_page_lower(a) = A
  BY <1>3, <1>4
<1> QED BY <1>5 DEF A

LEMMA MemoryEndIs ==
  /\ MemoryEnd \in Nat \ {0}
  /\ \A a \in Nat : /\ a % MemoryEnd \in Nat
                    /\ a < MemoryEnd => a % MemoryEnd = a
  /\ MemoryEnd % MemoryEnd = 0
<1>1. MemoryEnd \in Nat \ {0}
  BY EntrySizes, MulPositive DEF MemoryEnd
<1>2. ASSUME NEW a \in Nat
      PROVE  /\ a % MemoryEnd \in Nat
             /\ a < MemoryEnd => a % MemoryEnd = a
  <2>1. a % MemoryEnd \in Nat
    BY <1>1, DivMod
  <2>2. a < MemoryEnd => a % MemoryEnd = a
    BY <1>1
  <2> QED BY <2>1, <2>2
<1>3. MemoryEnd % MemoryEnd = 0
  BY <1>1
<1> QED BY <1>1, <1>2, <1>3

LEMMA AlignUpper ==
  ASSUME NEW a \in Nat
  PROVE  /\ paging_align_to_page_upper(a) \in Nat
         /\ a <= MemoryEnd =>
              paging_align_to_page_upper(a) \in {Address(Blocks(a)), 0}
<1> DEFINE A == Address(PageOf(a))
           r == a % PAGE_SIZE
           N == PAGE_DIR_ENTRIES * PAGE_TABLE_ENTRIES
           k == PageOf(a)
           u == paging_align_to_page_upper(a)
<1>1. k \in Nat /\ r \in 0 .. (PAGE_SIZE - 1) /\ a = A + r
  BY PageSplit
<1>2. A \in Nat /\ r \in Nat /\ PAGE_SIZE \in Nat \ {0} /\ N \in Nat
  BY <1>1, AddressLinear, EntrySizes
<1>3. u = IF r = 0 THEN a ELSE (a - r + PAGE_SIZE) % MemoryEnd
  BY DEF paging_align_to_page_upper, address_page_aligned
<1>4. Address(k + 1) = A + PAGE_SIZE /\ Address(N) = MemoryEnd
  BY <1>1, AddressLinear
<1>5. k < N => Address(k + 1) <= MemoryEnd
  <2>1. k < N => A + PAGE_SIZE <= Address(N)
    BY <1>1, <1>2, AddressLinear
  <2> QED BY <1>4, <2>1
<1>6. ~(k < N) => MemoryEnd <= A
  <2>1. N <= k => Address(N) <= A
    BY <1>1, <1>2, AddressLinear
  <2> QED BY <1>1, <1>2, <1>4, <2>1
<1>7. r = 0 => Blocks(a) = k
  <2>1. r = 0 => a <= Address(k) /\ Address(k) < a + PAGE_SIZE
    <3> HIDE DEF r
    <3> QED BY <1>1, <1>2
  <2> HIDE DEF k, r
  <2> QED BY <1>1, <2>1, CeilUnique
<1>8. r # 0 => Blocks(a) = k + 1
  <2> HIDE DEF r, k
  <2>1. r # 0 => a <= Address(k + 1) /\ Address(k + 1) < a + PAGE_SIZE
    BY <1>1, <1>2, <1>4
  <2>2. k + 1 \in Nat
    BY <1>1
  <2> QED BY <2>1, <2>2, CeilUnique
<1>9. MemoryEnd \in Nat \ {0}
  BY MemoryEndIs
<1> HIDE DEF A, r, N, k
<1>10. CASE r = 0
  <2>1. u = a /\ a = A
    BY <1>1, <1>2, <1>3, <1>10
  <2> QED BY <1>7, <1>10, <2>1 DEF A, k
<1>11. CASE r # 0
  <2> DEFINE b == A + PAGE_SIZE
  <2>1. a - r + PAGE_SIZE = b /\ b \in Nat
    BY <1>1, <1>2
  <2>2. u = b % MemoryEnd
    BY <1>3, <1>11, <2>1
  <2>3. a <= MemoryEnd => b <= MemoryEnd
    BY <1>1, <1>2, <1>4, <1>5, <1>6, <1>9, <1>11
  <2>4. b = Address(Blocks(a))
    BY <1>4, <1>8, <1>11
  <2> HIDE DEF b
  <2>5. u \in Nat /\ (b < MemoryEnd => u = b) /\ (b = MemoryEnd => u = 0)
    BY <2>1, <2>2, MemoryEndIs
  <2> QED BY <1>9, <2>1, <2>3, <2>4, <2>5
<1> QED BY <1>10, <1>11
-----------------------------------------------------------------------------
(* What a process may have in its tables, if programs are in user memory.  *)
Allowed(q) == {z \in Pages \X Words : UserMemory => Fine(q, z[1], z[2])}

LEMMA AddressBound ==
  ASSUME NEW v \in Pages
  PROVE  Address(v) < MemoryEnd /\ Address(v) % MemoryEnd = Address(v)
<1> DEFINE N == PAGE_DIR_ENTRIES * PAGE_TABLE_ENTRIES
<1>1. v \in Nat /\ N \in Nat \ {0} /\ v < N
  BY EntrySizes DEF Pages
<1>2. Address(v) + PAGE_SIZE <= MemoryEnd /\ Address(v) \in Nat
  <2> HIDE DEF N
  <2>1. Address(v) + PAGE_SIZE <= Address(N) /\ Address(v) \in Nat
    BY <1>1, AddressLinear
  <2>2. Address(N) = MemoryEnd
    BY AddressLinear DEF N
  <2> QED BY <2>1, <2>2
<1>3. Address(v) < MemoryEnd
  BY <1>2, EntrySizes, MemoryEndIs
<1> QED BY <1>2, <1>3, MemoryEndIs

LEMMA RangeTyped ==
  ASSUME NEW vaddr \in Nat, NEW paddr \in Nat, NEW i \in Nat \ {0},
         NEW flags \in SUBSET KernelFlags
  PROVE  /\ PageOf(RangeAddress(vaddr, i)) \in Pages
         /\ RangeWord(paddr, i, flags) \in Words
<1> DEFINE j == (i - 1) * PAGE_SIZE
<1>1. i - 1 \in Nat /\ j \in Nat
  BY EntrySizes
<1>2. vaddr + j \in Nat
  BY <1>1
<1>3. (vaddr + j) % MemoryEnd \in 0 .. (MemoryEnd - 1)
  <2> HIDE DEF j
  <2> QED BY <1>2, MemoryEndIs, DivMod
<1>4. PageOf(paddr) + i - 1 \in Nat
  <2>1. PageOf(paddr) \in Nat
    BY PageSplit
  <2> QED BY <1>1, <2>1
<1>5. PageOf((vaddr + j) % MemoryEnd) \in Pages
  <2> HIDE DEF j
  <2> QED BY <1>3, AlignedPage
<1> QED BY <1>4, <1>5, WordTyped DEF RangeAddress, RangeWord

(* The pages of a range, one by one.                                       *)
LEMMA RangePage ==
  ASSUME NEW V \in Nat, NEW P \in Nat, NEW i \in Nat \ {0}, NEW flags,
         V + (i - 1) \in Pages
  PROVE  /\ address_page_aligned(RangeAddress(Address(V), i))
         /\ PageOf(RangeAddress(Address(V), i)) = V + (i - 1)
         /\ RangeWord(Address(P), i, flags) = Word(P + (i - 1), flags)
<1> DEFINE x == V + (i - 1)
<1>1. Address(V) + (i - 1) * PAGE_SIZE = Address(x)
  <2>1. i - 1 \in Nat
    OBVIOUS
  <2>2. Address(V + (i - 1)) = Address(V) + Address(i - 1)
    BY <2>1, AddressLinear
  <2> QED BY <2>2 DEF Address
<1>2. x \in Pages /\ x \in Nat
  OBVIOUS
<1> HIDE DEF x
<1>3. Address(x) % MemoryEnd = Address(x) /\ PageOf(Address(x)) = x
      /\ address_page_aligned(Address(x))
  BY <1>2, AddressBound, PageOfAddress
<1>4. RangeAddress(Address(V), i) = Address(x)
  BY <1>1, <1>3 DEF RangeAddress
<1>5. RangeWord(Address(P), i, flags) = Word(P + (i - 1), flags)
  <2>1. PageOf(Address(P)) = P /\ P + i - 1 = P + (i - 1)
    BY PageOfAddress
  <2> QED BY <2>1 DEF RangeWord
<1> QED BY <1>3, <1>4, <1>5 DEF x

LEMMA RangeAllowed ==
  ASSUME NEW q, NEW vaddr \in Nat, NEW P \in Nat, NEW n \in Nat,
         NEW flags \in SUBSET KernelFlags,
         address_page_aligned(vaddr),
         UserMemory => PagesFrom(PageOf(vaddr), n) \subseteq UserPages,
         Contained(q) /\ "WRITE" \in flags =>
           Segment(P, n) \subseteq Program(q)
  PROVE  RangeOk(vaddr, Address(P), n, flags, Allowed(q))
<1> SUFFICES ASSUME NEW i \in 1 .. n
             PROVE  <<PageOf(RangeAddress(vaddr, i)),
                      RangeWord(Address(P), i, flags)>> \in Allowed(q)
  BY DEF RangeOk
<1> DEFINE u == PageOf(RangeAddress(vaddr, i))
           w == RangeWord(Address(P), i, flags)
           V == PageOf(vaddr)
<1>1. u \in Pages /\ w \in Words
  <2>1. Address(P) \in Nat
    BY AddressLinear
  <2>2. i \in Nat \ {0}
    OBVIOUS
  <2> QED BY <2>1, <2>2, RangeTyped
<1>2. ASSUME UserMemory PROVE Fine(q, u, w)
  <2>1. V \in Nat /\ vaddr = Address(V)
    <3>1. V \in Nat /\ vaddr = Address(V) + (vaddr % PAGE_SIZE)
          /\ vaddr % PAGE_SIZE = 0 /\ Address(V) \in Nat
      BY PageSplit, AddressLinear DEF address_page_aligned
    <3> QED BY <3>1
  <2>2. i - 1 \in Nat /\ V + (i - 1) \in V .. (V + n - 1)
        /\ P + i - 1 \in P .. (P + n - 1)
    BY <2>1
  <2>3. /\ V + (i - 1) \in UserPages
        /\ Contained(q) /\ "WRITE" \in flags => P + i - 1 \in Program(q)
    BY <1>2, <2>2 DEF PagesFrom, Segment
  <2>4. u = V + (i - 1) /\ w.frame = P + i - 1 /\ w.flags = flags
    <3>1. V + (i - 1) \in Pages /\ i \in Nat \ {0}
      BY <2>3 DEF UserPages
    <3> HIDE DEF V
    <3>2. PageOf(RangeAddress(Address(V), i)) = V + (i - 1)
          /\ RangeWord(Address(P), i, flags) = Word(P + (i - 1), flags)
      BY <2>1, <3>1, RangePage
    <3> QED BY <2>1, <3>2 DEF Word
  <2> HIDE DEF u, w
  <2> QED BY <2>3, <2>4 DEF Fine, UserPages
<1> HIDE DEF u, w
<1>3. <<u, w>> \in Allowed(q)
  BY <1>1, <1>2 DEF Allowed
<1> QED BY <1>3 DEF u, w

(* Where nothing is known, only types matter.                              *)
LEMMA RangeUnknown ==
  ASSUME NEW q, NEW vaddr \in Nat, NEW paddr \in Nat, NEW n,
         NEW flags \in SUBSET KernelFlags, ~UserMemory
  PROVE  RangeOk(vaddr, paddr, n, flags, Allowed(q))
<1> SUFFICES ASSUME NEW i \in 1 .. n
             PROVE  <<PageOf(RangeAddress(vaddr, i)),
                      RangeWord(paddr, i, flags)>> \in Allowed(q)
  BY DEF RangeOk
<1> DEFINE u == PageOf(RangeAddress(vaddr, i))
           w == RangeWord(paddr, i, flags)
<1>1. u \in Pages /\ w \in Words
  <2>1. i \in Nat \ {0}
    OBVIOUS
  <2> QED BY <2>1, RangeTyped
<1> HIDE DEF u, w
<1>2. <<u, w>> \in Allowed(q)
  BY <1>1 DEF Allowed
<1> QED BY <1>2 DEF u, w

(* A range of k pages up to an end that was aligned.                       *)
LEMMA RangeLength ==
  ASSUME NEW P \in Nat \ {0}, NEW k \in Nat, NEW vaddr \in Nat,
         NEW e \in {Address(P + k), 0},
         ~MapRangeFails(vaddr, Address(P), e)
  PROVE  /\ address_page_aligned(vaddr)
         /\ (e - Address(P)) \div PAGE_SIZE = k
<1>1. address_page_aligned(vaddr) /\ ~(e < Address(P))
  BY DEF MapRangeFails
<1>2. Address(P + k) = Address(P) + Address(k) /\ Address(P) \in Nat
      /\ Address(k) \in Nat
  BY AddressLinear
<1>3. Address(P) > 0
  <2>1. Address(0) + PAGE_SIZE <= Address(P) /\ Address(0) = 0
    <3>1. 0 \in Nat /\ P \in Nat /\ 0 < P
      OBVIOUS
    <3> QED BY <3>1, AddressLinear
  <2> QED BY <1>2, <2>1, EntrySizes
<1>4. e - Address(P) = Address(k)
  BY <1>1, <1>2, <1>3
<1>5. PageOf(Address(k)) = k
  BY PageOfAddress
<1> QED BY <1>1, <1>4, <1>5 DEF PageOf

(* A region with the K blocks for its size.                                *)
RegionEndOf(P, size) == paging_align_to_page_upper((Address(P) + size) % MemoryEnd)

LEMMA RegionTyped ==
  ASSUME NEW P \in Nat, NEW size \in Nat
  PROVE  RegionEndOf(P, size) \in Nat
<1> DEFINE a == Address(P) + size
<1>1. a \in Nat
  BY AddressLinear
<1> HIDE DEF a
<1>2. a % MemoryEnd \in Nat
  BY <1>1, MemoryEndIs
<1>3. paging_align_to_page_upper(a % MemoryEnd) \in Nat
  BY <1>2, AlignUpper
<1> QED BY <1>3 DEF RegionEndOf, a

LEMMA RegionLength ==
  ASSUME NEW vaddr \in Nat, NEW P \in Nat \ {0}, NEW size \in Nat,
         NEW K \in Nat, size <= Address(K),
         P + K <= PAGE_DIR_ENTRIES * PAGE_TABLE_ENTRIES,
         ~MapRangeFails(vaddr, Address(P), RegionEndOf(P, size))
  PROVE  /\ Blocks(size) \in Nat /\ Blocks(size) <= K
         /\ address_page_aligned(vaddr)
         /\ (RegionEndOf(P, size) - Address(P)) \div PAGE_SIZE = Blocks(size)
<1> DEFINE k == Blocks(size)
           N == PAGE_DIR_ENTRIES * PAGE_TABLE_ENTRIES
           a == Address(P) + size
           e == RegionEndOf(P, size)
<1>1. k \in Nat /\ k <= K
  BY Ceil, CeilBound
<1>2. Address(P) \in Nat /\ Address(P + K) = Address(P) + Address(K)
      /\ Address(K) \in Nat /\ N \in Nat /\ Address(N) = MemoryEnd
  BY AddressLinear, EntrySizes
<1>3. Address(P + K) <= MemoryEnd
  <2> HIDE DEF N
  <2>1. P + K \in Nat /\ P + K <= N
    BY DEF N
  <2> QED BY <1>2, <2>1, AddressLinear
<1>4. a \in Nat /\ a <= MemoryEnd
  BY <1>2, <1>3, MemoryEndIs
<1>5. Blocks(a) = P + k
  BY CeilShift
<1>6. e = paging_align_to_page_upper(a % MemoryEnd)
      /\ ~MapRangeFails(vaddr, Address(P), e)
  BY DEF RegionEndOf
<1> HIDE DEF a, k, e
<1>7. e \in {Address(P + k), 0}
  <2>1. CASE a < MemoryEnd
    <3>1. a % MemoryEnd = a
      BY <1>4, <2>1, MemoryEndIs
    <3> QED BY <1>4, <1>5, <1>6, <3>1, AlignUpper
  <2>2. CASE a = MemoryEnd
    <3>1. a % MemoryEnd = 0
      BY <2>2, MemoryEndIs
    <3>2. paging_align_to_page_upper(0) = 0
      BY EntrySizes DEF paging_align_to_page_upper, address_page_aligned
    <3> QED BY <1>6, <3>1, <3>2
  <2> QED BY <1>4, <2>1, <2>2, MemoryEndIs
<1>8. address_page_aligned(vaddr) /\ (e - Address(P)) \div PAGE_SIZE = k
  BY <1>1, <1>6, <1>7, RangeLength
<1> QED BY <1>1, <1>8 DEF e, k

LEMMA RegionAllowed ==
  ASSUME NEW q, NEW vaddr \in Nat, NEW P \in Nat \ {0}, NEW size \in Nat,
         NEW K \in Nat, size <= Address(K),
         P + K <= PAGE_DIR_ENTRIES * PAGE_TABLE_ENTRIES,
         Segment(P, K) \subseteq Program(q),
         NEW flags \in SUBSET KernelFlags,
         UserMemory => PagesFrom(PageOf(vaddr), Blocks(size))
                         \subseteq UserPages,
         ~MapRangeFails(vaddr, Address(P), RegionEndOf(P, size))
  PROVE  RangeOk(vaddr, Address(P),
                 (RegionEndOf(P, size) - Address(P)) \div PAGE_SIZE, flags,
                 Allowed(q))
<1> DEFINE k == Blocks(size)
<1>1. /\ k \in Nat /\ k <= K /\ address_page_aligned(vaddr)
      /\ (RegionEndOf(P, size) - Address(P)) \div PAGE_SIZE = k
  BY RegionLength
<1> HIDE DEF k
<1>2. Segment(P, k) \subseteq Program(q)
  BY <1>1 DEF Segment
<1>3. RangeOk(vaddr, Address(P), k, flags, Allowed(q))
  BY <1>1, <1>2, RangeAllowed DEF k
<1> QED BY <1>1, <1>3

(* A process with the memory of its file and of its stack.                 *)
Backed(q) ==
  /\ q.file \in Files
  /\ q.data \in HeapFrames
  /\ Segment(q.data, Blocks(q.file.size)) \subseteq HeapFrames
  /\ q.stack \in HeapFrames
  /\ Segment(q.stack, StackBlocks) \subseteq HeapFrames

LEMMA SegmentEnd ==
  ASSUME NEW P \in HeapFrames, NEW K \in Nat, Segment(P, K) \subseteq HeapFrames
  PROVE  /\ P \in Nat \ {0}
         /\ P + K <= PAGE_DIR_ENTRIES * PAGE_TABLE_ENTRIES
<1> DEFINE N == PAGE_DIR_ENTRIES * PAGE_TABLE_ENTRIES
<1>1. P \in Nat \ {0} /\ P \in Pages /\ N \in Nat
  BY PagesAre, EntrySizes
<1>2. P < N /\ (K # 0 => P + K - 1 \in Segment(P, K))
  BY <1>1 DEF Pages, Segment
<1>3. K # 0 => P + K - 1 < N
  <2>1. K # 0 => P + K - 1 \in Pages
    BY <1>2, PagesAre
  <2> QED BY <1>1, <2>1 DEF Pages
<1> HIDE DEF N
<1>4. P + K <= N
  BY <1>1, <1>2, <1>3
<1> QED BY <1>1, <1>4 DEF N

LEMMA FileTyped ==
  ASSUME NEW f \in Files
  PROVE  /\ f.size \in Nat /\ Blocks(f.size) \in Nat
         /\ Len(f.phdrs) \in Nat /\ DOMAIN f.phdrs = 1 .. Len(f.phdrs)
         /\ \A i \in DOMAIN f.phdrs :
              LET h == f.phdrs[i]
              IN  /\ h.p_vaddr \in Nat /\ h.p_offset \in Nat
                  /\ h.p_memsz \in Nat
<1>1. f.size \in Nat /\ f.phdrs \in Seq(Phdrs)
  BY AddressSpaceAssumption
<1>2. \A i \in DOMAIN f.phdrs : f.phdrs[i] \in Phdrs
  BY <1>1
<1>3. Len(f.phdrs) \in Nat /\ DOMAIN f.phdrs = 1 .. Len(f.phdrs)
  BY <1>1
<1>4. Blocks(f.size) \in Nat
  BY <1>1, Ceil
<1> QED BY <1>1, <1>2, <1>3, <1>4 DEF Phdrs

(* The range of a program header.                                          *)
HeaderOk(q, h, ok) ==
  /\ MapVaddr(h) \in Nat /\ MapPaddr(q, h) \in Nat /\ MapEnd(q, h) \in Nat
  /\ MapFlags(h) \in SUBSET KernelFlags
  /\ ~MapRangeFails(MapVaddr(h), MapPaddr(q, h), MapEnd(q, h)) =>
       RangeOk(MapVaddr(h), MapPaddr(q, h),
               (MapEnd(q, h) - MapPaddr(q, h)) \div PAGE_SIZE, MapFlags(h), ok)

(* ... begins in the page of the segment and of its data, and has k pages. *)
HeaderMaps(q, h, k) ==
  LET P == q.data + PageOf(h.p_offset)
  IN  /\ k \in Nat /\ P \in Nat \ {0} /\ PageOf(h.p_vaddr) \in Nat
      /\ MapVaddr(h) = Address(PageOf(h.p_vaddr))
      /\ MapPaddr(q, h) = Address(P)
      /\ (MapEnd(q, h) - MapPaddr(q, h)) \div PAGE_SIZE = k
      /\ Blocks(h.p_vaddr + h.p_memsz) = PageOf(h.p_vaddr) + k
      /\ h.p_offset + h.p_memsz <= Blocks(q.file.size) * PAGE_SIZE =>
           P + k <= q.data + Blocks(q.file.size)

LEMMA HeaderTyped ==
  ASSUME NEW q, Backed(q), NEW i \in DOMAIN q.file.phdrs
  PROVE  LET h == q.file.phdrs[i]
         IN  /\ MapVaddr(h) \in Nat /\ MapPaddr(q, h) \in Nat
             /\ MapEnd(q, h) \in Nat /\ MapFlags(h) \in SUBSET KernelFlags
<1> DEFINE h == q.file.phdrs[i]
           a == SegmentStart(q, h)
           V == PageOf(h.p_vaddr)
           P == PageOf(a)
           end == a + h.p_memsz
<1>1. h.p_offset \in Nat /\ h.p_memsz \in Nat /\ h.p_vaddr \in Nat
  BY FileTyped DEF Backed
<1>2. q.data \in Nat
  BY PagesAre DEF Backed
<1>3. a \in Nat /\ end \in Nat
  <2>1. Address(q.data) \in Nat
    BY <1>2, AddressLinear
  <2>2. Address(q.data) + h.p_offset \in Nat
    BY <1>1, <2>1
  <2>3. a \in Nat
    BY <2>2, MemoryEndIs DEF SegmentStart
  <2> QED BY <1>1, <2>3
<1>4. MapVaddr(h) = Address(V) /\ V \in Nat /\ Address(V) \in Nat
  BY <1>1, AlignLower, PageSplit, AddressLinear DEF MapVaddr
<1>5. MapPaddr(q, h) = Address(P) /\ P \in Nat /\ Address(P) \in Nat
  <2> HIDE DEF a
  <2>1. MapPaddr(q, h) = paging_align_to_page_lower(a)
    BY DEF MapPaddr, a
  <2> QED BY <1>3, <2>1, AlignLower, PageSplit, AddressLinear
<1>6. MapEnd(q, h) = paging_align_to_page_upper(end % MemoryEnd)
  BY DEF MapEnd
<1>7. MapEnd(q, h) \in Nat
  <2> HIDE DEF end
  <2>1. end % MemoryEnd \in Nat
    BY <1>3, MemoryEndIs
  <2> QED BY <1>6, <2>1, AlignUpper
<1>8. MapFlags(h) \in SUBSET KernelFlags
  BY DEF MapFlags, KernelFlags, TaskFlags
<1> QED BY <1>4, <1>5, <1>7, <1>8

(* A range that would run over the end of memory ends before it begins.    *)
LEMMA NoWrap ==
  ASSUME NEW P \in Pages, NEW size \in Nat, NEW k, k = Blocks(size),
         k < PAGE_DIR_ENTRIES * PAGE_TABLE_ENTRIES,
         MemoryEnd < Address(P) + size
  PROVE  RegionEndOf(P, size) < Address(P)
<1> DEFINE N == PAGE_DIR_ENTRIES * PAGE_TABLE_ENTRIES
           M == MemoryEnd
           x == Address(P) + size - M
           A == Address(P)
<1>1. k \in Nat /\ size <= Address(k) /\ P \in Nat /\ N \in Nat /\ P < N
      /\ PAGE_SIZE \in Nat \ {0} /\ M \in Nat \ {0}
  BY Ceil, PagesAre, EntrySizes, MemoryEndIs DEF Pages
<1>2. Address(k) + PAGE_SIZE <= M /\ A + PAGE_SIZE <= M /\ Address(k) \in Nat
      /\ A \in Nat
  <2> HIDE DEF N
  <2>1. Address(N) = M
    BY AddressLinear DEF N
  <2>2. Address(k) + PAGE_SIZE <= Address(N) /\ Address(k) \in Nat
    BY <1>1, AddressLinear DEF N
  <2>3. Address(P) + PAGE_SIZE <= Address(N) /\ Address(P) \in Nat
    BY <1>1, AddressLinear DEF N
  <2> QED BY <2>1, <2>2, <2>3
<1>3. P # 0 /\ Address(P - 1) + PAGE_SIZE = A /\ P - 1 \in Nat
      /\ Address(P - 1) \in Nat
  <2>1. P # 0
    <3>1. P = 0 => A = 0
      BY AddressLinear
    <3> HIDE DEF A, M
    <3> QED BY <1>1, <1>2, <3>1 DEF A, M
  <2>2. P - 1 \in Nat /\ P = (P - 1) + 1
    BY <1>1, <2>1
  <2>3. Address((P - 1) + 1) = Address(P - 1) + Address(1)
        /\ Address(1) = PAGE_SIZE /\ Address(P - 1) \in Nat
    BY <2>2, AddressLinear
  <2> QED BY <2>1, <2>2, <2>3
<1>4. x \in Nat /\ x <= Address(P - 1) /\ x < M /\ A + size = M + x
  <2> HIDE DEF A, M
  <2>1. M < A + size
    BY DEF A, M
  <2> QED BY <1>1, <1>2, <1>3, <2>1 DEF A, M
<1>5. (M + x) % M = x
  <2> HIDE DEF M, x
  <2>1. x \in 0 .. (M - 1) /\ 1 \in Nat
    BY <1>1, <1>4
  <2>2. (M * 1 + x) % M = x
    BY <1>1, <2>1, DivUnique
  <2>3. M * 1 = M
    BY <1>1
  <2> QED BY <2>2, <2>3
<1>6. RegionEndOf(P, size) = paging_align_to_page_upper(x)
  BY <1>4, <1>5 DEF RegionEndOf
<1> DEFINE b == Blocks(x)
           p == P - 1
           e == RegionEndOf(P, size)
<1> HIDE DEF x, p, e
<1>7. p \in Nat /\ x <= Address(p) /\ Address(p) + PAGE_SIZE = A
      /\ Address(p) \in Nat
  BY <1>3, <1>4 DEF p
<1>8. b \in Nat /\ b <= p
  BY <1>4, <1>7, Ceil, CeilBound
<1>9. Address(b) <= Address(p) /\ Address(b) \in Nat
  <2> HIDE DEF b
  <2> QED BY <1>7, <1>8, AddressLinear
<1>10. e \in {Address(b), 0}
  <2>1. x <= MemoryEnd
    BY <1>1, <1>4
  <2> QED BY <1>4, <1>6, <2>1, AlignUpper DEF e
<1>11. e < A
  <2> HIDE DEF b, A
  <2> QED BY <1>1, <1>2, <1>7, <1>9, <1>10
<1> QED BY <1>11 DEF e

LEMMA HeaderRange ==
  ASSUME NEW q, Backed(q), NEW i \in DOMAIN q.file.phdrs, UserMemory,
         LET h == q.file.phdrs[i]
         IN  ~MapRangeFails(MapVaddr(h), MapPaddr(q, h), MapEnd(q, h))
  PROVE  \E k \in Nat : HeaderMaps(q, q.file.phdrs[i], k)
<1> DEFINE h == q.file.phdrs[i]
           off == h.p_offset
           mem == h.p_memsz
           vad == h.p_vaddr
           B == Blocks(q.file.size)
           N == PAGE_DIR_ENTRIES * PAGE_TABLE_ENTRIES
           a == Address(q.data) + off
           V == PageOf(vad)
           P == PageOf(a)
           end == a + mem
<1>1. off \in Nat /\ mem \in Nat /\ vad \in Nat /\ B \in Nat
      /\ q.file \in Files
  BY FileTyped DEF Backed
<1>2. q.data \in Nat \ {0} /\ q.data + B <= N
      /\ q.data \in HeapFrames /\ Segment(q.data, B) \subseteq HeapFrames
  <2>1. q.data \in HeapFrames /\ Segment(q.data, B) \subseteq HeapFrames
    BY DEF Backed
  <2> HIDE DEF B
  <2> QED BY <1>1, <2>1, SegmentEnd
<1>3. /\ vad % PAGE_SIZE = off % PAGE_SIZE
      /\ off < Address(B)
      /\ V .. (Blocks(vad + mem) - 1) \subseteq UserPages
  BY <1>1 DEF UserMemory, SegmentInUserMemory, Address
<1>4. Address(q.data) \in Nat /\ a \in Nat /\ end \in Nat /\ a < MemoryEnd
  <2>1. Address(q.data) \in Nat /\ Address(B) \in Nat
        /\ Address(q.data + B) = Address(q.data) + Address(B)
    BY <1>1, <1>2, AddressLinear
  <2>2. Address(q.data + B) <= MemoryEnd
    <3> DEFINE x == q.data + B
    <3>1. N \in Nat /\ Address(N) = MemoryEnd
      BY EntrySizes, AddressLinear
    <3>2. x \in Nat /\ x <= N
      BY <1>1, <1>2
    <3> HIDE DEF N, x
    <3>3. Address(x) <= MemoryEnd
      BY <3>1, <3>2, AddressLinear
    <3> QED BY <3>3 DEF x
  <2> DEFINE D == Address(q.data)
             b == Address(B)
  <2>3. /\ D \in Nat /\ b \in Nat /\ off < b /\ D + b <= MemoryEnd
        /\ MemoryEnd \in Nat
    BY <1>3, <2>1, <2>2, MemoryEndIs
  <2> HIDE DEF off, mem, D, b
  <2>4. D + off \in Nat /\ D + off + mem \in Nat /\ D + off < MemoryEnd
    BY <1>1, <2>3
  <2> QED BY <2>3, <2>4 DEF D
<1>5. SegmentStart(q, h) = a
  <2>1. a % MemoryEnd = a
    BY <1>4, MemoryEndIs
  <2> QED BY <2>1 DEF SegmentStart
<1>6. MapVaddr(h) = Address(V) /\ V \in Nat /\ Address(V) \in Nat
  BY <1>1, AlignLower, PageSplit, AddressLinear DEF MapVaddr
<1>7. MapPaddr(q, h) = Address(P) /\ P \in Pages /\ P \in Nat
      /\ Address(P) \in Nat
  <2> HIDE DEF a
  <2>1. MapPaddr(q, h) = Address(P)
    BY <1>4, <1>5, AlignLower DEF MapPaddr
  <2>2. a \in 0 .. (MemoryEnd - 1)
    BY <1>4, MemoryEndIs
  <2>3. P \in Pages
    BY <2>2, AlignedPage
  <2> QED BY <2>1, <2>3, PagesAre, AddressLinear
<1>8. MapEnd(q, h) = paging_align_to_page_upper(end % MemoryEnd)
  BY <1>5 DEF MapEnd
<1>9. ~MapRangeFails(Address(V), Address(P), MapEnd(q, h))
  BY <1>6, <1>7
<1> HIDE DEF h
<1> DEFINE o == PageOf(off)
           r == off % PAGE_SIZE
           k == Blocks(r + mem)
<1>10. o \in Nat /\ r \in 0 .. (PAGE_SIZE - 1) /\ off = Address(o) + r
      /\ vad = Address(V) + r /\ Address(o) \in Nat /\ r \in Nat
  <2>1. o \in Nat /\ r \in 0 .. (PAGE_SIZE - 1) /\ off = Address(o) + r
    BY <1>1, PageSplit
  <2>2. vad = Address(V) + r
    BY <1>1, <1>3, PageSplit
  <2>3. Address(o) \in Nat /\ r \in Nat
    BY <2>1, AddressLinear, EntrySizes
  <2> QED BY <2>1, <2>2, <2>3
<1> HIDE DEF off, mem, vad, B, N, o, r
<1>11. a = Address(q.data + o) + r /\ q.data + o \in Nat \ {0}
      /\ Address(q.data + o) \in Nat
  <2>1. Address(q.data + o) = Address(q.data) + Address(o)
        /\ q.data + o \in Nat \ {0}
    <3>1. q.data \in Nat \ {0} /\ q.data \in Nat /\ o \in Nat
      BY <1>2, <1>10
    <3>2. Address(q.data + o) = Address(q.data) + Address(o)
      BY <3>1, AddressLinear
    <3> QED BY <3>1, <3>2
  <2> QED BY <1>4, <1>10, <2>1
<1>12. P = q.data + o
  BY <1>10, <1>11, PageJoin
<1>13. end = Address(P) + (r + mem) /\ r + mem \in Nat
  BY <1>1, <1>10, <1>11, <1>12
<1>14. Blocks(end) = P + k /\ k \in Nat
  <2>1. P \in Nat
    BY <1>7
  <2> HIDE DEF P
  <2>2. Blocks(Address(P) + (r + mem)) = P + Blocks(r + mem)
    BY <1>13, <2>1, CeilShift
  <2> QED BY <1>13, <2>2, Ceil
<1>15. Blocks(vad + mem) = V + k
  <2>1. vad + mem = Address(V) + (r + mem)
    BY <1>1, <1>6, <1>10
  <2> HIDE DEF V
  <2> QED BY <1>6, <1>13, <2>1, CeilShift
<1>16. ASSUME off + mem <= Address(B) PROVE P + k <= q.data + B
  <2> DEFINE x == q.data + B
  <2>1. Address(x) = Address(q.data) + Address(B) /\ x \in Nat
        /\ Address(B) \in Nat
    <3>1. q.data \in Nat /\ B \in Nat
      BY <1>1, <1>2
    <3>2. Address(q.data + B) = Address(q.data) + Address(B)
          /\ Address(B) \in Nat
      BY <3>1, AddressLinear
    <3> QED BY <3>1, <3>2
  <2>2. end <= Address(x)
    <3> HIDE DEF x
    <3> QED BY <1>1, <1>4, <1>16, <2>1
  <2>3. end \in Nat /\ x \in Nat
    BY <1>4, <2>1
  <2> HIDE DEF x, end
  <2>4. Blocks(end) <= x
    BY <2>2, <2>3, CeilBound
  <2> QED BY <1>14, <2>4 DEF x
<1> HIDE DEF V, P, k
<1>17. k < N
  <2>1. N \in Nat /\ HeapPage \in Nat /\ HeapPage < N /\ HeapPage > 0
    BY PagingAssumption, EntrySizes DEF N
  <2>2. CASE k = 0
    BY <2>1, <2>2
  <2>3. CASE k # 0
    <3>1. V + k - 1 \in UserPages /\ V + k - 1 \in Nat
      BY <1>3, <1>6, <1>14, <1>15, <2>3
    <3>2. V + k - 1 < HeapPage
      BY <2>1, <3>1 DEF UserPages, HeapFrames
    <3> QED BY <1>6, <1>14, <2>1, <3>2
  <2> QED BY <2>2, <2>3
<1>18. end <= MemoryEnd
  <2> DEFINE size == r + mem
  <2>1. size \in Nat /\ k = Blocks(size) /\ end = Address(P) + size
        /\ k < PAGE_DIR_ENTRIES * PAGE_TABLE_ENTRIES
    BY <1>13, <1>17 DEF k, N
  <2>2. MapEnd(q, h) = RegionEndOf(P, size)
    BY <1>8, <2>1 DEF RegionEndOf
  <2> HIDE DEF size, end
  <2>3. MemoryEnd < end => RegionEndOf(P, size) < Address(P)
    BY <1>7, <2>1, NoWrap
  <2>4. ~(MapEnd(q, h) < Address(P))
    BY <1>9 DEF MapRangeFails
  <2> QED BY <1>4, <2>2, <2>3, <2>4, MemoryEndIs
<1>19. MapEnd(q, h) \in {Address(P + k), 0}
  <2>1. CASE end < MemoryEnd
    <3>1. end % MemoryEnd = end
      BY <1>4, <2>1, MemoryEndIs
    <3> HIDE DEF end
    <3> QED BY <1>4, <1>8, <1>14, <1>18, <3>1, AlignUpper
  <2>2. CASE end = MemoryEnd
    <3>1. end % MemoryEnd = 0
      BY <2>2, MemoryEndIs
    <3>2. paging_align_to_page_upper(0) = 0
      BY EntrySizes DEF paging_align_to_page_upper, address_page_aligned
    <3> QED BY <1>8, <3>1, <3>2
  <2> HIDE DEF end
  <2> QED BY <1>4, <1>18, <2>1, <2>2, MemoryEndIs
<1>20. P \in Nat \ {0}
  BY <1>11, <1>12
<1> DEFINE e == MapEnd(q, h)
<1> HIDE DEF e
<1>21. (e - Address(P)) \div PAGE_SIZE = k
       /\ address_page_aligned(Address(V))
  <2>1. e \in {Address(P + k), 0}
        /\ ~MapRangeFails(Address(V), Address(P), e)
    BY <1>9, <1>19 DEF e
  <2>2. k \in Nat /\ Address(V) \in Nat
    BY <1>6, <1>14
  <2> DEFINE v == Address(V)
  <2> HIDE DEF v
  <2>3. v \in Nat /\ ~MapRangeFails(v, Address(P), e)
    BY <2>1, <2>2 DEF v
  <2>4. (e - Address(P)) \div PAGE_SIZE = k /\ address_page_aligned(v)
    BY <1>20, <2>1, <2>2, <2>3, RangeLength
  <2> QED BY <2>4 DEF v
<1>22. HeaderMaps(q, h, k)
  <2>1. q.data + PageOf(h.p_offset) = P
    BY <1>12 DEF o, off
  <2>2. MapVaddr(h) = Address(V) /\ MapPaddr(q, h) = Address(P)
        /\ (MapEnd(q, h) - MapPaddr(q, h)) \div PAGE_SIZE = k
    BY <1>6, <1>7, <1>21 DEF e
  <2>3. PageOf(h.p_vaddr) = V /\ Blocks(h.p_vaddr + h.p_memsz) = V + k
    BY <1>15 DEF V, vad, mem
  <2>4. h.p_offset + h.p_memsz <= Blocks(q.file.size) * PAGE_SIZE =>
          P + k <= q.data + Blocks(q.file.size)
    BY <1>16 DEF B, off, mem, Address
  <2> QED BY <1>6, <1>14, <1>20, <2>1, <2>2, <2>3, <2>4 DEF HeaderMaps
<1> QED BY <1>14, <1>22 DEF h

LEMMA HeaderAllowed ==
  ASSUME NEW q, Backed(q), NEW i \in DOMAIN q.file.phdrs
  PROVE  HeaderOk(q, q.file.phdrs[i], Allowed(q))
<1> DEFINE h == q.file.phdrs[i]
           n == (MapEnd(q, h) - MapPaddr(q, h)) \div PAGE_SIZE
<1>1. /\ MapVaddr(h) \in Nat /\ MapPaddr(q, h) \in Nat
      /\ MapEnd(q, h) \in Nat /\ MapFlags(h) \in SUBSET KernelFlags
  BY HeaderTyped
<1>2. ASSUME ~MapRangeFails(MapVaddr(h), MapPaddr(q, h), MapEnd(q, h))
      PROVE  RangeOk(MapVaddr(h), MapPaddr(q, h), n, MapFlags(h), Allowed(q))
  <2>1. CASE ~UserMemory
    <3> HIDE DEF h, n
    <3> QED BY <1>1, <2>1, RangeUnknown
  <2>2. CASE UserMemory
    <3>1. PICK k \in Nat : HeaderMaps(q, h, k)
      BY <1>2, <2>2, HeaderRange
    <3> DEFINE V == PageOf(h.p_vaddr)
               P == q.data + PageOf(h.p_offset)
    <3>2. /\ V .. (Blocks(h.p_vaddr + h.p_memsz) - 1) \subseteq UserPages
          /\ q.data \in Nat /\ PageOf(h.p_offset) \in Nat
          /\ Blocks(q.file.size) \in Nat
          /\ Contained(q) /\ "WRITE" \in MapFlags(h) =>
               h.p_offset + h.p_memsz <= Blocks(q.file.size) * PAGE_SIZE
      BY <2>2, FileTyped, PageSplit, PagesAre
      DEF UserMemory, SegmentInUserMemory, Backed, Contained, SegmentsInFile,
          MapFlags, TaskFlags
    <3> HIDE DEF h, n
    <3>3. /\ P \in Nat \ {0} /\ V \in Nat /\ MapVaddr(h) = Address(V)
          /\ MapPaddr(q, h) = Address(P) /\ n = k
          /\ Blocks(h.p_vaddr + h.p_memsz) = V + k
          /\ h.p_offset + h.p_memsz <= Blocks(q.file.size) * PAGE_SIZE =>
               P + k <= q.data + Blocks(q.file.size)
          /\ q.data <= P
      BY <3>1, <3>2 DEF HeaderMaps, n
    <3> HIDE DEF V, P
    <3>4. PageOf(Address(V)) = V /\ address_page_aligned(Address(V))
          /\ Address(V) \in Nat
      BY <3>3, PageOfAddress, AddressLinear
    <3>5. PagesFrom(V, k) \subseteq UserPages
      BY <3>2, <3>3 DEF PagesFrom
    <3>6. Contained(q) /\ "WRITE" \in MapFlags(h) =>
            Segment(P, k) \subseteq Program(q)
      <4> SUFFICES ASSUME P + k <= q.data + Blocks(q.file.size)
                   PROVE  Segment(P, k) \subseteq Program(q)
        BY <3>2, <3>3
      <4>1. Segment(P, k) \subseteq Segment(q.data, Blocks(q.file.size))
        BY <3>2, <3>3 DEF Segment
      <4> QED BY <4>1 DEF Program
    <3> DEFINE v == Address(V)
    <3>7. v \in Nat /\ address_page_aligned(v)
          /\ PagesFrom(PageOf(v), k) \subseteq UserPages
      BY <3>4, <3>5
    <3> HIDE DEF v
    <3>8. RangeOk(v, Address(P), k, MapFlags(h), Allowed(q))
      BY <1>1, <3>3, <3>6, <3>7, RangeAllowed
    <3> QED BY <3>3, <3>8 DEF v
  <2> QED BY <2>1, <2>2
<1> QED BY <1>1, <1>2 DEF HeaderOk

LEMMA MapHeader ==
  ASSUME NEW m \in Memories, NEW q, NEW h, NEW ok, Space(m, q.space),
         HeaderOk(q, h, ok)
  PROVE  Remapped(m, paging_map_range(m, q.space, MapVaddr(h),
                       MapPaddr(q, h), MapEnd(q, h), MapFlags(h)),
                  q.space, ok)
  BY MapRange DEF HeaderOk

MapOf(m, q, h) ==
  paging_map_range(m, q.space, MapVaddr(h), MapPaddr(q, h), MapEnd(q, h),
                   MapFlags(h))

(* process_map_elf, header by header.                                      *)
ElfRounds(f, m, q, ok) ==
  /\ f[0] = m
  /\ \A i \in 0 .. Len(q.file.phdrs) : Remapped(m, f[i], q.space, ok)
  /\ \A i \in 1 .. Len(q.file.phdrs) :
       f[i] = MapOf(f[i - 1], q, q.file.phdrs[i])
InElfRounds(r, m, q, ok) ==
  \E f : ElfRounds(f, m, q, ok) /\ r = f[Len(q.file.phdrs)]

LEMMA ElfUnfold ==
  ASSUME NEW m \in Memories, NEW q, NEW ok, Space(m, q.space),
         q.file \in Files,
         \A i \in DOMAIN q.file.phdrs : HeaderOk(q, q.file.phdrs[i], ok)
  PROVE  InElfRounds(process_map_elf(m, q), m, q, ok)
<1> DEFINE s == q.space
           n == Len(q.file.phdrs)
           Step(x, i) == LET h == q.file.phdrs[i]
                         IN  paging_map_range(x, q.space, MapVaddr(h),
                               MapPaddr(q, h), MapEnd(q, h), MapFlags(h))
           P(g) == g = [i \in 0 .. n |-> IF i = 0 THEN m
                                         ELSE Step(g[i - 1], i)]
           f == CHOOSE h : P(h)
           M == {x \in Memories : Remapped(m, x, s, ok)}
           F == [i \in 1 .. n |-> [x \in M |-> Step(x, i)]]
<1>1. process_map_elf(m, q) = f[n]
  BY Zenon DEF process_map_elf
<1>2. n \in Nat /\ DOMAIN q.file.phdrs = 1 .. n
  BY FileTyped
<1>3. m \in M
  BY RemappedNot
<1>4. ASSUME NEW i \in 1 .. n, NEW x \in M PROVE Step(x, i) \in M
  <2>1. x \in Memories /\ Remapped(m, x, s, ok)
    OBVIOUS
  <2>2. Space(x, s)
    BY <2>1, RemappedSpace DEF SameSpace
  <2>3. HeaderOk(q, q.file.phdrs[i], ok)
    BY <1>2
  <2>4. Remapped(x, Step(x, i), s, ok)
    BY <2>1, <2>2, <2>3, MapHeader
  <2> HIDE DEF Step
  <2>5. Remapped(m, Step(x, i), s, ok)
    BY <2>1, <2>4, RemappedTwice
  <2> QED BY <2>5 DEF Remapped
<1>5. \A x : \A i \in 1 .. n : Step(x, i) = MapOf(x, q, q.file.phdrs[i])
  BY DEF MapOf
<1> HIDE DEF Step, n
<1>6. F \in [1 .. n -> [M -> M]]
  BY <1>4
<1>7. \A i \in 1 .. n : \A x \in M : F[i][x] = Step(x, i)
  OBVIOUS
<1> HIDE DEF M, F
<1>8. PICK g \in [0 .. n -> M] : IsRecursive(g, n, m, F)
  BY <1>2, <1>3, <1>6, RecursionExists
<1>9. P(g)
  <2>1. ASSUME NEW i \in 0 .. n
        PROVE  g[i] = IF i = 0 THEN m ELSE Step(g[i - 1], i)
    <3>1. g[i] = IF i = 0 THEN m ELSE F[i][g[i - 1]]
      BY <1>8 DEF IsRecursive
    <3>2. i # 0 => i \in 1 .. n /\ i - 1 \in 0 .. n
      BY <1>2
    <3>3. i # 0 => g[i - 1] \in M
      BY <3>2
    <3> QED BY <1>7, <3>1, <3>2, <3>3
  <2> QED BY <2>1
<1>10. P(f)
  <2> HIDE DEF P
  <2> QED BY <1>9
<1> HIDE DEF f
<1>11. \A i \in 0 .. n : f[i] = IF i = 0 THEN m ELSE Step(f[i - 1], i)
  BY <1>10, Zenon
<1>12. f[0] = m /\ \A i \in 1 .. n : f[i] = Step(f[i - 1], i)
  <2>1. 0 \in 0 .. n /\ \A i \in 1 .. n : i \in 0 .. n /\ i # 0
    BY <1>2
  <2> QED BY <1>11, <2>1
<1>13. \A i \in 1 .. n : f[i - 1] \in M => f[i] = F[i][f[i - 1]]
  BY <1>7, <1>12
<1>14. StaysIn(f, n, M)
  BY <1>2, <1>3, <1>6, <1>12, <1>13, RecursionStays
<1>15. ElfRounds(f, m, q, ok)
  <2>1. \A i \in 0 .. n : Remapped(m, f[i], s, ok)
    BY <1>14 DEF M, StaysIn
  <2> QED BY <1>12, <1>5, <2>1 DEF ElfRounds, n
<1> QED BY <1>1, <1>15 DEF InElfRounds, n

LEMMA MapElf ==
  ASSUME NEW m \in Memories, NEW q, NEW ok, Space(m, q.space),
         q.file \in Files,
         \A i \in DOMAIN q.file.phdrs : HeaderOk(q, q.file.phdrs[i], ok)
  PROVE  Remapped(m, process_map_elf(m, q), q.space, ok)
<1> DEFINE r == process_map_elf(m, q)
<1>1. InElfRounds(r, m, q, ok)
  BY ElfUnfold
<1> HIDE DEF r
<1>2. PICK f : ElfRounds(f, m, q, ok) /\ r = f[Len(q.file.phdrs)]
  BY <1>1 DEF InElfRounds
<1>3. Len(q.file.phdrs) \in 0 .. Len(q.file.phdrs)
  BY FileTyped
<1>4. Remapped(m, r, q.space, ok)
  BY <1>2, <1>3 DEF ElfRounds
<1> QED BY <1>4 DEF r

(* ... and every page of every segment is mapped.                          *)
LEMMA MapElfAll ==
  ASSUME NEW m \in Memories, NEW q, NEW ok, Space(m, q.space),
         q.file \in Files,
         \A i \in DOMAIN q.file.phdrs : HeaderOk(q, q.file.phdrs[i], ok),
         NEW i \in DOMAIN q.file.phdrs, NEW u \in Pages,
         \A x \in Memories : Space(x, q.space) =>
           <<u, PageWord(MapOf(x, q, q.file.phdrs[i]), q.space, u)>> \in ok
  PROVE  <<u, PageWord(process_map_elf(m, q), q.space, u)>> \in ok
<1> DEFINE s == q.space
           n == Len(q.file.phdrs)
           r == process_map_elf(m, q)
<1>1. InElfRounds(r, m, q, ok)
  BY ElfUnfold
<1>2. n \in Nat /\ DOMAIN q.file.phdrs = 1 .. n
  BY FileTyped
<1> HIDE DEF r
<1>3. PICK f : ElfRounds(f, m, q, ok) /\ r = f[n]
  BY <1>1 DEF InElfRounds
<1>4. \A j \in 0 .. n : f[j] \in Memories /\ Space(f[j], s)
  <2> TAKE j \in 0 .. n
  <2>1. Remapped(m, f[j], s, ok)
    BY <1>3 DEF ElfRounds
  <2>2. SameSpace(m, f[j], s)
    BY <2>1, RemappedSpace
  <2> QED BY <2>1, <2>2 DEF Remapped, SameSpace
<1>5. \A j \in 1 .. n : f[j] = MapOf(f[j - 1], q, q.file.phdrs[j])
  BY <1>3 DEF ElfRounds
<1> DEFINE S == {j \in 0 .. n : i <= j => <<u, PageWord(f[j], s, u)>> \in ok}
<1>6. 0 \in S
  BY <1>2
<1> HIDE DEF n
<1>7. ASSUME NEW j \in 1 .. n, j - 1 \in S PROVE j \in S
  <2> SUFFICES ASSUME i <= j PROVE <<u, PageWord(f[j], s, u)>> \in ok
    BY <1>2
  <2>1. j - 1 \in 0 .. n /\ (i # j => i <= j - 1) /\ i \in 1 .. n
    BY <1>2
  <2> DEFINE x == f[j - 1]
             y == f[j]
             h == q.file.phdrs[j]
  <2>2. x \in Memories /\ Space(x, s) /\ y = MapOf(x, q, h)
    BY <1>4, <1>5, <2>1
  <2>3. CASE i = j
    BY <2>2, <2>3
  <2>4. CASE i # j
    <3>1. <<u, PageWord(x, s, u)>> \in ok
      BY <1>7, <2>1, <2>4
    <3>2. HeaderOk(q, h, ok)
      BY <1>2
    <3> HIDE DEF x, y, h
    <3>3. Remapped(x, y, s, ok)
      BY <2>2, <3>2, MapHeader DEF MapOf
    <3>4. PageWord(y, s, u) = PageWord(x, s, u)
          \/ <<u, PageWord(y, s, u)>> \in ok
      BY <3>3 DEF Remapped
    <3>5. <<u, PageWord(y, s, u)>> \in ok
      BY <3>1, <3>4
    <3> QED BY <3>5 DEF y
  <2> QED BY <2>3, <2>4
<1> HIDE DEF S
<1>8. \A j \in 0 .. n : j \in S
  BY <1>2, <1>6, <1>7, UpTo
<1>9. n \in S /\ i <= n
  BY <1>2, <1>8
<1>10. <<u, PageWord(r, s, u)>> \in ok
  BY <1>3, <1>9 DEF S
<1> QED BY <1>10 DEF r

(* A region of memory at an address of the task.                           *)
LEMMA MapRegion ==
  ASSUME NEW m \in Memories, NEW q, Space(m, q.space), NEW vaddr \in Nat,
         NEW P \in HeapFrames, NEW K \in Nat, NEW size \in Nat,
         size <= Address(K),
         Segment(P, K) \subseteq HeapFrames,
         Segment(P, K) \subseteq Program(q),
         UserMemory => PagesFrom(PageOf(vaddr), Blocks(size))
                         \subseteq UserPages
  PROVE  Remapped(m, paging_map_range(m, q.space, vaddr, Address(P),
                       RegionEndOf(P, size), TaskFlags \cup {"WRITE"}),
                  q.space, Allowed(q))
<1> DEFINE e == RegionEndOf(P, size)
           flags == TaskFlags \cup {"WRITE"}
<1>1. P \in Nat \ {0} /\ P + K <= PAGE_DIR_ENTRIES * PAGE_TABLE_ENTRIES
  BY SegmentEnd
<1>2. Address(P) \in Nat /\ e \in Nat
  BY <1>1, AddressLinear, RegionTyped
<1>3. flags \in SUBSET KernelFlags
  BY DEF KernelFlags
<1> HIDE DEF flags
<1>4. ASSUME ~MapRangeFails(vaddr, Address(P), e)
      PROVE  RangeOk(vaddr, Address(P), (e - Address(P)) \div PAGE_SIZE, flags,
                     Allowed(q))
  BY <1>1, <1>3, <1>4, RegionAllowed
<1> HIDE DEF e
<1>5. Remapped(m, paging_map_range(m, q.space, vaddr, Address(P), e, flags),
               q.space, Allowed(q))
  BY <1>2, <1>3, <1>4, MapRange
<1> QED BY <1>5 DEF e, flags

LEMMA StackFits ==
  /\ StackBlocks \in Nat /\ TASK_STACK_SIZE \in Nat
  /\ TASK_STACK_SIZE <= Address(StackBlocks)
  /\ TASK_DEFAULT_START \in Nat /\ TASK_DEFAULT_STACK_END \in Nat
<1>1. StackBlocks \in Nat /\ TASK_STACK_SIZE \in Nat
      /\ TASK_DEFAULT_START \in Nat /\ TASK_DEFAULT_STACK_END \in Nat
  BY AddressSpaceAssumption
<1>2. StackBlocks * PAGE_SIZE >= TASK_STACK_SIZE
  BY AddressSpaceAssumption
<1>3. Address(StackBlocks) = StackBlocks * PAGE_SIZE
      /\ Address(StackBlocks) \in Nat
  BY <1>1, AddressLinear DEF Address
<1> DEFINE x == StackBlocks * PAGE_SIZE
<1> HIDE DEF x
<1>4. x >= TASK_STACK_SIZE /\ Address(StackBlocks) = x /\ x \in Nat
  BY <1>2, <1>3 DEF x
<1> QED BY <1>1, <1>4

(* The program, by its type.                                               *)
LEMMA ProgramMapped ==
  ASSUME NEW m \in Memories, NEW q, Backed(q), Space(m, q.space)
  PROVE  Remapped(m, IF q.type = "PROCESS_ELF_FILE" THEN process_map_elf(m, q)
                                              ELSE process_map_binary(m, q),
                  q.space, Allowed(q))
<1> DEFINE s == q.space
<1>1. Remapped(m, process_map_elf(m, q), s, Allowed(q))
  <2>1. q.file \in Files
    BY DEF Backed
  <2> QED BY <2>1, HeaderAllowed, MapElf
<1>2. Remapped(m, process_map_binary(m, q), s, Allowed(q))
  <2> DEFINE size == q.file.size
             B == Blocks(q.file.size)
  <2>1. size \in Nat /\ B \in Nat /\ size <= Address(B) /\ q.file \in Files
    BY FileTyped, Ceil DEF Backed
  <2>2. q.data \in HeapFrames /\ Segment(q.data, B) \subseteq HeapFrames
        /\ Segment(q.data, B) \subseteq Program(q)
    BY DEF Backed, Program
  <2>3. UserMemory => PagesFrom(PageOf(TASK_DEFAULT_START), B)
                        \subseteq UserPages
    BY <2>1 DEF UserMemory
  <2>4. UserMemory => PagesFrom(PageOf(TASK_DEFAULT_START), Blocks(size))
                        \subseteq UserPages
    BY <2>3
  <2> HIDE DEF B, size
  <2>5. Remapped(m, paging_map_range(m, s, TASK_DEFAULT_START,
                      Address(q.data), RegionEndOf(q.data, size),
                      TaskFlags \cup {"WRITE"}), s, Allowed(q))
    BY <2>1, <2>2, <2>4, StackFits, MapRegion
  <2> QED BY <2>5 DEF process_map_binary, BinaryEnd, RegionEndOf, size
<1> QED BY <1>1, <1>2

LEMMA MapMemory ==
  ASSUME NEW m \in Memories, NEW q, Backed(q), Space(m, q.space)
  PROVE  Remapped(m, process_map_memory(m, q), q.space, Allowed(q))
<1> DEFINE s == q.space
           x == IF q.type = "PROCESS_ELF_FILE" THEN process_map_elf(m, q)
                                               ELSE process_map_binary(m, q)
<1>1. process_map_memory(m, q) = MapStack(x, q)
  BY DEF process_map_memory
<1>2. Remapped(m, x, s, Allowed(q))
  BY ProgramMapped
<1> HIDE DEF x
<1>3. x \in Memories /\ Space(x, s)
  BY <1>2, RemappedSpace DEF Remapped, SameSpace
<1>4. Remapped(x, MapStack(x, q), s, Allowed(q))
  <2>1. q.stack \in HeapFrames
        /\ Segment(q.stack, StackBlocks) \subseteq HeapFrames
        /\ Segment(q.stack, StackBlocks) \subseteq Program(q)
    BY DEF Backed, Program
  <2>2. UserMemory => PagesFrom(PageOf(TASK_DEFAULT_STACK_END),
                        Blocks(TASK_STACK_SIZE)) \subseteq UserPages
    BY DEF UserMemory
  <2>3. Remapped(x, paging_map_range(x, s, TASK_DEFAULT_STACK_END,
                      Address(q.stack), RegionEndOf(q.stack, TASK_STACK_SIZE),
                      TaskFlags \cup {"WRITE"}), s, Allowed(q))
    BY <1>3, <2>1, <2>2, StackFits, MapRegion
  <2> QED BY <2>3 DEF MapStack, StackEnd, RegionEndOf
<1>5. Remapped(m, MapStack(x, q), s, Allowed(q))
  BY <1>2, <1>4, RemappedTwice
<1> QED BY <1>1, <1>5

(* MALLOC and FREE map frames at their own addresses.                      *)
Itself(F) == {<<v, Word(v, SharedFlags)>> : v \in F}

LEMMA IdentityRange ==
  ASSUME NEW m \in Memories, NEW s, Space(m, s), NEW P \in Pages,
         NEW n \in Nat, NEW F, Segment(P, n) \cap Pages \subseteq F
  PROVE  Remapped(m, paging_map_range(m, s, Address(P), Address(P),
                       Address(P + n) % MemoryEnd, SharedFlags),
                  s, Itself(F))
<1> DEFINE a == Address(P + n)
           e == a % MemoryEnd
           b == Address(P)
           t == (e - b) \div PAGE_SIZE
           j == PageOf(e)
<1>1. P \in Nat /\ P + n \in Nat /\ a \in Nat /\ b \in Nat
      /\ MemoryEnd \in Nat \ {0}
  <2>1. P \in Nat /\ P + n \in Nat
    BY PagesAre
  <2>2. \A x \in Nat : Address(x) \in Nat
    BY AddressLinear
  <2> QED BY <2>1, <2>2, MemoryEndIs
<1> HIDE DEF a
<1>2. e \in 0 .. (MemoryEnd - 1) /\ e \in Nat /\ e <= a
  <2>1. a \div MemoryEnd \in Nat /\ a % MemoryEnd \in 0 .. (MemoryEnd - 1)
        /\ a = MemoryEnd * (a \div MemoryEnd) + (a % MemoryEnd)
    BY <1>1, DivMod
  <2> DEFINE x == MemoryEnd * (a \div MemoryEnd)
  <2>2. x \in Nat
    BY <1>1, <2>1
  <2> HIDE DEF x
  <2>3. a = x + e
    BY <2>1 DEF x
  <2> HIDE DEF e
  <2> QED BY <1>1, <2>1, <2>2, <2>3 DEF e
<1>3. j \in Pages /\ (address_page_aligned(e) => e = Address(j))
  <2> HIDE DEF e
  <2> QED BY <1>2, AlignedPage
<1>4. SharedFlags \in SUBSET KernelFlags
  BY DEF SharedFlags, KernelFlags
<1> HIDE DEF e, j
<1>5. ASSUME ~MapRangeFails(b, b, e)
      PROVE  RangeOk(b, b, t, SharedFlags, Itself(F))
  <2>1. e = Address(j) /\ ~(e < b) /\ j \in Nat
    BY <1>3, <1>5, PagesAre DEF MapRangeFails
  <2>2. P <= j
    <3>1. j < P => Address(j) + PAGE_SIZE <= Address(P)
      BY <1>1, <2>1, AddressLinear
    <3> QED BY <1>1, <1>2, <2>1, <3>1, EntrySizes
  <2>3. t = j - P
    <3> DEFINE d == j - P
    <3>1. d \in Nat /\ j = P + d
      BY <1>1, <2>1, <2>2
    <3> HIDE DEF d
    <3>2. Address(P + d) = Address(P) + Address(d) /\ Address(d) \in Nat
      BY <1>1, <3>1, AddressLinear
    <3>3. e - b = Address(d)
      BY <1>1, <2>1, <3>1, <3>2
    <3>4. PageOf(Address(d)) = d
      BY <3>1, PageOfAddress
    <3> QED BY <3>3, <3>4 DEF PageOf, d
  <2>4. j <= P + n
    <3> DEFINE y == P + n
    <3>1. y \in Nat /\ e <= Address(y) /\ Address(y) \in Nat
      BY <1>1, <1>2 DEF a
    <3> HIDE DEF y
    <3>2. y < j => Address(y) + PAGE_SIZE <= Address(j)
      BY <2>1, <3>1, AddressLinear
    <3>3. j <= y
      BY <1>2, <2>1, <3>1, <3>2, EntrySizes
    <3> QED BY <3>3 DEF y
  <2>5. ASSUME NEW i \in 1 .. t
        PROVE  <<PageOf(RangeAddress(b, i)), RangeWord(b, i, SharedFlags)>>
                 \in Itself(F)
    <3> DEFINE v == P + (i - 1)
    <3> HIDE DEF t
    <3>1. t \in Nat /\ i \in Nat \ {0} /\ i <= j - P
      BY <1>1, <2>1, <2>2, <2>3
    <3>2. v \in Nat /\ v < j /\ P <= v /\ v <= P + n - 1
      BY <1>1, <2>1, <2>4, <3>1
    <3>3. v \in Pages
      <4> HIDE DEF v
      <4> QED BY <1>3, <3>2, EntrySizes DEF Pages
    <3>4. v \in Segment(P, n)
      <4> HIDE DEF v
      <4> QED BY <1>1, <3>2 DEF Segment
    <3>5. PageOf(RangeAddress(b, i)) = v
          /\ RangeWord(b, i, SharedFlags) = Word(v, SharedFlags)
      BY <1>1, <3>1, <3>3, RangePage
    <3> HIDE DEF v
    <3> QED BY <3>3, <3>4, <3>5 DEF Itself
  <2> QED BY <2>5 DEF RangeOk
<1>6. Remapped(m, paging_map_range(m, s, b, b, e, SharedFlags), s, Itself(F))
  <2> HIDE DEF b
  <2> QED BY <1>1, <1>2, <1>4, <1>5, MapRange DEF b
<1> QED BY <1>6 DEF e, a

(* With the layout of ProgramLayout, every page of the segments and of the *)
(* stack is mapped, and to the right frame.                                *)
Proper(q) == {z \in Pages \X Words : Right(q, z[1], z[2])}

LEMMA RangeProper ==
  ASSUME NEW q, NEW V \in Nat, NEW P \in Nat, NEW n \in Nat,
         NEW flags \in SUBSET KernelFlags,
         PagesFrom(V, n) \subseteq Pages,
         \A u \in PagesFrom(V, n) : Right(q, u, Word(P + (u - V), flags))
  PROVE  RangeOk(Address(V), Address(P), n, flags, Proper(q))
<1> SUFFICES ASSUME NEW i \in 1 .. n
             PROVE  <<PageOf(RangeAddress(Address(V), i)),
                      RangeWord(Address(P), i, flags)>> \in Proper(q)
  BY DEF RangeOk
<1> DEFINE u == V + (i - 1)
           w == Word(P + (i - 1), flags)
<1>1. u \in PagesFrom(V, n) /\ i \in Nat \ {0} /\ P + (i - 1) \in Nat
      /\ u - V = i - 1
  BY DEF PagesFrom
<1>2. u \in Pages
  BY <1>1
<1>3. PageOf(RangeAddress(Address(V), i)) = u
      /\ RangeWord(Address(P), i, flags) = w
  BY <1>1, <1>2, RangePage
<1>4. Right(q, u, w) /\ w \in Words
  BY <1>1, WordTyped
<1> HIDE DEF u, w
<1>5. <<u, w>> \in Proper(q)
  BY <1>2, <1>4 DEF Proper
<1> QED BY <1>3, <1>5

LEMMA RangeMapped ==
  ASSUME NEW x \in Memories, NEW s, Space(x, s), NEW V \in Nat, NEW P \in Nat,
         NEW e \in Nat, NEW flags \in SUBSET KernelFlags, NEW ok,
         ~MapRangeFails(Address(V), Address(P), e), NEW n \in Nat,
         n = (e - Address(P)) \div PAGE_SIZE,
         RangeOk(Address(V), Address(P), n, flags, ok),
         PagesFrom(V, n) \subseteq Pages, NEW u \in PagesFrom(V, n)
  PROVE  <<u, PageWord(paging_map_range(x, s, Address(V), Address(P), e, flags),
                       s, u)>> \in ok
<1> DEFINE i == u - V + 1
           a == Address(V)
           b == Address(P)
<1>1. i \in 1 .. n /\ i \in Nat \ {0} /\ u = V + (i - 1) /\ u \in Pages
  BY DEF PagesFrom
<1>2. a \in Nat /\ b \in Nat
  BY AddressLinear
<1> HIDE DEF i
<1>3. PageOf(RangeAddress(a, i)) = u /\ address_page_aligned(RangeAddress(a, i))
  BY <1>1, RangePage
<1>4. ~MapRangeFails(a, b, e) /\ n = (e - b) \div PAGE_SIZE
      /\ RangeOk(a, b, n, flags, ok)
  OBVIOUS
<1> HIDE DEF a, b
<1>5. <<PageOf(RangeAddress(a, i)),
        PageWord(paging_map_range(x, s, a, b, e, flags), s,
                 PageOf(RangeAddress(a, i)))>> \in ok
  BY <1>1, <1>2, <1>3, <1>4, MapRangeAll
<1> QED BY <1>3, <1>5 DEF a, b

(* The pages of a segment: another segment puts the same frames there, and *)
(* the stack lies elsewhere.                                               *)
LEMMA SegmentRight ==
  ASSUME NEW q, Backed(q), ProgramLayout, q.type = "PROCESS_ELF_FILE",
         NEW i \in DOMAIN q.file.phdrs,
         NEW u \in SegmentPages(q.file.phdrs[i]), NEW flags
  PROVE  LET h == q.file.phdrs[i]
             w == Word(q.data + PageOf(h.p_offset) + (u - PageOf(h.p_vaddr)),
                       flags)
         IN  Right(q, u, w)
<1> DEFINE V(j) == PageOf(q.file.phdrs[j].p_vaddr)
           o(j) == PageOf(q.file.phdrs[j].p_offset)
           w == Word(q.data + o(i) + (u - V(i)), flags)
           D == DOMAIN q.file.phdrs
<1>1. q.file \in Files /\ q.data \in Nat /\ LaidOut(q.file.phdrs)
  BY PagesAre DEF Backed, ProgramLayout
<1>2. \A j \in D : V(j) \in Nat /\ o(j) \in Nat
  BY <1>1, FileTyped, PageSplit
<1>3. u \notin StackPages
  BY <1>1 DEF LaidOut
<1>4. u \in Nat /\ V(i) <= u
  <2>1. u \in V(i) .. (Blocks(q.file.phdrs[i].p_vaddr
                             + q.file.phdrs[i].p_memsz) - 1)
    BY DEF SegmentPages
  <2>2. V(i) \in Nat
    BY <1>2
  <2> HIDE DEF V
  <2> QED BY <2>1, <2>2
<1>5. \A j \in D : u \in SegmentPages(q.file.phdrs[j]) =>
                    o(i) + V(j) = o(j) + V(i)
  BY <1>1 DEF LaidOut
<1>6. w.frame = q.data + o(i) + (u - V(i))
  BY DEF Word
<1> HIDE DEF V, o, w
<1>7. ASSUME NEW j \in D, u \in SegmentPages(q.file.phdrs[j])
      PROVE  w.frame + V(j) = q.data + o(j) + u
  BY <1>1, <1>2, <1>4, <1>5, <1>6, <1>7
<1>8. Right(q, u, w)
  BY <1>3, <1>7 DEF Right, V, o
<1> QED BY <1>8 DEF w, V, o

LEMMA HeaderProper ==
  ASSUME NEW q, Backed(q), ProgramLayout, q.type = "PROCESS_ELF_FILE",
         NEW i \in DOMAIN q.file.phdrs
  PROVE  LET h == q.file.phdrs[i]
         IN  /\ HeaderOk(q, h, Proper(q))
             /\ ~MapRangeFails(MapVaddr(h), MapPaddr(q, h), MapEnd(q, h)) =>
                  \A x \in Memories : Space(x, q.space) =>
                    \A u \in SegmentPages(h) :
                      <<u, PageWord(MapOf(x, q, h), q.space, u)>> \in Proper(q)
<1> DEFINE h == q.file.phdrs[i]
           n == (MapEnd(q, h) - MapPaddr(q, h)) \div PAGE_SIZE
           V == PageOf(h.p_vaddr)
           P == q.data + PageOf(h.p_offset)
           e == MapEnd(q, h)
           flags == MapFlags(h)
<1>1. /\ MapVaddr(h) \in Nat /\ MapPaddr(q, h) \in Nat
      /\ e \in Nat /\ flags \in SUBSET KernelFlags
  BY HeaderTyped
<1>2. SegmentPages(h) \subseteq UserPages /\ UserMemory
  BY DEF ProgramLayout, UserMemory, SegmentInUserMemory, SegmentPages, Backed
<1>3. \A u \in SegmentPages(h) : Right(q, u, Word(P + (u - V), flags))
  BY SegmentRight
<1>4. ASSUME ~MapRangeFails(MapVaddr(h), MapPaddr(q, h), e)
      PROVE  /\ RangeOk(MapVaddr(h), MapPaddr(q, h), n, flags, Proper(q))
             /\ \A x \in Memories : Space(x, q.space) =>
                  \A u \in SegmentPages(h) :
                    <<u, PageWord(MapOf(x, q, h), q.space, u)>> \in Proper(q)
  <2>1. PICK k \in Nat : HeaderMaps(q, h, k)
    BY <1>2, <1>4, HeaderRange
  <2> HIDE DEF h
  <2>2. /\ P \in Nat /\ V \in Nat /\ MapVaddr(h) = Address(V)
        /\ MapPaddr(q, h) = Address(P) /\ n = k
        /\ Blocks(h.p_vaddr + h.p_memsz) = V + k
    BY <2>1 DEF HeaderMaps
  <2>3. SegmentPages(h) = PagesFrom(V, k)
    BY <2>2 DEF SegmentPages, PagesFrom
  <2>4. PagesFrom(V, k) \subseteq Pages
    BY <1>2, <2>3 DEF UserPages
  <2>5. k = (e - Address(P)) \div PAGE_SIZE
        /\ ~MapRangeFails(Address(V), Address(P), e)
    BY <1>4, <2>2
  <2>6. \A x : MapOf(x, q, h) = paging_map_range(x, q.space, Address(V),
                                                 Address(P), e, flags)
    BY <2>2 DEF MapOf
  <2>7. \A u \in PagesFrom(V, k) : Right(q, u, Word(P + (u - V), flags))
    BY <1>3, <2>3
  <2> HIDE DEF n, V, P, e, flags
  <2>8. RangeOk(Address(V), Address(P), k, flags, Proper(q))
    BY <1>1, <2>2, <2>4, <2>7, RangeProper
  <2>9. ASSUME NEW x \in Memories, Space(x, q.space), NEW u \in PagesFrom(V, k)
        PROVE  <<u, PageWord(paging_map_range(x, q.space, Address(V), Address(P),
                               e, flags), q.space, u)>> \in Proper(q)
    BY <1>1, <2>2, <2>4, <2>5, <2>8, <2>9, RangeMapped
  <2> QED BY <2>2, <2>3, <2>6, <2>8, <2>9
<1> QED BY <1>1, <1>4 DEF HeaderOk

(* A region is mapped in full.                                             *)
MapsProperly(x, r, q, pages) ==
  /\ Remapped(x, r, q.space, Proper(q))
  /\ \A u \in pages : <<u, PageWord(r, q.space, u)>> \in Proper(q)

LEMMA RegionProper ==
  ASSUME NEW q, NEW x \in Memories, Space(x, q.space), NEW V \in Nat,
         NEW P \in HeapFrames, NEW K \in Nat, NEW size \in Nat,
         size <= Address(K), Segment(P, K) \subseteq HeapFrames,
         NEW flags \in SUBSET KernelFlags,
         ~MapRangeFails(Address(V), Address(P), RegionEndOf(P, size)),
         PagesFrom(V, Blocks(size)) \subseteq Pages,
         \A u \in PagesFrom(V, Blocks(size)) :
           Right(q, u, Word(P + (u - V), flags))
  PROVE  MapsProperly(x, paging_map_range(x, q.space, Address(V), Address(P),
                           RegionEndOf(P, size), flags),
                      q, PagesFrom(V, Blocks(size)))
<1> DEFINE k == Blocks(size)
           e == RegionEndOf(P, size)
           a == Address(V)
           b == Address(P)
           r == paging_map_range(x, q.space, a, b, e, flags)
<1>1. P \in Nat \ {0} /\ P + K <= PAGE_DIR_ENTRIES * PAGE_TABLE_ENTRIES
  BY SegmentEnd
<1>2. a \in Nat /\ b \in Nat /\ e \in Nat
  BY <1>1, AddressLinear, RegionTyped
<1>3. ~MapRangeFails(a, b, e)
  OBVIOUS
<1>4. k \in Nat /\ k = (e - b) \div PAGE_SIZE
  <2> HIDE DEF a
  <2> QED BY <1>1, <1>2, <1>3, RegionLength
<1>5. RangeOk(a, b, k, flags, Proper(q))
  <2> HIDE DEF k
  <2> QED BY <1>1, <1>4, RangeProper DEF k
<1>6. ASSUME NEW u \in PagesFrom(V, k)
      PROVE  <<u, PageWord(r, q.space, u)>> \in Proper(q)
  <2> HIDE DEF k, e
  <2> QED BY <1>1, <1>2, <1>3, <1>4, <1>5, RangeMapped DEF k
<1>7. Remapped(x, r, q.space, Proper(q))
  <2> HIDE DEF k, e, a, b
  <2> QED BY <1>2, <1>3, <1>4, <1>5, MapRange
<1> QED BY <1>6, <1>7 DEF MapsProperly

LEMMA AlignedIs ==
  ASSUME NEW a \in Nat, address_page_aligned(a) PROVE a = Address(PageOf(a))
<1>1. a = Address(PageOf(a)) + (a % PAGE_SIZE) /\ a % PAGE_SIZE = 0
      /\ Address(PageOf(a)) \in Nat
  BY PageSplit, AddressLinear DEF address_page_aligned
<1> QED BY <1>1

(* The stack, which is mapped last ...                                     *)
LEMMA StackProper ==
  ASSUME NEW q, Backed(q), ProgramLayout, NEW x \in Memories,
         Space(x, q.space), ~MapMemoryFails(q)
  PROVE  MapsProperly(x, MapStack(x, q), q, StackPages)
<1> DEFINE V == PageOf(TASK_DEFAULT_STACK_END)
           P == q.stack
           flags == TaskFlags \cup {"WRITE"}
<1>1. V \in Nat /\ P \in HeapFrames /\ flags \in SUBSET KernelFlags
      /\ Segment(P, StackBlocks) \subseteq HeapFrames
  BY StackFits, PageSplit DEF Backed, KernelFlags, TaskFlags
<1>2. StackEnd(q) = RegionEndOf(P, TASK_STACK_SIZE)
  BY DEF StackEnd, RegionEndOf
<1>3. ~MapRangeFails(TASK_DEFAULT_STACK_END, Address(P), StackEnd(q))
  BY DEF MapMemoryFails
<1>4. TASK_DEFAULT_STACK_END = Address(V)
  <2>1. address_page_aligned(TASK_DEFAULT_STACK_END)
    BY <1>3 DEF MapRangeFails
  <2> QED BY <2>1, StackFits, AlignedIs
<1>5. StackPages = PagesFrom(V, Blocks(TASK_STACK_SIZE))
      /\ StackPages \subseteq Pages
  BY DEF StackPages, ProgramLayout, UserMemory, UserPages
<1>6. ASSUME NEW u \in StackPages
      PROVE  Right(q, u, Word(P + (u - V), flags))
  <2>1. q.file \in Files
    BY DEF Backed
  <2>2. /\ \A j \in DOMAIN q.file.phdrs : u \notin SegmentPages(q.file.phdrs[j])
        /\ u \notin BinaryPages(q.file)
    BY <2>1 DEF ProgramLayout, LaidOut
  <2> QED BY <2>2 DEF Right
<1>7. MapStack(x, q) = paging_map_range(x, q.space, Address(V), Address(P),
                         RegionEndOf(P, TASK_STACK_SIZE), flags)
  BY <1>2, <1>4 DEF MapStack
<1>8. ~MapRangeFails(Address(V), Address(P), RegionEndOf(P, TASK_STACK_SIZE))
  BY <1>2, <1>3, <1>4
<1> HIDE DEF V, P, flags
<1> QED BY <1>1, <1>5, <1>6, <1>7, <1>8, StackFits, RegionProper

(* ... and a raw program.                                                  *)
LEMMA BinaryProper ==
  ASSUME NEW q, Backed(q), ProgramLayout, NEW x \in Memories,
         Space(x, q.space), ~MapMemoryFails(q), q.type = "PROCESS_BIN_FILE"
  PROVE  MapsProperly(x, process_map_binary(x, q), q, BinaryPages(q.file))
<1> DEFINE V == PageOf(TASK_DEFAULT_START)
           P == q.data
           size == q.file.size
           B == Blocks(size)
           flags == TaskFlags \cup {"WRITE"}
<1>1. V \in Nat /\ P \in HeapFrames /\ flags \in SUBSET KernelFlags
      /\ Segment(P, B) \subseteq HeapFrames /\ q.file \in Files
      /\ size \in Nat /\ B \in Nat /\ size <= Address(B) /\ P \in Nat
  BY StackFits, PageSplit, FileTyped, Ceil, PagesAre
  DEF Backed, KernelFlags, TaskFlags
<1>2. BinaryEnd(q) = RegionEndOf(P, size)
  BY DEF BinaryEnd, RegionEndOf
<1>3. ~MapRangeFails(TASK_DEFAULT_START, Address(P), BinaryEnd(q))
  BY DEF MapMemoryFails
<1>4. TASK_DEFAULT_START = Address(V)
  <2>1. address_page_aligned(TASK_DEFAULT_START)
    BY <1>3 DEF MapRangeFails
  <2> QED BY <2>1, StackFits, AlignedIs
<1>5. BinaryPages(q.file) = PagesFrom(V, B)
      /\ BinaryPages(q.file) \subseteq Pages
  BY <1>1 DEF BinaryPages, ProgramLayout, UserMemory, UserPages
<1>6. ASSUME NEW u \in BinaryPages(q.file)
      PROVE  Right(q, u, Word(P + (u - V), flags))
  <2>1. u \notin StackPages
    BY <1>1 DEF ProgramLayout
  <2>2. u \in Nat /\ V <= u
    BY <1>1, <1>5 DEF PagesFrom
  <2>3. (P + (u - V)) + V = P + u
    <3> HIDE DEF V, P
    <3> QED BY <1>1, <2>2
  <2> QED BY <2>1, <2>3 DEF Right, Word
<1>7. process_map_binary(x, q) =
        paging_map_range(x, q.space, Address(V), Address(P),
                         RegionEndOf(P, size), flags)
  BY <1>2, <1>4 DEF process_map_binary
<1>8. ~MapRangeFails(Address(V), Address(P), RegionEndOf(P, size))
  BY <1>2, <1>3, <1>4
<1>9. BinaryPages(q.file) = PagesFrom(V, Blocks(size)) /\ B = Blocks(size)
  BY <1>5
<1> HIDE DEF V, P, size, B, flags
<1> QED BY <1>1, <1>5, <1>6, <1>7, <1>8, <1>9, RegionProper

LEMMA MapMemoryRight ==
  ASSUME NEW m \in Memories, NEW q, Backed(q), Space(m, q.space),
         q.type \in {"PROCESS_ELF_FILE", "PROCESS_BIN_FILE"},
         ProgramLayout, ~MapMemoryFails(q), NEW v \in UserPages
  PROVE  Right(q, v, PageWord(process_map_memory(m, q), q.space, v))
<1> DEFINE s == q.space
           x == IF q.type = "PROCESS_ELF_FILE" THEN process_map_elf(m, q)
                                               ELSE process_map_binary(m, q)
           y == MapStack(x, q)
<1>1. process_map_memory(m, q) = y
  BY DEF process_map_memory
<1>2. x \in Memories /\ Space(x, s)
  <2>1. Remapped(m, x, s, Allowed(q))
    BY ProgramMapped
  <2> HIDE DEF x
  <2> QED BY <2>1, RemappedSpace DEF Remapped, SameSpace
<1>3. v \in Pages
  BY DEF UserPages
<1>4. /\ Remapped(x, y, s, Proper(q))
      /\ v \in StackPages => <<v, PageWord(y, s, v)>> \in Proper(q)
  <2> HIDE DEF x
  <2> QED BY <1>2, StackProper DEF MapsProperly
<1>5. ASSUME q.type = "PROCESS_ELF_FILE", NEW i \in DOMAIN q.file.phdrs,
             v \in SegmentPages(q.file.phdrs[i])
      PROVE  <<v, PageWord(x, s, v)>> \in Proper(q)
  <2> DEFINE h == q.file.phdrs[i]
  <2>1. ~MapRangeFails(MapVaddr(h), MapPaddr(q, h), MapEnd(q, h))
    BY <1>5 DEF MapMemoryFails
  <2>2. \A z \in Memories : Space(z, s) =>
          <<v, PageWord(MapOf(z, q, h), s, v)>> \in Proper(q)
    BY <1>5, <2>1, HeaderProper
  <2>3. \A j \in DOMAIN q.file.phdrs : HeaderOk(q, q.file.phdrs[j], Proper(q))
    BY <1>5, HeaderProper
  <2>4. q.file \in Files
    BY DEF Backed
  <2>5. <<v, PageWord(process_map_elf(m, q), s, v)>> \in Proper(q)
    BY <1>3, <2>2, <2>3, <2>4, MapElfAll
  <2> QED BY <1>5, <2>5
<1>6. ASSUME q.type = "PROCESS_BIN_FILE", v \in BinaryPages(q.file)
      PROVE  <<v, PageWord(x, s, v)>> \in Proper(q)
  BY <1>6, BinaryProper DEF MapsProperly
<1> HIDE DEF x, y
<1>7. \/ PageWord(y, s, v) = PageWord(x, s, v)
      \/ <<v, PageWord(y, s, v)>> \in Proper(q)
  BY <1>3, <1>4 DEF Remapped
<1>8. \A w : <<v, w>> \in Proper(q) => Right(q, v, w)
  BY DEF Proper
<1>9. CASE <<v, PageWord(y, s, v)>> \in Proper(q)
  BY <1>1, <1>8, <1>9
<1>10. CASE <<v, PageWord(y, s, v)>> \notin Proper(q)
  <2>1. v \notin StackPages
    BY <1>4, <1>10
  <2>2. q.type = "PROCESS_ELF_FILE" =>
          \A i \in DOMAIN q.file.phdrs : v \notin SegmentPages(q.file.phdrs[i])
    BY <1>5, <1>7, <1>10
  <2>3. q.type = "PROCESS_BIN_FILE" => v \notin BinaryPages(q.file)
    BY <1>6, <1>7, <1>10
  <2> QED BY <1>1, <2>1, <2>2, <2>3 DEF Right
<1> QED BY <1>9, <1>10
-----------------------------------------------------------------------------
(* process_new.                                                            *)
LEMMA GrowsTwice ==
  ASSUME NEW m, NEW n, NEW k, Grows(m, n), Grows(n, k)
  PROVE  Grows(m, k)
  BY DEF Grows

LEMMA GrowsTyped ==
  ASSUME NEW m, NEW n, Grows(m, n)
  PROVE  n \in Memories /\ n.free \subseteq m.free
  BY DEF Grows

LEMMA DestroyFacts ==
  ASSUME NEW m \in Memories, NEW s, Space(m, s)
  PROVE  LET n == destroy_virtual_address_space(m, s)
         IN  /\ n \in Memories /\ n.word = m.word
             /\ m.free \subseteq n.free
             /\ n.free \subseteq m.free \cup FramesOf(m, s)
<1> DEFINE x == [m EXCEPT !.free = @ \cup (Tables(m, s) \cap HeapFrames)]
           y == kfree(x, pd_of(m, s))
<1>1. destroy_virtual_address_space(m, s) = kfree(y, s)
  BY DEF destroy_virtual_address_space
<1>2. m = [free |-> m.free, word |-> m.word] /\ m.free \subseteq HeapFrames
      /\ m.word \in [Pages -> [Entries -> Words]]
  BY MemoryTyped
<1>3. x.free = m.free \cup (Tables(m, s) \cap HeapFrames) /\ x.word = m.word
      /\ x = [free |-> x.free, word |-> x.word]
  <2> DEFINE t == Tables(m, s) \cap HeapFrames
  <2> HIDE DEF t
  <2>1. x = [m EXCEPT !.free = m.free \cup t]
    BY Zenon DEF t
  <2> HIDE DEF x
  <2>2. x.free = m.free \cup t /\ x.word = m.word
        /\ x = [free |-> x.free, word |-> x.word]
    BY <1>2, <2>1
  <2> QED BY <2>2 DEF t
<1> HIDE DEF x
<1>4. x \in Memories
  <2>1. x.free \in SUBSET HeapFrames
        /\ x.word \in [Pages -> [Entries -> Words]]
    BY <1>2, <1>3
  <2> QED BY <1>3, <2>1 DEF Memories
<1>5. y \in Memories /\ y.word = x.word
      /\ y.free = x.free \cup ({pd_of(m, s)} \cap HeapFrames)
  BY <1>4, FreeFacts
<1> HIDE DEF y
<1> DEFINE n == kfree(y, s)
<1>6. n \in Memories /\ n.word = y.word
      /\ n.free = y.free \cup ({s} \cap HeapFrames)
  BY <1>5, FreeFacts
<1> HIDE DEF n
<1>7. n.word = m.word /\ m.free \subseteq n.free
      /\ n.free \subseteq m.free \cup FramesOf(m, s)
  BY <1>3, <1>5, <1>6 DEF FramesOf
<1> QED BY <1>1, <1>6, <1>7 DEF n

LEMMA CloseGrows ==
  ASSUME NEW m \in Memories, NEW n, NEW q, Grows(m, n), Space(n, q.space),
         FramesOf(n, q.space) \subseteq m.free, q.task \in m.free
  PROVE  Grows(m, close_task(n, q))
<1> DEFINE k == destroy_virtual_address_space(n, q.space)
<1>1. n \in Memories /\ n.free \subseteq m.free
  BY GrowsTyped
<1>2. /\ k \in Memories /\ k.word = n.word
      /\ k.free \subseteq n.free \cup FramesOf(n, q.space)
  BY <1>1, DestroyFacts
<1> HIDE DEF k
<1>3. Grows(m, k)
  BY <1>1, <1>2 DEF Grows
<1>4. Grows(m, kfree(k, q.task))
  BY <1>3, FreeGrows
<1>5. Grows(m, kfree(kfree(k, q.task), q.task))
  BY <1>4, FreeGrows
<1> QED BY <1>5 DEF close_task, k

LEMMA FailsFacts ==
  ASSUME NEW m \in Memories, NEW n, Grows(m, n), NEW s \in m.free \cup {0},
         NEW p \in m.free \cup {0}
  PROVE  /\ Grows(m, Fails(n, s, p).ram)
         /\ Fails(n, s, p).process = NoProcess
         /\ Fails(n, s, p).partial = FALSE
<1>1. Grows(m, kfree(n, s))
  BY FreeGrows
<1>2. Grows(m, kfree(kfree(n, s), p))
  BY <1>1, FreeGrows
<1> QED BY <1>2 DEF Fails

(* What process_new does to the memory m when the tables do not run out of *)
(* memory: only free frames are used, and the process holds its own.       *)
Started(m, new) ==
  /\ Grows(m, new.ram)
  /\ new.process # NoProcess =>
       LET q == new.process
       IN  /\ q \in Processes /\ q.mem_allocations = NoAllocations
           /\ Space(new.ram, q.space)
           /\ Given(new.ram, q) \subseteq m.free \ new.ram.free
           /\ Held(q) \cap FramesOf(new.ram, q.space) = {}
           /\ UserMemory => \A v \in Pages :
                              Fine(q, v, PageWord(new.ram, q.space, v))
           /\ ProgramLayout => \A v \in UserPages :
                                 Right(q, v, PageWord(new.ram, q.space, v))

LEMMA FailsStarted ==
  ASSUME NEW m \in Memories, NEW n, Grows(m, n), NEW s \in m.free \cup {0},
         NEW p \in m.free \cup {0}
  PROVE  Started(m, Fails(n, s, p))
  BY FailsFacts DEF Started

(* A process that has everything but mappings.                             *)
Unmapped(m, n, q) ==
  /\ Grows(m, n)
  /\ q \in Processes /\ q.mem_allocations = NoAllocations /\ Backed(q)
  /\ Space(n, q.space)
  /\ Given(n, q) \subseteq m.free \ n.free
  /\ Held(q) \cap FramesOf(n, q.space) = {}
  /\ \A v \in Pages : PageWord(n, q.space, v) = Word(v, TaskFlags)

LEMMA HeldAre ==
  ASSUME NEW q \in Processes
  PROVE  /\ {q.struct, q.task, q.stack, q.data} \subseteq Held(q)
         /\ q.elf \in Held(q) \cup {0}
  BY PagesAre DEF Processes, Held

LEMMA MappedStarted ==
  ASSUME NEW m \in Memories, NEW n, NEW q, Unmapped(m, n, q), NEW partial
  PROVE  Started(m, Mapped(n, q, partial))
<1> DEFINE s == q.space
           new == Mapped(n, q, partial)
<1>1. /\ n \in Memories /\ Grows(m, n) /\ q \in Processes /\ Backed(q)
      /\ q.mem_allocations = NoAllocations
      /\ Space(n, s) /\ Held(q) \subseteq m.free \ n.free
      /\ FramesOf(n, s) \subseteq m.free \ n.free
      /\ Held(q) \cap FramesOf(n, s) = {}
      /\ \A v \in Pages : PageWord(n, s, v) = Word(v, TaskFlags)
  BY GrowsTyped DEF Unmapped, Given
<1>2. {q.struct, q.task, q.stack} \subseteq m.free
  BY <1>1, HeldAre
<1>3. CASE MapMemoryFails(q)
  <2> DEFINE f == Fails(close_task(n, q), q.stack, q.struct)
  <2>1. Grows(m, close_task(n, q))
    BY <1>1, <1>2, CloseGrows
  <2>2. Grows(m, f.ram) /\ f.process = NoProcess
    <3> DEFINE c == close_task(n, q)
               a == q.stack
               b == q.struct
    <3> HIDE DEF a, b, c
    <3>1. Grows(m, c) /\ a \in m.free \cup {0} /\ b \in m.free \cup {0}
      BY <1>2, <2>1 DEF a, b, c
    <3>2. Grows(m, Fails(c, a, b).ram) /\ Fails(c, a, b).process = NoProcess
      BY <3>1, FailsFacts
    <3> QED BY <3>2 DEF a, b, c
  <2>3. new.ram = f.ram /\ new.process = f.process
    BY <1>3 DEF Mapped, Fails
  <2> QED BY <2>2, <2>3 DEF Started
<1>4. CASE ~MapMemoryFails(q)
  <2> DEFINE k == process_map_memory(n, q)
  <2>1. new.ram = k /\ new.process = q
    BY <1>4 DEF Mapped
  <2>2. Remapped(n, k, s, Allowed(q))
    BY <1>1, MapMemory
  <2>3. ProgramLayout => \A v \in UserPages : Right(q, v, PageWord(k, s, v))
    BY <1>1, <1>4, MapMemoryRight DEF Processes
  <2> HIDE DEF k
  <2>4. SameSpace(n, k, s) /\ k.free = n.free /\ k \in Memories
    BY <1>1, <2>2, RemappedSpace DEF Remapped
  <2>5. Space(k, s) /\ FramesOf(k, s) = FramesOf(n, s)
        /\ Tables(n, s) \subseteq m.free
    BY <1>1, <2>4, FramesAre DEF SameSpace
  <2>6. Grows(m, k)
    BY <1>1, <2>2, <2>4, <2>5 DEF Grows, Remapped
  <2>7. ASSUME UserMemory, NEW v \in Pages
        PROVE  Fine(q, v, PageWord(k, s, v))
    <3>1. CASE PageWord(k, s, v) = PageWord(n, s, v)
      <4>1. PageWord(k, s, v) = Word(v, TaskFlags)
        BY <1>1, <3>1
      <4>2. Fine(q, v, Word(v, TaskFlags))
        BY DEF Fine, Word, TaskFlags
      <4> QED BY <4>1, <4>2
    <3>2. CASE <<v, PageWord(k, s, v)>> \in Allowed(q)
      BY <2>7, <3>2 DEF Allowed
    <3> QED BY <2>2, <3>1, <3>2 DEF Remapped
  <2>8. Given(k, q) \subseteq m.free \ k.free
    BY <1>1, <2>4, <2>5 DEF Given
  <2> QED BY <1>1, <2>1, <2>5, <2>6, <2>7, <2>8, <2>3 DEF Started
<1> QED BY <1>3, <1>4

LEMMA NothingAllocated == NoAllocations \in Allocations
  BY DEF NoAllocations, Allocations, Allocation

(* A process on its way: its task may be missing, its space is.            *)
Unfinished(tasks) ==
  [type : {"PROCESS_ELF_FILE", "PROCESS_BIN_FILE"}, file : Files,
   struct : HeapFrames, stack : HeapFrames, elf : HeapFrames \cup {0},
   data : HeapFrames, task : tasks, space : {0},
   mem_allocations : {NoAllocations}, freed : {FALSE}]

Prepared(m, n, q, tasks) ==
  /\ Grows(m, n)
  /\ q \in Unfinished(tasks) /\ Backed(q)
  /\ Held(q) \subseteq m.free \ n.free

LEMMA PreparedFrees ==
  ASSUME NEW m \in Memories, NEW n, NEW q, NEW tasks,
         Prepared(m, n, q, tasks)
  PROVE  q.stack \in m.free /\ q.struct \in m.free
<1>1. q.struct \in HeapFrames /\ q.stack \in HeapFrames
  BY DEF Prepared, Unfinished
<1> QED BY <1>1, PagesAre DEF Prepared, Held

LEMMA WithSpaceStarted ==
  ASSUME NEW m \in Memories, NEW n, NEW q, Prepared(m, n, q, HeapFrames),
         ~WithSpace(n, q).partial
  PROVE  Started(m, WithSpace(n, q))
<1> DEFINE v == create_virtual_address_space(n, TaskFlags)
           z == [q EXCEPT !.space = v.at]
           few == Cardinality(n.free) < PAGE_DIR_ENTRIES + 3
<1>1. WithSpace(n, q) = IF v.at = 0 THEN Fails(v.ram, q.stack, q.struct)
                        ELSE Mapped(v.ram, z, few)
  BY DEF WithSpace
<1>2. n \in Memories /\ n.free \subseteq m.free /\ Grows(m, n)
      /\ q.stack \in m.free /\ q.struct \in m.free
  BY GrowsTyped, PreparedFrees DEF Prepared
<1>3. TaskFlags \in SUBSET KernelFlags
  BY DEF TaskFlags, KernelFlags
<1>4. Grows(n, v.ram) /\ Grows(m, v.ram) /\ v.ram.free \subseteq n.free
  <2>1. Grows(n, v.ram)
    BY <1>2, <1>3, CreateGrows
  <2> QED BY <1>2, <2>1, GrowsTwice, GrowsTyped
<1>5. ASSUME ~few PROVE Created(n, v, TaskFlags)
  <2>1. PAGE_DIR_ENTRIES + 3 <= Cardinality(n.free)
    BY <1>2, <1>5, FreeFinite, EntrySizes
  <2> QED BY <1>2, <1>3, <2>1, CreateFacts
<1> HIDE DEF v, few
<1>6. CASE v.at = 0
  <2> DEFINE a == q.stack
             b == q.struct
             c == v.ram
  <2>1. Grows(m, c) /\ a \in m.free \cup {0} /\ b \in m.free \cup {0}
    BY <1>2, <1>4
  <2>2. WithSpace(n, q) = Fails(c, a, b)
    BY <1>1, <1>6
  <2> HIDE DEF a, b, c
  <2> QED BY <2>1, <2>2, FailsStarted
<1>7. CASE v.at # 0
  <2>1. WithSpace(n, q) = Mapped(v.ram, z, few)
    BY <1>1, <1>7
  <2>2. Mapped(v.ram, z, few).partial = few
    BY DEF Mapped, Fails
  <2>3. ~few
    BY <2>1, <2>2
  <2>5. Created(n, v, TaskFlags)
    BY <1>5, <2>3
  <2>6. /\ v.at \in n.free /\ Space(v.ram, v.at)
        /\ FramesOf(v.ram, v.at) \subseteq n.free \ v.ram.free
        /\ \A page \in Pages : PageWord(v.ram, v.at, page)
                                 = Word(page, TaskFlags)
    BY <2>5 DEF Created
  <2>7. /\ q \in Unfinished(HeapFrames) /\ Backed(q)
        /\ Held(q) \subseteq m.free \ n.free
    BY DEF Prepared
  <2>8. v.at \in HeapFrames
    BY <1>2, <2>6, MemoryTyped
  <2>9. /\ z.space = v.at /\ z.stack = q.stack /\ z.struct = q.struct
        /\ z.elf = q.elf /\ z.data = q.data /\ z.task = q.task
        /\ z.file = q.file /\ z \in Processes
        /\ z.mem_allocations = NoAllocations
    BY <2>7, <2>8, NothingAllocated DEF Unfinished, Processes
  <2> HIDE DEF z
  <2>10. Held(z) = Held(q) /\ Backed(z)
    BY <2>7, <2>9 DEF Held, Program, Backed
  <2>11. Given(v.ram, z) \subseteq m.free \ v.ram.free
         /\ Held(z) \cap FramesOf(v.ram, z.space) = {}
    BY <1>2, <1>4, <2>6, <2>7, <2>9, <2>10 DEF Given
  <2>12. Unmapped(m, v.ram, z)
    BY <1>4, <2>6, <2>9, <2>10, <2>11 DEF Unmapped
  <2>13. Started(m, Mapped(v.ram, z, few))
    <3> DEFINE c == v.ram
    <3>1. Unmapped(m, c, z)
      BY <2>12
    <3> HIDE DEF c
    <3>2. Started(m, Mapped(c, z, few))
      BY <3>1, MappedStarted
    <3> QED BY <3>2 DEF c
  <2> QED BY <2>1, <2>13
<1> QED BY <1>6, <1>7

LEMMA WithTaskStarted ==
  ASSUME NEW m \in Memories, NEW n, NEW q, Prepared(m, n, q, {0}),
         ~WithTask(n, q).partial
  PROVE  Started(m, WithTask(n, q))
<1> DEFINE t == Fit(n, 1)
           k == kzalloc(n, 1)
           z == [q EXCEPT !.task = t]
<1>1. WithTask(n, q) = IF t = 0 THEN Fails(n, q.stack, q.struct)
                       ELSE WithSpace(k, z)
  BY DEF WithTask, Alloc
<1>2. n \in Memories /\ n.free \subseteq m.free /\ Grows(m, n)
      /\ q.stack \in m.free /\ q.struct \in m.free
  BY GrowsTyped, PreparedFrees DEF Prepared
<1>3. Grows(m, k) /\ k.free \subseteq n.free
      /\ (t # 0 => t \in n.free /\ t \notin k.free /\ t \in HeapFrames)
  <2>1. Grows(m, k)
    BY <1>2, AllocGrows
  <2>2. t # 0 => t \in n.free /\ t \in Segment(t, 1)
                 /\ k.free = n.free \ Segment(t, 1)
    BY <1>2, AllocFacts
  <2>3. t = 0 => k = n
    BY <1>2, AllocFacts
  <2>4. n.free \subseteq HeapFrames
    BY <1>2, MemoryTyped
  <2> HIDE DEF t, k
  <2> QED BY <2>1, <2>2, <2>3, <2>4
<1> HIDE DEF t, k
<1>4. CASE t = 0
  <2> DEFINE a == q.stack
             b == q.struct
  <2>1. a \in m.free \cup {0} /\ b \in m.free \cup {0}
    BY <1>2
  <2>2. WithTask(n, q) = Fails(n, a, b)
    BY <1>1, <1>4
  <2> HIDE DEF a, b
  <2> QED BY <1>2, <2>1, <2>2, FailsStarted
<1>5. CASE t # 0
  <2>1. WithTask(n, q) = WithSpace(k, z)
    BY <1>1, <1>5
  <2>2. /\ q \in Unfinished({0}) /\ Backed(q)
        /\ Held(q) \subseteq m.free \ n.free
    BY DEF Prepared
  <2>3. /\ z.space = q.space /\ z.stack = q.stack /\ z.struct = q.struct
        /\ z.elf = q.elf /\ z.data = q.data /\ z.task = t
        /\ z.file = q.file /\ z \in Unfinished(HeapFrames)
    BY <1>3, <1>5, <2>2 DEF Unfinished
  <2> HIDE DEF z
  <2>4. Held(z) \subseteq Held(q) \cup {t} /\ Backed(z)
    BY <2>2, <2>3 DEF Held, Program, Backed
  <2>5. Held(z) \subseteq m.free \ k.free
    BY <1>2, <1>3, <1>5, <2>2, <2>4
  <2>6. Prepared(m, k, z, HeapFrames)
    BY <1>3, <2>3, <2>4, <2>5 DEF Prepared
  <2> QED BY <2>1, <2>6, WithSpaceStarted
<1> QED BY <1>4, <1>5

(* A program that is loaded lies in frames that were free.                 *)
DataLoaded(m, l, file) ==
  /\ Grows(m, l.ram)
  /\ l.type # "none" =>
       /\ l.type \in {"PROCESS_ELF_FILE", "PROCESS_BIN_FILE"}
       /\ l.data \in HeapFrames /\ l.elf \in HeapFrames \cup {0}
       /\ l.data \in m.free \ l.ram.free
       /\ Segment(l.data, Blocks(file.size)) \subseteq m.free \ l.ram.free
       /\ l.elf # 0 => l.elf \in m.free \ l.ram.free

LEMMA ElfLoaded ==
  ASSUME NEW m \in Memories, NEW file \in Files
  PROVE  DataLoaded(m, gloader_load_elf(m, file), file)
<1> DEFINE B == Blocks(file.size)
           e == Fit(m, 1)
           x == kzalloc(m, 1)
           d == Fit(x, B)
           y == kzalloc(x, B)
           l == gloader_load_elf(m, file)
<1>1. l = IF e = 0 \/ d = 0 \/ ELF_validate_elf_file(file) < 0
          THEN [ram |-> IF e = 0 THEN m ELSE kfree(kfree(y, e), d),
                type |-> "none", elf |-> 0, data |-> 0]
          ELSE [ram |-> y, type |-> "PROCESS_ELF_FILE", elf |-> e, data |-> d]
  BY DEF gloader_load_elf, Alloc
<1>2. B \in Nat /\ m.free \subseteq HeapFrames
  BY FileTyped, MemoryTyped
<1>3. /\ x \in Memories /\ Grows(m, x) /\ x.free \subseteq m.free
      /\ (e # 0 => e \in m.free /\ e \notin x.free)
  <2>1. Grows(m, x)
    BY GrowsSame, AllocGrows
  <2>2. e # 0 => e \in m.free /\ e \in Segment(e, 1)
                 /\ x.free = m.free \ Segment(e, 1)
    BY AllocFacts
  <2> HIDE DEF e, x
  <2> QED BY <2>1, <2>2, GrowsTyped
<1> HIDE DEF e, x
<1>4. /\ Grows(m, y) /\ y.free \subseteq x.free
      /\ (d # 0 => /\ d \in x.free /\ Segment(d, B) \subseteq x.free
                   /\ d \notin y.free /\ Segment(d, B) \cap y.free = {})
  <2> HIDE DEF B
  <2>1. Grows(m, y)
    BY <1>2, <1>3, AllocGrows
  <2>2. d # 0 => d \in x.free /\ Segment(d, B) \subseteq x.free
                 /\ d \in Segment(d, B)
                 /\ y.free = x.free \ Segment(d, B)
    BY <1>2, <1>3, AllocFacts
  <2>3. d = 0 => y = x
    BY <1>2, <1>3, AllocFacts
  <2> HIDE DEF d, y
  <2> QED BY <2>1, <2>2, <2>3
<1> HIDE DEF d, y
<1>5. CASE l.type = "none"
  <2>1. l.ram = m \/ (e # 0 /\ l.ram = kfree(kfree(y, e), d))
    BY <1>1, <1>5
  <2>2. e # 0 => Grows(m, kfree(kfree(y, e), d))
    <3>1. e # 0 => Grows(m, kfree(y, e))
      BY <1>3, <1>4, FreeGrows
    <3>2. d \in m.free \cup {0}
      BY <1>3, <1>4
    <3> DEFINE k == kfree(y, e)
    <3> HIDE DEF k
    <3>3. e # 0 => Grows(m, k)
      BY <3>1 DEF k
    <3>4. e # 0 => Grows(m, kfree(k, d))
      BY <3>2, <3>3, FreeGrows
    <3> QED BY <3>4 DEF k
  <2>3. Grows(m, l.ram)
    BY <2>1, <2>2, GrowsSame
  <2> QED BY <1>5, <2>3 DEF DataLoaded
<1>6. CASE l.type # "none"
  <2>1. l = [ram |-> y, type |-> "PROCESS_ELF_FILE", elf |-> e, data |-> d]
        /\ e # 0 /\ d # 0
    BY <1>1, <1>6
  <2>2. l.ram = y /\ l.type = "PROCESS_ELF_FILE" /\ l.elf = e /\ l.data = d
    BY <2>1
  <2> HIDE DEF l
  <2>3. Segment(l.data, B) \subseteq m.free \ l.ram.free
        /\ l.data \in m.free \ l.ram.free
        /\ l.elf \in m.free \ l.ram.free
        /\ l.data \in HeapFrames /\ l.elf \in HeapFrames
    BY <1>2, <1>3, <1>4, <2>1, <2>2
  <2>4. Grows(m, l.ram)
    BY <1>4, <2>2
  <2>5. DataLoaded(m, l, file)
    BY <2>2, <2>3, <2>4 DEF DataLoaded
  <2> QED BY <2>5 DEF l
<1> QED BY <1>5, <1>6

LEMMA BinaryLoaded ==
  ASSUME NEW m \in Memories, NEW file \in Files
  PROVE  DataLoaded(m, process_load_binary(m, file), file)
<1> DEFINE B == Blocks(file.size)
           d == Fit(m, B)
           y == kzalloc(m, B)
           l == process_load_binary(m, file)
<1>1. /\ l.ram = y /\ l.elf = 0 /\ l.data = d
      /\ l.type = IF d = 0 THEN "none" ELSE "PROCESS_BIN_FILE"
  BY DEF process_load_binary, Alloc
<1>2. B \in Nat /\ m.free \subseteq HeapFrames
  BY FileTyped, MemoryTyped
<1>3. /\ Grows(m, y)
      /\ (d # 0 => /\ d \in m.free /\ Segment(d, B) \subseteq m.free
                   /\ d \notin y.free /\ Segment(d, B) \cap y.free = {})
  <2> HIDE DEF B
  <2>1. Grows(m, y)
    BY <1>2, GrowsSame, AllocGrows
  <2>2. d # 0 => d \in m.free /\ Segment(d, B) \subseteq m.free
                 /\ d \in Segment(d, B)
                 /\ y.free = m.free \ Segment(d, B)
    BY <1>2, AllocFacts
  <2> HIDE DEF d, y
  <2> QED BY <2>1, <2>2
<1> HIDE DEF d, y, l
<1>4. DataLoaded(m, l, file)
  BY <1>1, <1>2, <1>3 DEF DataLoaded
<1> QED BY <1>4 DEF l

LEMMA LoadDataLoaded ==
  ASSUME NEW m \in Memories, NEW file \in Files
  PROVE  DataLoaded(m, process_load_data(m, file), file)
<1> DEFINE l == gloader_load_elf(m, file)
           b == process_load_binary(l.ram, file)
<1>1. process_load_data(m, file) = IF l.type = "none" THEN b ELSE l
  BY DEF process_load_data
<1>2. DataLoaded(m, l, file)
  BY ElfLoaded
<1>3. Grows(m, l.ram) /\ l.ram \in Memories /\ l.ram.free \subseteq m.free
  BY <1>2, GrowsTyped DEF DataLoaded
<1> HIDE DEF l
<1>4. DataLoaded(l.ram, b, file)
  <2> DEFINE x == l.ram
  <2>1. x \in Memories
    BY <1>3
  <2> HIDE DEF x
  <2>2. DataLoaded(x, process_load_binary(x, file), file)
    BY <2>1, BinaryLoaded
  <2> QED BY <2>2 DEF x
<1> HIDE DEF b
<1>5. DataLoaded(m, b, file)
  <2>1. Grows(m, b.ram)
    BY <1>3, <1>4, GrowsTwice DEF DataLoaded
  <2> QED BY <1>3, <1>4, <2>1 DEF DataLoaded
<1> QED BY <1>1, <1>2, <1>5

LEMMA WithDataStarted ==
  ASSUME NEW m \in Memories, NEW n, Grows(m, n), NEW file \in Files,
         NEW l, DataLoaded(n, l, file), NEW p, NEW s,
         {p, s} \subseteq m.free \ n.free,
         Segment(s, StackBlocks) \subseteq m.free \ n.free,
         ~WithData(l, file, p, s).partial
  PROVE  Started(m, WithData(l, file, p, s))
<1> DEFINE q == [type |-> l.type, file |-> file, struct |-> p, stack |-> s,
                 elf |-> l.elf, data |-> l.data, task |-> 0, space |-> 0,
                 mem_allocations |-> NoAllocations, freed |-> FALSE]
           B == Blocks(file.size)
<1>1. WithData(l, file, p, s) = IF l.type = "none" THEN Fails(l.ram, s, p)
                                ELSE WithTask(l.ram, q)
  BY DEF WithData
<1>2. Grows(n, l.ram) /\ Grows(m, l.ram) /\ l.ram.free \subseteq n.free
      /\ n.free \subseteq m.free
  <2>1. Grows(n, l.ram)
    BY DEF DataLoaded
  <2> QED BY <2>1, GrowsTwice, GrowsTyped
<1>3. CASE l.type = "none"
  <2> DEFINE c == l.ram
  <2>1. WithData(l, file, p, s) = Fails(c, s, p) /\ Grows(m, c)
        /\ s \in m.free \cup {0} /\ p \in m.free \cup {0}
    BY <1>1, <1>2, <1>3
  <2> HIDE DEF c
  <2> QED BY <2>1, FailsStarted
<1>4. CASE l.type # "none"
  <2>1. WithData(l, file, p, s) = WithTask(l.ram, q)
    BY <1>1, <1>4
  <2>2. /\ l.type \in {"PROCESS_ELF_FILE", "PROCESS_BIN_FILE"}
        /\ l.data \in HeapFrames /\ l.elf \in HeapFrames \cup {0}
        /\ l.data \in n.free \ l.ram.free
        /\ Segment(l.data, B) \subseteq n.free \ l.ram.free
        /\ (l.elf # 0 => l.elf \in n.free \ l.ram.free)
    BY <1>4 DEF DataLoaded
  <2>3. p \in HeapFrames /\ s \in HeapFrames /\ m.free \subseteq HeapFrames
    BY MemoryTyped
  <2>4. q \in Unfinished({0})
    BY <2>2, <2>3 DEF Unfinished
  <2>5. /\ q.file = file /\ q.struct = p /\ q.stack = s /\ q.elf = l.elf
        /\ q.data = l.data /\ q.task = 0
    OBVIOUS
  <2> HIDE DEF q
  <2>6. Held(q) = ({p, s, l.data, 0, l.elf} \ {0})
                    \cup (Segment(s, StackBlocks) \cup Segment(l.data, B))
    BY <2>5 DEF Held, Program
  <2>7. Held(q) \subseteq m.free \ l.ram.free
    BY <1>2, <2>2, <2>6
  <2>8. Backed(q)
    BY <1>2, <2>2, <2>3, <2>5 DEF Backed
  <2> DEFINE c == l.ram
  <2>9. Prepared(m, c, q, {0})
    BY <1>2, <2>4, <2>7, <2>8 DEF Prepared
  <2>10. WithData(l, file, p, s) = WithTask(c, q)
    BY <2>1
  <2> HIDE DEF c
  <2> QED BY <2>9, <2>10, WithTaskStarted
<1> QED BY <1>3, <1>4

LEMMA WithStackStarted ==
  ASSUME NEW m \in Memories, NEW n, Grows(m, n), NEW file \in Files,
         NEW p, p \in m.free \ n.free, ~WithStack(n, file, p).partial
  PROVE  Started(m, WithStack(n, file, p))
<1> DEFINE s == Fit(n, StackBlocks)
           k == kzalloc(n, StackBlocks)
           l == process_load_data(k, file)
<1>1. WithStack(n, file, p) = IF s = 0 THEN Fails(n, 0, p)
                              ELSE WithData(l, file, p, s)
  BY DEF WithStack, Alloc
<1>2. n \in Memories /\ n.free \subseteq m.free /\ StackBlocks \in Nat
  BY GrowsTyped, StackFits
<1>3. /\ Grows(m, k) /\ k \in Memories
      /\ (s # 0 => /\ s \in n.free \ k.free
                   /\ Segment(s, StackBlocks) \subseteq n.free \ k.free)
      /\ k.free \subseteq n.free
  <2>1. Grows(m, k)
    BY <1>2, AllocGrows
  <2>2. s # 0 => /\ s \in n.free /\ s \in Segment(s, StackBlocks)
                 /\ Segment(s, StackBlocks) \subseteq n.free
                 /\ k.free = n.free \ Segment(s, StackBlocks)
    BY <1>2, AllocFacts
  <2>3. s = 0 => k = n
    BY <1>2, AllocFacts
  <2> HIDE DEF s, k
  <2> QED BY <2>1, <2>2, <2>3, GrowsTyped
<1> HIDE DEF s, k
<1>4. DataLoaded(k, l, file)
  BY <1>3, LoadDataLoaded
<1> HIDE DEF l
<1>5. CASE s = 0
  <2>1. WithStack(n, file, p) = Fails(n, 0, p)
    BY <1>1, <1>5
  <2>2. 0 \in m.free \cup {0} /\ p \in m.free \cup {0}
    OBVIOUS
  <2> QED BY <2>1, <2>2, FailsStarted
<1>6. CASE s # 0
  <2>1. WithStack(n, file, p) = WithData(l, file, p, s)
    BY <1>1, <1>6
  <2>2. {p, s} \subseteq m.free \ k.free
        /\ Segment(s, StackBlocks) \subseteq m.free \ k.free
    BY <1>2, <1>3, <1>6
  <2> QED BY <1>3, <1>4, <2>1, <2>2, WithDataStarted
<1> QED BY <1>5, <1>6

LEMMA NewStarted ==
  ASSUME NEW m \in Memories, NEW file \in Files, ~process_new(m, file).partial
  PROVE  Started(m, process_new(m, file))
<1> DEFINE p == Fit(m, 1)
           n == kzalloc(m, 1)
<1>1. process_new(m, file) = IF p = 0 THEN Fails(m, 0, 0)
                             ELSE WithStack(n, file, p)
  BY DEF process_new, Alloc
<1>2. Grows(m, n) /\ (p # 0 => p \in m.free \ n.free)
  <2>1. Grows(m, n)
    BY GrowsSame, AllocGrows
  <2>2. p # 0 => p \in m.free /\ p \in Segment(p, 1)
                 /\ n.free = m.free \ Segment(p, 1)
    BY AllocFacts
  <2> HIDE DEF p, n
  <2> QED BY <2>1, <2>2
<1> HIDE DEF p, n
<1>3. CASE p = 0
  <2>1. 0 \in m.free \cup {0} /\ Grows(m, m)
    BY GrowsSame
  <2> QED BY <1>1, <1>3, <2>1, FailsStarted
<1>4. CASE p # 0
  BY <1>1, <1>2, <1>4, WithStackStarted
<1> QED BY <1>3, <1>4
-----------------------------------------------------------------------------
(* What keeps the spaces apart.                                            *)
LEMMA KillFacts ==
  ASSUME NEW m \in Memories, NEW q \in Processes, Space(m, q.space)
  PROVE  LET n == process_kill(m, q)
         IN  /\ n \in Memories /\ n.word = m.word
             /\ m.free \subseteq n.free
             /\ n.free \subseteq m.free \cup AllOf(m, q)
<1> DEFINE a == kfree(m, q.stack)
           b == kfree(a, q.data)
           c == kfree(b, q.elf)
           d == destroy_virtual_address_space(c, q.space)
           e == kfree(d, q.task)
           f == kfree(e, q.task)
           n == kfree(f, q.struct)
<1>1. process_kill(m, q) = n
  BY DEF process_kill, close_task
<1>2. a \in Memories /\ a.word = m.word
      /\ a.free = m.free \cup ({q.stack} \cap HeapFrames)
  BY FreeFacts
<1> HIDE DEF a
<1>3. b \in Memories /\ b.word = a.word
      /\ b.free = a.free \cup ({q.data} \cap HeapFrames)
  BY <1>2, FreeFacts
<1> HIDE DEF b
<1>4. c \in Memories /\ c.word = b.word
      /\ c.free = b.free \cup ({q.elf} \cap HeapFrames)
  BY <1>3, FreeFacts
<1> HIDE DEF c
<1>5. SameSpace(m, c, q.space)
  BY <1>2, <1>3, <1>4, SpaceSame
<1>6. d \in Memories /\ d.word = c.word /\ c.free \subseteq d.free
      /\ d.free \subseteq c.free \cup FramesOf(m, q.space)
  BY <1>4, <1>5, DestroyFacts DEF SameSpace
<1> HIDE DEF d
<1>7. e \in Memories /\ e.word = d.word
      /\ e.free = d.free \cup ({q.task} \cap HeapFrames)
  BY <1>6, FreeFacts
<1> HIDE DEF e
<1>8. f \in Memories /\ f.word = e.word
      /\ f.free = e.free \cup ({q.task} \cap HeapFrames)
  BY <1>7, FreeFacts
<1> HIDE DEF f
<1>9. n \in Memories /\ n.word = f.word
      /\ n.free = f.free \cup ({q.struct} \cap HeapFrames)
  BY <1>8, FreeFacts
<1> HIDE DEF n
<1>10. n.word = m.word /\ m.free \subseteq n.free
  BY <1>2, <1>3, <1>4, <1>6, <1>7, <1>8, <1>9
<1>11. n.free \subseteq m.free \cup AllOf(m, q)
  <2>1. /\ {q.struct, q.task, q.stack, q.data} \subseteq Held(q)
        /\ q.elf \in Held(q) \cup {0} /\ 0 \notin HeapFrames
    BY HeldAre, PagesAre
  <2> QED BY <1>2, <1>3, <1>4, <1>6, <1>7, <1>8, <1>9, <2>1
         DEF AllOf, Mine
<1> QED BY <1>1, <1>9, <1>10, <1>11

(* Memory changes, but not in the structures of the spaces.                *)
Undisturbed(m, n, kernel, procs, process) ==
  /\ n \in Memories
  /\ \A g \in FramesOf(m, kernel) : n.word[g] = m.word[g]
  /\ FramesOf(m, kernel) \cap n.free = {}
  /\ \A p \in procs :
       /\ \A g \in {process[p].space, pd_of(m, process[p].space),
                    Directory(m, process[p].space)} : n.word[g] = m.word[g]
       /\ AllOf(m, process[p]) \cap n.free = {}

LEMMA ApartKept ==
  ASSUME NEW m, NEW n, NEW kernel, NEW procs, NEW process,
         Apart(m, kernel, procs, process),
         Undisturbed(m, n, kernel, procs, process)
  PROVE  /\ Apart(n, kernel, procs, process)
         /\ KeepsSpace(m, n, kernel)
         /\ \A p \in procs : /\ AllOf(n, process[p]) = AllOf(m, process[p])
                             /\ SameSpace(m, n, process[p].space)
<1>1. Space(m, kernel) /\ \A g \in FramesOf(m, kernel) : n.word[g] = m.word[g]
  BY DEF Apart, Undisturbed
<1>2. KeepsSpace(m, n, kernel)
  BY <1>1, SpaceKept
<1>3. Space(n, kernel) /\ FramesOf(n, kernel) = FramesOf(m, kernel)
      /\ FramesOf(n, kernel) \cap n.free = {}
  BY <1>2 DEF KeepsSpace, SameSpace, Undisturbed
<1>4. ASSUME NEW p \in procs
      PROVE  /\ SameSpace(m, n, process[p].space)
             /\ AllOf(n, process[p]) = AllOf(m, process[p])
             /\ Whole(n, process[p])
             /\ AllOf(n, process[p]) \cap FramesOf(n, kernel) = {}
  <2> DEFINE q == process[p]
  <2>1. Whole(m, q) /\ AllOf(m, q) \cap FramesOf(m, kernel) = {}
    BY DEF Apart
  <2>2. SameSpace(m, n, q.space)
    BY <2>1, SpaceSame DEF Whole, Undisturbed
  <2>3. FramesOf(n, q.space) = FramesOf(m, q.space) /\ Space(n, q.space)
    BY <2>2 DEF SameSpace
  <2>4. AllOf(n, q) = AllOf(m, q)
    BY <2>3 DEF AllOf
  <2>5. (Mine(q) \cup FramesOf(n, q.space)) \cap n.free = {}
    BY <2>3 DEF Undisturbed, AllOf
  <2>6. Whole(n, q)
    BY <2>1, <2>3, <2>5 DEF Whole
  <2> QED BY <1>3, <2>1, <2>2, <2>4, <2>6
<1>5. \A p, r \in procs :
        p # r => AllOf(n, process[p]) \cap AllOf(n, process[r]) = {}
  BY <1>4 DEF Apart
<1>6. Apart(n, kernel, procs, process)
  BY <1>3, <1>4, <1>5 DEF Apart
<1> QED BY <1>2, <1>4, <1>6

LEMMA ApartFrames ==
  ASSUME NEW m, NEW kernel, NEW procs, NEW process,
         Apart(m, kernel, procs, process), NEW p \in procs
  PROVE  /\ Space(m, process[p].space) /\ process[p] \in Processes
         /\ FramesOf(m, process[p].space) \subseteq AllOf(m, process[p])
         /\ FramesOf(m, process[p].space) \cap FramesOf(m, kernel) = {}
         /\ AllOf(m, process[p]) \subseteq HeapFrames
         /\ AllOf(m, process[p]) \cap m.free = {}
<1>1. Whole(m, process[p])
      /\ AllOf(m, process[p]) \cap FramesOf(m, kernel) = {}
  BY DEF Apart
<1>2. FramesOf(m, process[p].space) \subseteq HeapFrames
  BY <1>1, FramesAre DEF Whole
<1> QED BY <1>1, <1>2 DEF Whole, AllOf

WordsKept(m, n, procs, process) ==
  \A p \in procs : \A g \in FramesOf(m, process[p].space) :
    n.word[g] = m.word[g]

LEMMA GrowsUndisturbed ==
  ASSUME NEW m, NEW n, NEW kernel, NEW procs, NEW process,
         Apart(m, kernel, procs, process), Grows(m, n)
  PROVE  /\ Undisturbed(m, n, kernel, procs, process)
         /\ WordsKept(m, n, procs, process)
<1>1. FramesOf(m, kernel) \subseteq HeapFrames
      /\ FramesOf(m, kernel) \cap m.free = {}
  BY FramesAre DEF Apart
<1>2. ASSUME NEW g \in HeapFrames, g \notin m.free PROVE n.word[g] = m.word[g]
  BY <1>2, PagesAre DEF Grows
<1>3. n \in Memories /\ n.free \subseteq m.free
  BY GrowsTyped
<1>4. ASSUME NEW p \in procs
      PROVE  /\ \A g \in FramesOf(m, process[p].space) : n.word[g] = m.word[g]
             /\ AllOf(m, process[p]) \cap n.free = {}
             /\ \A g \in {process[p].space, pd_of(m, process[p].space),
                          Directory(m, process[p].space)} :
                  n.word[g] = m.word[g]
  <2>1. /\ Space(m, process[p].space)
        /\ FramesOf(m, process[p].space) \subseteq AllOf(m, process[p])
        /\ AllOf(m, process[p]) \subseteq HeapFrames
        /\ AllOf(m, process[p]) \cap m.free = {}
    BY ApartFrames
  <2>2. \A g \in FramesOf(m, process[p].space) : n.word[g] = m.word[g]
    BY <1>2, <2>1
  <2> QED BY <1>3, <2>1, <2>2, FramesAre
<1> QED BY <1>1, <1>2, <1>3, <1>4 DEF Undisturbed, WordsKept

(* One translation of one process changes, and the frame f is freed.       *)
Remaps(m, k, kernel, procs, process, p, v, w) ==
  /\ Undisturbed(m, k, kernel, procs, process)
  /\ \A r \in procs : r # p => KeepsSpace(m, k, process[r].space)
  /\ \A u \in Pages : PageWord(k, process[p].space, u)
                        = IF u = v THEN w ELSE PageWord(m, process[p].space, u)

LEMMA RemapUndisturbed ==
  ASSUME NEW m, NEW n, NEW k \in Memories, NEW kernel, NEW procs, NEW process,
         Apart(m, kernel, procs, process), NEW p \in procs, NEW v, NEW w,
         MapsPage(m, n, process[p].space, v, w),
         k.word = n.word, NEW f, k.free \subseteq m.free \cup {f},
         f \notin FramesOf(m, kernel),
         \A r \in procs : f \notin AllOf(m, process[r])
  PROVE  Remaps(m, k, kernel, procs, process, p, v, w)
<1> DEFINE s == process[p].space
<1>1. \A g \in Pages : g \notin Tables(m, s) => k.word[g] = m.word[g]
  BY DEF MapsPage
<1>2. /\ Space(m, s) /\ FramesOf(m, s) \subseteq AllOf(m, process[p])
      /\ FramesOf(m, s) \cap FramesOf(m, kernel) = {}
  BY ApartFrames
<1>3. Tables(m, s) \subseteq FramesOf(m, s)
      /\ {s, pd_of(m, s), Directory(m, s)} \cap Tables(m, s) = {}
      /\ {s, pd_of(m, s), Directory(m, s)} \subseteq FramesOf(m, s)
      /\ FramesOf(m, s) \subseteq HeapFrames
  BY <1>2, FramesAre
<1>4. FramesOf(m, kernel) \subseteq HeapFrames
      /\ FramesOf(m, kernel) \cap m.free = {}
  BY FramesAre DEF Apart
<1>5. \A g \in FramesOf(m, kernel) : k.word[g] = m.word[g]
  BY <1>1, <1>2, <1>3, <1>4, PagesAre
<1>6. ASSUME NEW r \in procs, r # p
      PROVE  /\ \A g \in FramesOf(m, process[r].space) : k.word[g] = m.word[g]
             /\ KeepsSpace(m, k, process[r].space)
             /\ {process[r].space, pd_of(m, process[r].space),
                 Directory(m, process[r].space)}
                  \subseteq FramesOf(m, process[r].space)
  <2>1. /\ Space(m, process[r].space)
        /\ FramesOf(m, process[r].space) \subseteq AllOf(m, process[r])
        /\ AllOf(m, process[r]) \subseteq HeapFrames
    BY ApartFrames
  <2>2. AllOf(m, process[r]) \cap AllOf(m, process[p]) = {}
    BY <1>6 DEF Apart
  <2>3. \A g \in FramesOf(m, process[r].space) : k.word[g] = m.word[g]
    BY <1>1, <1>2, <1>3, <2>1, <2>2, PagesAre
  <2> QED BY <2>1, <2>3, SpaceKept, FramesAre
<1>7. ASSUME NEW r \in procs
      PROVE  /\ \A g \in {process[r].space, pd_of(m, process[r].space),
                          Directory(m, process[r].space)} :
                  k.word[g] = m.word[g]
             /\ AllOf(m, process[r]) \cap k.free = {}
  <2>1. AllOf(m, process[r]) \cap k.free = {}
    BY ApartFrames
  <2>2. CASE r # p
    BY <1>6, <2>1, <2>2
  <2>3. CASE r = p
    <3>1. \A g \in {s, pd_of(m, s), Directory(m, s)} : k.word[g] = m.word[g]
      BY <1>1, <1>3, PagesAre
    <3> QED BY <2>1, <2>3, <3>1
  <2> QED BY <2>2, <2>3
<1>8. Undisturbed(m, k, kernel, procs, process)
  BY <1>4, <1>5, <1>7 DEF Undisturbed
<1>9. ASSUME NEW u \in Pages
      PROVE  PageWord(k, s, u) = IF u = v THEN w ELSE PageWord(m, s, u)
  <2>1. PageWord(k, s, u) = PageWord(n, s, u)
    BY DEF PageWord, Translate, Directory, page_directory_entries, pd_of
  <2> QED BY <2>1 DEF MapsPage
<1> QED BY <1>6, <1>8, <1>9 DEF Remaps
-----------------------------------------------------------------------------
(* The invariant.                                                          *)
(* d is the call c with some fields changed.                               *)
Changed(c, d, arg, shared, old, got) ==
  /\ IsCall(d) /\ d.nr = c.nr /\ d.pushed = c.pushed /\ d.seen = c.seen
  /\ d.arg = arg /\ d.shared = shared /\ d.old = old /\ d.got = got

LEMMA CallMade ==
  ASSUME NEW c, NEW d, NEW arg, NEW shared, NEW old, NEW got,
         d = [nr |-> c.nr, arg |-> arg, pushed |-> c.pushed, seen |-> c.seen,
              shared |-> shared, old |-> old, got |-> got]
  PROVE  Changed(c, d, arg, shared, old, got)
  BY DEF Changed, IsCall

LEMMA CallChanges ==
  ASSUME NEW c, IsCall(c), NEW x, NEW y
  PROVE  /\ Changed(c, [c EXCEPT !.arg = x], x, c.shared, c.old, c.got)
         /\ Changed(c, [c EXCEPT !.got = x], c.arg, c.shared, c.old, x)
         /\ Changed(c, [c EXCEPT !.shared = x, !.old = y], c.arg, x, y, c.got)
<1> DEFINE a == c.nr
           b == c.arg
           p == c.pushed
           s == c.seen
           h == c.shared
           o == c.old
           g == c.got
<1>1. c = [nr |-> a, arg |-> b, pushed |-> p, seen |-> s, shared |-> h,
           old |-> o, got |-> g]
  BY DEF IsCall
<1> HIDE DEF a, b, p, s, h, o, g
<1>2. [c EXCEPT !.arg = x] =
        [nr |-> a, arg |-> x, pushed |-> p, seen |-> s, shared |-> h,
         old |-> o, got |-> g]
  BY <1>1
<1>3. [c EXCEPT !.got = x] =
        [nr |-> a, arg |-> b, pushed |-> p, seen |-> s, shared |-> h,
         old |-> o, got |-> x]
  BY <1>1
<1>4. [c EXCEPT !.shared = x, !.old = y] =
        [nr |-> a, arg |-> b, pushed |-> p, seen |-> s, shared |-> x,
         old |-> y, got |-> g]
  <2> DEFINE e == [c EXCEPT !.shared = x]
  <2>1. [c EXCEPT !.shared = x, !.old = y] = [e EXCEPT !.old = y]
    OBVIOUS
  <2>2. e = [nr |-> a, arg |-> b, pushed |-> p, seen |-> s, shared |-> x,
             old |-> o, got |-> g]
    BY <1>1
  <2> HIDE DEF e
  <2>3. [e EXCEPT !.old = y] =
          [nr |-> a, arg |-> b, pushed |-> p, seen |-> s, shared |-> x,
           old |-> y, got |-> g]
    BY <2>2
  <2> QED BY <2>1, <2>3
<1> QED BY <1>2, <1>3, <1>4, CallMade DEF a, b, p, s, h, o, g

LEMMA NewCallIs ==
  ASSUME NEW nr, NEW v
  PROVE  /\ IsCall(NewCall(nr, v))
         /\ NewCall(nr, v).nr = nr /\ NewCall(nr, v).arg = v
         /\ NewCall(nr, v).pushed = tlb[StackTop].frame
         /\ NewCall(nr, v).seen = Seen(v)
         /\ NewCall(nr, v).shared = 0
  BY DEF NewCall, IsCall

(* Steps that leave memory and processes alone.                            *)
LEMMA QuietStep ==
  ASSUME SpaceInv, UNCHANGED <<ram, kernel_space, proc, current>>,
         pc # "boot", pc' # "boot"
  PROVE  /\ Typed' /\ SpacesApart' /\ Alive' = Alive
<1>1. Alive' = Alive
  BY DEF Alive
<1>2. Typed'
  BY <1>1 DEF SpaceInv, Typed
<1>3. SpacesApart'
  BY <1>1 DEF SpaceInv, SpacesApart
<1> QED BY <1>1, <1>2, <1>3

LEMMA CallSpace ==
  ASSUME SpaceInv, NEW nr, NEW v, isr_0x80_handler(nr, v)
  PROVE  SpaceInv'
<1>1. Typed' /\ SpacesApart' /\ Alive' = Alive
  BY QuietStep DEF isr_0x80_handler
<1>2. SharedApart'
  BY DEF isr_0x80_handler, SharedApart, Copying
<1>3. CallAllowed'
  <2>1. call' = NewCall(nr, v) /\ MayCall(nr) /\ current' = current
    BY DEF isr_0x80_handler
  <2>2. IsCall(call') /\ call'.nr = nr
    BY <2>1, NewCallIs
  <2> QED BY <1>1, <2>1, <2>2 DEF CallAllowed, MayCall, Procs
<1>4. Loaded'
  BY DEF isr_0x80_handler, change_to_kernel_page_directory,
         load_page_directory, Loaded, OnTask
<1> QED BY <1>1, <1>2, <1>3, <1>4 DEF SpaceInv

LEMMA AccessSpace == ASSUME SpaceInv, task_access_stack PROVE SpaceInv'
<1>1. Typed' /\ SpacesApart' /\ Alive' = Alive
  BY QuietStep DEF task_access_stack
<1>2. SharedApart'
  BY DEF task_access_stack, SharedApart, Copying
<1>3. CallAllowed'
  <2>1. /\ pc = "kernel" /\ current' = current
        /\ IsCall(call') /\ call'.nr = call.nr
    <3>1. pc = "kernel" /\ current' = current /\ IsCall(call)
      BY DEF task_access_stack, SpaceInv, CallAllowed
    <3>2. PICK x : call' = [call EXCEPT !.arg = x]
      BY DEF task_access_stack
    <3>3. Changed(call, call', x, call.shared, call.old, call.got)
      BY <3>1, <3>2, CallChanges
    <3> QED BY <3>1, <3>3 DEF Changed
  <2> QED BY <1>1, <2>1 DEF SpaceInv, CallAllowed, Procs
<1>4. Loaded'
  BY DEF task_access_stack, change_to_kernel_page_directory,
         load_page_directory, Loaded, OnTask
<1> QED BY <1>1, <1>2, <1>3, <1>4 DEF SpaceInv

LEMMA CopyFailsSpace == ASSUME SpaceInv, CopyFails PROVE SpaceInv'
<1>1. Typed' /\ SpacesApart' /\ Alive' = Alive
  BY QuietStep DEF CopyFails
<1>2. SharedApart'
  BY DEF CopyFails, SharedApart, Copying
<1>3. CallAllowed'
  BY <1>1 DEF CopyFails, SpaceInv, CallAllowed, Procs
<1>4. Loaded'
  BY DEF CopyFails, SpaceInv, Loaded, OnTask
<1> QED BY <1>1, <1>2, <1>3, <1>4 DEF SpaceInv

LEMMA CopyReadSpace == ASSUME SpaceInv, CopyRead PROVE SpaceInv'
<1>1. Typed' /\ SpacesApart' /\ Alive' = Alive
  BY QuietStep DEF CopyRead
<1>2. /\ pc = "copying" /\ pc' = "copied"
      /\ UNCHANGED <<ram, kernel_space, cr3, tlb, proc, current>>
  BY DEF CopyRead
<1>3. /\ IsCall(call') /\ call'.nr = call.nr
      /\ call'.shared = call.shared /\ call'.old = call.old
  <2>1. IsCall(call)
    BY <1>2 DEF SpaceInv, CallAllowed
  <2>2. PICK x : call' = [call EXCEPT !.got = x]
    BY DEF CopyRead
  <2>3. Changed(call, call', call.arg, call.shared, call.old, x)
    BY <2>1, <2>2, CallChanges
  <2> QED BY <2>3 DEF Changed
<1>4. SharedApart'
  <2>1. /\ call.shared \in HeapFrames \ ram.free
        /\ call.shared \notin FramesOf(ram, kernel_space)
        /\ \A p \in Alive : call.shared \notin AllOf(ram, proc[p])
        /\ call.old \in Words
    BY <1>2 DEF SpaceInv, SharedApart, Copying
  <2> QED BY <1>1, <1>2, <1>3, <2>1 DEF SharedApart
<1>5. CallAllowed'
  BY <1>1, <1>2, <1>3 DEF SpaceInv, CallAllowed, Procs
<1>6. Loaded'
  BY <1>2 DEF SpaceInv, Loaded, OnTask
<1> QED BY <1>1, <1>4, <1>5, <1>6 DEF SpaceInv

LEMMA DoneSpace ==
  ASSUME SpaceInv, PRINT \/ OtherHandler
  PROVE  SpaceInv'
<1>1. /\ pc \in {"argument", "kernel"} /\ pc' = "done"
      /\ UNCHANGED <<ram, kernel_space, cr3, tlb, proc, current, call>>
  BY DEF PRINT, OtherHandler
<1>2. Typed' /\ SpacesApart' /\ Alive' = Alive
  BY <1>1, QuietStep
<1>3. SharedApart' /\ CallAllowed' /\ Loaded'
  BY <1>1 DEF SpaceInv, SharedApart, CallAllowed, Loaded, Copying, OnTask
<1> QED BY <1>2, <1>3 DEF SpaceInv

LEMMA ReturnSpace ==
  ASSUME SpaceInv, change_to_current_task_page_directory
  PROVE  SpaceInv'
<1>1. Typed' /\ SpacesApart' /\ Alive' = Alive
  BY QuietStep DEF change_to_current_task_page_directory
<1>2. SharedApart' /\ CallAllowed'
  BY DEF change_to_current_task_page_directory, SharedApart, CallAllowed,
         Copying
<1>3. Loaded'
  BY DEF change_to_current_task_page_directory, load_page_directory, Loaded,
         OnTask
<1> QED BY <1>1, <1>2, <1>3 DEF SpaceInv

(* What the steps of a copy do to memory: one translation of the current   *)
(* task is w afterwards.                                                   *)
OneChanges(v, w) ==
  /\ ram' \in Memories
  /\ Apart(ram', kernel_space, Alive, proc)
  /\ KeepsSpace(ram, ram', kernel_space)
  /\ \A p \in Alive : /\ AllOf(ram', proc[p]) = AllOf(ram, proc[p])
                      /\ p # current => KeepsSpace(ram, ram', proc[p].space)
  /\ \A u \in Pages : PageWord(ram', proc[current].space, u)
                        = IF u = v THEN w
                          ELSE PageWord(ram, proc[current].space, u)

LEMMA KeepsTwice ==
  ASSUME NEW m, NEW n, NEW k, NEW s, KeepsSpace(m, n, s), KeepsSpace(n, k, s)
  PROVE  KeepsSpace(m, k, s)
  BY DEF KeepsSpace, SameSpace

LEMMA VirtToPhy ==
  ASSUME NEW m, NEW s, NEW v \in Pages
  PROVE  paging_virt_to_phy(m, s, Address(v)) = PageWord(m, s, v)
<1>1. pd_index(Address(v)) = DirIndex(v) /\ pt_index(Address(v)) = TableIndex(v)
  BY AddressOfPage
<1> QED BY <1>1, PageWordAt DEF paging_virt_to_phy, TableOf

LEMMA CopyBeginFacts ==
  ASSUME SpaceInv, CopyBegin
  PROVE  LET h == call'.shared
         IN  /\ h \in ram.free /\ h \notin ram'.free
             /\ OneChanges(h, Word(h, SharedFlags))
             /\ Changed(call, call', call.arg, h,
                        PageWord(ram, proc[current].space, h), call.got)
<1> DEFINE h == Fit(ram, 1)
           m == kzalloc(ram, 1)
           s == proc[current].space
           w == Word(h, SharedFlags)
           o == paging_virt_to_phy(m, s, Address(h))
<1>1. /\ pc = "called" /\ h # 0
      /\ ram' = map_vaddr_to_val(m, pd_of(m, s), Address(h), w)
      /\ call' = [call EXCEPT !.shared = h, !.old = o]
  BY DEF CopyBegin
<1>2. /\ ram \in Memories /\ current \in Alive /\ IsCall(call)
      /\ Apart(ram, kernel_space, Alive, proc)
  BY <1>1 DEF SpaceInv, Typed, CallAllowed, SpacesApart
<1>3. Changed(call, call', call.arg, h, o, call.got)
  <2> HIDE DEF h, o
  <2> QED BY <1>1, <1>2, CallChanges
<1>4. /\ m \in Memories /\ h \in ram.free /\ h \in HeapFrames /\ h \in Pages
      /\ h \notin m.free /\ Grows(ram, m)
  <2>1. Grows(ram, m)
    BY <1>2, GrowsSame, AllocGrows
  <2>2. h \in ram.free /\ h \in Segment(h, 1)
        /\ m.free = ram.free \ Segment(h, 1)
    BY <1>1, <1>2, AllocFacts
  <2> HIDE DEF h, m
  <2> QED BY <1>2, <2>1, <2>2, GrowsTyped, MemoryTyped
<1> HIDE DEF h, m
<1>5. /\ Undisturbed(ram, m, kernel_space, Alive, proc)
      /\ WordsKept(ram, m, Alive, proc)
  BY <1>2, <1>4, GrowsUndisturbed
<1>6. /\ Apart(m, kernel_space, Alive, proc)
      /\ KeepsSpace(ram, m, kernel_space)
      /\ \A p \in Alive : AllOf(m, proc[p]) = AllOf(ram, proc[p])
  BY <1>2, <1>5, ApartKept
<1>7. \A p \in Alive : KeepsSpace(ram, m, proc[p].space)
  <2> TAKE p \in Alive
  <2>1. Space(ram, proc[p].space)
    BY <1>2, ApartFrames
  <2>2. \A g \in FramesOf(ram, proc[p].space) : m.word[g] = ram.word[g]
    BY <1>5 DEF WordsKept
  <2> QED BY <2>1, <2>2, SpaceKept
<1>8. Space(m, s)
  BY <1>2, <1>7 DEF KeepsSpace, SameSpace
<1>9. w \in Words
  <2>1. h \in Nat /\ SharedFlags \in SUBSET KernelFlags
    BY <1>4, PagesAre DEF SharedFlags, KernelFlags
  <2> QED BY <2>1, WordTyped
<1>10. MapsPage(m, ram', s, h, w)
  <2> HIDE DEF s, w
  <2> QED BY <1>1, <1>4, <1>8, <1>9, MapOne
<1> HIDE DEF w
<1>11. ram' \in Memories /\ ram'.free = m.free
  BY <1>10 DEF MapsPage
<1>12. /\ h \notin FramesOf(m, kernel_space)
       /\ \A p \in Alive : h \notin AllOf(m, proc[p])
  <2>1. FramesOf(m, kernel_space) \cap ram.free = {}
    BY <1>2, <1>6 DEF Apart, KeepsSpace, SameSpace
  <2>2. \A p \in Alive : AllOf(m, proc[p]) \cap ram.free = {}
    BY <1>2, <1>6, ApartFrames
  <2> QED BY <1>4, <2>1, <2>2
<1>13. /\ Undisturbed(m, ram', kernel_space, Alive, proc)
       /\ \A p \in Alive : p # current => KeepsSpace(m, ram', proc[p].space)
       /\ \A u \in Pages : PageWord(ram', s, u)
                             = IF u = h THEN w ELSE PageWord(m, s, u)
  <2> DEFINE k == ram'
  <2>1. k \in Memories /\ k.free \subseteq m.free \cup {h}
        /\ MapsPage(m, k, s, h, w)
    BY <1>10, <1>11
  <2> HIDE DEF k
  <2>2. Remaps(m, k, kernel_space, Alive, proc, current, h, w)
    BY <1>2, <1>6, <1>12, <2>1, RemapUndisturbed
  <2> QED BY <2>2 DEF k, Remaps
<1>14. /\ Apart(ram', kernel_space, Alive, proc)
       /\ KeepsSpace(m, ram', kernel_space)
       /\ \A p \in Alive : AllOf(ram', proc[p]) = AllOf(m, proc[p])
  BY <1>6, <1>13, ApartKept
<1>15. OneChanges(h, w)
  <2>1. KeepsSpace(ram, ram', kernel_space)
    BY <1>6, <1>14, KeepsTwice
  <2>2. \A p \in Alive : p # current => KeepsSpace(ram, ram', proc[p].space)
    BY <1>7, <1>13, KeepsTwice
  <2>3. \A u \in Pages : PageWord(m, s, u) = PageWord(ram, s, u)
    BY <1>2, <1>7 DEF KeepsSpace
  <2>4. \A u \in Pages : PageWord(ram', s, u)
                           = IF u = h THEN w ELSE PageWord(ram, s, u)
    BY <1>13, <2>3
  <2>5. \A p \in Alive : AllOf(ram', proc[p]) = AllOf(ram, proc[p])
    BY <1>6, <1>14
  <2> QED BY <1>11, <1>14, <2>1, <2>2, <2>4, <2>5 DEF OneChanges
<1>16. o = PageWord(ram, s, h)
  <2>1. o = PageWord(m, s, h)
    BY <1>4, VirtToPhy
  <2> QED BY <1>2, <1>4, <1>7, <2>1 DEF KeepsSpace
<1>17. call'.shared = h
  BY <1>3 DEF Changed
<1> QED BY <1>3, <1>4, <1>11, <1>15, <1>16, <1>17 DEF w

LEMMA CopyEndFacts ==
  ASSUME SpaceInv, CopyEnd
  PROVE  OneChanges(call.shared, call.old) /\ call.shared \in ram'.free
<1> DEFINE h == call.shared
           s == proc[current].space
           n == map_vaddr_to_val(ram, pd_of(ram, s), Address(h), call.old)
<1>1. pc = "copied" /\ ram' = kfree(n, h)
  BY DEF CopyEnd
<1>2. /\ ram \in Memories /\ current \in Alive
      /\ Apart(ram, kernel_space, Alive, proc)
      /\ h \in HeapFrames /\ h \notin FramesOf(ram, kernel_space)
      /\ \A p \in Alive : h \notin AllOf(ram, proc[p])
      /\ call.old \in Words
  BY <1>1 DEF SpaceInv, Typed, SpacesApart, SharedApart, Copying
<1>3. MapsPage(ram, n, s, h, call.old)
  <2>1. Space(ram, s) /\ h \in Pages
    BY <1>2, ApartFrames, PagesAre
  <2> HIDE DEF s, h
  <2> QED BY <1>2, <2>1, MapOne
<1> HIDE DEF n
<1>4. n \in Memories /\ n.free = ram.free
  BY <1>3 DEF MapsPage
<1>5. ram' \in Memories /\ ram'.word = n.word
      /\ ram'.free \subseteq ram.free \cup {h} /\ h \in ram'.free
  <2> HIDE DEF h
  <2>1. /\ kfree(n, h) \in Memories /\ kfree(n, h).word = n.word
        /\ kfree(n, h).free = n.free \cup ({h} \cap HeapFrames)
    BY <1>4, FreeFacts
  <2> QED BY <1>1, <1>2, <1>4, <2>1 DEF h
<1>6. /\ Undisturbed(ram, ram', kernel_space, Alive, proc)
      /\ \A p \in Alive : p # current => KeepsSpace(ram, ram', proc[p].space)
      /\ \A u \in Pages : PageWord(ram', s, u)
                            = IF u = h THEN call.old ELSE PageWord(ram, s, u)
  <2> DEFINE k == ram'
             o == call.old
  <2>1. k \in Memories /\ k.free \subseteq ram.free \cup {h}
        /\ k.word = n.word /\ MapsPage(ram, n, s, h, o)
    BY <1>3, <1>5
  <2> HIDE DEF h, k, o
  <2>2. Remaps(ram, k, kernel_space, Alive, proc, current, h, o)
    BY <1>2, <2>1, RemapUndisturbed
  <2> QED BY <2>2 DEF k, o, Remaps
<1>7. /\ Apart(ram', kernel_space, Alive, proc)
      /\ KeepsSpace(ram, ram', kernel_space)
      /\ \A p \in Alive : AllOf(ram', proc[p]) = AllOf(ram, proc[p])
  BY <1>2, <1>6, ApartKept
<1> QED BY <1>5, <1>6, <1>7 DEF OneChanges

LEMMA CopyBeginSpace == ASSUME SpaceInv, CopyBegin PROVE SpaceInv'
<1> DEFINE h == call'.shared
           s == proc[current].space
<1>1. /\ pc = "called" /\ pc' = "copying"
      /\ cr3' = Directory(ram', s)
      /\ tlb' = [v \in Pages |-> Translate(ram', Directory(ram', s), v)]
      /\ UNCHANGED <<kernel_space, proc, current>>
  BY DEF CopyBegin, load_page_directory
<1>2. /\ h \in ram.free /\ h \notin ram'.free
      /\ OneChanges(h, Word(h, SharedFlags))
      /\ Changed(call, call', call.arg, h, PageWord(ram, s, h), call.got)
  BY CopyBeginFacts
<1>3. Alive' = Alive
  BY <1>1 DEF Alive
<1>4. Typed'
  BY <1>1, <1>2, <1>3 DEF SpaceInv, Typed, OneChanges
<1>5. SpacesApart'
  BY <1>1, <1>2, <1>3 DEF SpacesApart, OneChanges
<1>6. SharedApart'
  <2>1. /\ ram \in Memories /\ Apart(ram, kernel_space, Alive, proc)
        /\ current \in Alive
    BY <1>1 DEF SpaceInv, Typed, SpacesApart
  <2>2. h \in HeapFrames /\ h \in Pages
    BY <1>2, <2>1, MemoryTyped
  <2>3. call'.old \in Words
    <3>1. Space(ram, s)
      BY <2>1, ApartFrames
    <3>2. PageWord(ram, s, h) \in Words
      BY <2>1, <2>2, <3>1, PageWordTyped
    <3> QED BY <1>2, <3>2 DEF Changed
  <2>4. h \notin FramesOf(ram', kernel_space)
    BY <1>2, <2>1 DEF Apart, OneChanges, KeepsSpace, SameSpace
  <2>5. \A p \in Alive : h \notin AllOf(ram', proc[p])
    BY <1>2, <2>1, ApartFrames DEF OneChanges
  <2> QED BY <1>1, <1>2, <1>3, <2>2, <2>3, <2>4, <2>5 DEF SharedApart
<1>7. CallAllowed'
  BY <1>1, <1>2, <1>3 DEF SpaceInv, CallAllowed, Changed, Procs
<1>8. Loaded'
  BY <1>1 DEF Loaded, OnTask
<1> QED BY <1>4, <1>5, <1>6, <1>7, <1>8 DEF SpaceInv

(* The kernel stays loaded when its space is kept.                         *)
LEMMA KernelLoaded ==
  ASSUME KeepsSpace(ram, ram', kernel_space),
         cr3' = Directory(ram, kernel_space),
         tlb' = [v \in Pages |-> Translate(ram, cr3', v)],
         kernel_space' = kernel_space, ~OnTask'
  PROVE  Loaded'
<1>1. cr3' = Directory(ram', kernel_space')
  BY DEF KeepsSpace, SameSpace
<1>2. \A v \in Pages : Translate(ram, cr3', v) = Translate(ram', cr3', v)
  BY <1>1 DEF KeepsSpace, PageWord
<1>3. tlb' = [v \in Pages |-> Translate(ram', cr3', v)]
  BY <1>2
<1> QED BY <1>1, <1>3 DEF Loaded

LEMMA CopyEndSpace == ASSUME SpaceInv, CopyEnd PROVE SpaceInv'
<1>1. /\ pc = "copied" /\ pc' = "argument"
      /\ cr3' = Directory(ram, kernel_space)
      /\ tlb' = [v \in Pages |-> Translate(ram, Directory(ram, kernel_space),
                                           v)]
      /\ UNCHANGED <<kernel_space, proc, current, call>>
  BY DEF CopyEnd, change_to_kernel_page_directory, load_page_directory
<1>2. OneChanges(call.shared, call.old)
  BY CopyEndFacts
<1>3. Alive' = Alive
  BY <1>1 DEF Alive
<1>4. Typed'
  BY <1>1, <1>2, <1>3 DEF SpaceInv, Typed, OneChanges
<1>5. SpacesApart'
  BY <1>1, <1>2, <1>3 DEF SpacesApart, OneChanges
<1>6. SharedApart'
  BY <1>1 DEF SharedApart, Copying
<1>7. CallAllowed'
  BY <1>1, <1>3 DEF SpaceInv, CallAllowed, Procs
<1>8. Loaded'
  <2>1. KeepsSpace(ram, ram', kernel_space) /\ ~OnTask'
    BY <1>1, <1>2 DEF OneChanges, OnTask
  <2>2. tlb' = [v \in Pages |-> Translate(ram, cr3', v)]
    BY <1>1
  <2> QED BY <1>1, <2>1, <2>2, KernelLoaded
<1> QED BY <1>4, <1>5, <1>6, <1>7, <1>8 DEF SpaceInv

(* Every space is in n what it is in ram.                                  *)
AllKept(n, procs) ==
  /\ n \in Memories
  /\ Apart(n, kernel_space, procs, proc)
  /\ KeepsSpace(ram, n, kernel_space)
  /\ \A p \in procs : /\ AllOf(n, proc[p]) = AllOf(ram, proc[p])
                      /\ KeepsSpace(ram, n, proc[p].space)

LEMMA AllGrow ==
  ASSUME SpaceInv, NEW n, Grows(ram, n)
  PROVE  AllKept(n, Alive)
<1>1. Apart(ram, kernel_space, Alive, proc)
  BY DEF SpaceInv, SpacesApart
<1>2. /\ Undisturbed(ram, n, kernel_space, Alive, proc)
      /\ WordsKept(ram, n, Alive, proc)
  BY <1>1, GrowsUndisturbed
<1>3. /\ Apart(n, kernel_space, Alive, proc)
      /\ KeepsSpace(ram, n, kernel_space)
      /\ \A p \in Alive : AllOf(n, proc[p]) = AllOf(ram, proc[p])
  BY <1>1, <1>2, ApartKept
<1>4. \A p \in Alive : KeepsSpace(ram, n, proc[p].space)
  <2> TAKE p \in Alive
  <2>1. Space(ram, proc[p].space)
    BY <1>1, ApartFrames
  <2>2. \A g \in FramesOf(ram, proc[p].space) : n.word[g] = ram.word[g]
    BY <1>2 DEF WordsKept
  <2> QED BY <2>1, <2>2, SpaceKept
<1> QED BY <1>3, <1>4, GrowsTyped DEF AllKept

LEMMA NoProcessIs == ASSUME NEW q \in Processes PROVE q # NoProcess
  BY DEF Processes, NoProcess

(* A new process has allocated nothing.                                    *)
LEMMA NoneAllocated ==
  ASSUME NEW q, q.mem_allocations = NoAllocations
  PROVE  Allocated(q) = {} /\ Mine(q) = Held(q) /\ SlotsApart(q)
<1>1. \A s \in Slots : BaseOf(q, s) = 0
  BY DEF NoAllocations, Allocation, BaseOf
<1>2. Allocated(q) = {}
  BY <1>1 DEF Allocated, BaseOf
<1> QED BY <1>1, <1>2 DEF Mine, SlotsApart

(* One process more.                                                       *)
LEMMA ApartJoined ==
  ASSUME NEW m, NEW k, NEW A, NEW process, Apart(m, k, A, process), NEW p,
         NEW pr, \A r \in A : r # p /\ pr[r] = process[r],
         Whole(m, pr[p]), AllOf(m, pr[p]) \cap FramesOf(m, k) = {},
         \A r \in A : AllOf(m, pr[p]) \cap AllOf(m, process[r]) = {}
  PROVE  Apart(m, k, A \cup {p}, pr)
<1>1. Space(m, k) /\ FramesOf(m, k) \cap m.free = {}
  BY DEF Apart
<1>2. ASSUME NEW r \in A \cup {p}
      PROVE  Whole(m, pr[r]) /\ AllOf(m, pr[r]) \cap FramesOf(m, k) = {}
  BY DEF Apart
<1>3. ASSUME NEW r \in A \cup {p}, NEW t \in A \cup {p}, r # t
      PROVE  AllOf(m, pr[r]) \cap AllOf(m, pr[t]) = {}
  <2>1. CASE r = p
    BY <1>3, <2>1
  <2>2. CASE t = p
    BY <1>3, <2>2
  <2>3. CASE r # p /\ t # p
    BY <1>3, <2>3 DEF Apart
  <2> QED BY <2>1, <2>2, <2>3
<1> QED BY <1>1, <1>2, <1>3 DEF Apart

(* A process is added.                                                     *)
LEMMA ProcessAdded ==
  ASSUME SpaceInv, NEW new, Started(ram, new), new.process # NoProcess,
         NEW p \in Procs \ Alive, ram' = new.ram,
         kernel_space' = kernel_space,
         proc' = [proc EXCEPT ![p] = new.process]
  PROVE  /\ ram' \in Memories /\ proc' \in [Procs -> Processes \cup {NoProcess}]
         /\ Alive' = Alive \cup {p} /\ SpacesApart'
         /\ AllKept(ram', Alive)
         /\ proc'[p] = new.process /\ \A r \in Alive : proc'[r] = proc[r]
<1> DEFINE q == new.process
           k == kernel_space
<1>1. /\ q \in Processes /\ Space(new.ram, q.space)
      /\ AllOf(new.ram, q) \subseteq ram.free \ new.ram.free
      /\ Mine(q) \cap FramesOf(new.ram, q.space) = {}
      /\ Grows(ram, new.ram) /\ SlotsApart(q)
  BY NoneAllocated DEF Started, Given, AllOf
<1>2. /\ ram \in Memories /\ proc \in [Procs -> Processes \cup {NoProcess}]
      /\ Apart(ram, k, Alive, proc)
  BY DEF SpaceInv, Typed, SpacesApart
<1>3. AllKept(ram', Alive)
  BY <1>1, AllGrow
<1> HIDE DEF q
<1>4. /\ proc' \in [Procs -> Processes \cup {NoProcess}]
      /\ proc'[p] = q /\ \A r \in Procs : r # p => proc'[r] = proc[r]
  BY <1>1, <1>2 DEF q
<1>5. Alive' = Alive \cup {p}
  BY <1>1, <1>4, NoProcessIs DEF Alive, Procs
<1>6. \A r \in Alive : r # p /\ proc'[r] = proc[r]
  BY <1>4 DEF Alive
<1>7. Whole(ram', q)
  <2>1. Mine(q) \subseteq HeapFrames
    BY <1>1, <1>2, MemoryTyped DEF AllOf
  <2> QED BY <1>1, <2>1 DEF Whole, AllOf
<1>8. AllOf(ram', q) \cap FramesOf(ram', k) = {}
      /\ \A r \in Alive : AllOf(ram', q) \cap AllOf(ram', proc[r]) = {}
  <2>1. FramesOf(ram', k) = FramesOf(ram, k)
        /\ FramesOf(ram, k) \cap ram.free = {}
    BY <1>2, <1>3 DEF AllKept, KeepsSpace, SameSpace, Apart
  <2>2. \A r \in Alive : AllOf(ram', proc[r]) \cap ram.free = {}
    BY <1>2, <1>3, ApartFrames DEF AllKept
  <2> QED BY <1>1, <2>1, <2>2
<1>9. Apart(ram', k, Alive', proc')
  <2> DEFINE m == ram'
             pr == proc'
  <2>1. Apart(m, k, Alive, proc)
    BY <1>3 DEF AllKept
  <2>2. /\ \A r \in Alive : r # p /\ pr[r] = proc[r]
        /\ Whole(m, pr[p]) /\ AllOf(m, pr[p]) \cap FramesOf(m, k) = {}
        /\ \A r \in Alive : AllOf(m, pr[p]) \cap AllOf(m, proc[r]) = {}
    BY <1>4, <1>6, <1>7, <1>8
  <2> HIDE DEF m, pr
  <2>3. Apart(m, k, Alive \cup {p}, pr)
    BY <2>1, <2>2, ApartJoined
  <2> QED BY <1>5, <2>3 DEF m, pr
<1>10. SpacesApart'
  BY <1>9 DEF SpacesApart
<1> QED BY <1>3, <1>4, <1>5, <1>6, <1>10 DEF AllKept, q

LEMMA ShellIs == Gshell \in Procs
  BY AddressSpaceAssumption DEF Gshell, Procs

LEMMA BootSpace == ASSUME SpaceInv, BootShell PROVE SpaceInv'
<1> DEFINE new == process_new(ram, ShellFile)
<1>1. /\ pc = "boot" /\ pc' = "done" /\ new.process # NoProcess
      /\ ~new.partial /\ ram' = new.ram
      /\ proc' = [proc EXCEPT ![Gshell] = new.process]
      /\ UNCHANGED <<kernel_space, cr3, tlb, current, call>>
  BY DEF BootShell
<1>2. ram \in Memories /\ Alive = {} /\ current = Gshell
  BY <1>1 DEF SpaceInv, Typed
<1>3. Started(ram, new)
  BY <1>1, <1>2, AddressSpaceAssumption, NewStarted
<1>4. Gshell \in Procs \ Alive
  BY <1>2, ShellIs
<1> HIDE DEF new
<1>5. /\ ram' \in Memories /\ proc' \in [Procs -> Processes \cup {NoProcess}]
      /\ Alive' = Alive \cup {Gshell} /\ SpacesApart'
      /\ AllKept(ram', Alive)
  BY <1>1, <1>3, <1>4, ProcessAdded
<1>6. Typed'
  BY <1>1, <1>2, <1>4, <1>5 DEF Typed
<1>7. SharedApart' /\ CallAllowed'
  BY <1>1 DEF SharedApart, CallAllowed, Copying
<1>8. Loaded'
  BY <1>1, <1>5, KernelLoaded DEF SpaceInv, Loaded, OnTask, AllKept
<1> QED BY <1>5, <1>6, <1>7, <1>8 DEF SpaceInv

LEMMA FreeSlot ==
  ASSUME Alive # Procs PROVE Min(Procs \ Alive) \in Procs \ Alive
<1> DEFINE S == Procs \ Alive
<1>1. S \subseteq Nat /\ S # {}
  BY DEF Alive, Procs
<1> HIDE DEF S
<1>2. \E x \in S : \A y \in S : x <= y
  BY <1>1, LeastNatural
<1>3. Min(S) \in S
  BY <1>2 DEF Min
<1> QED BY <1>3 DEF S

(* The current process gets or gives back memory of the heap: its memory   *)
(* and the translations of its space change, and nothing else.             *)
Traded(z, ok) ==
  /\ ram' \in Memories
  /\ proc' \in [Procs -> Processes \cup {NoProcess}]
  /\ Alive' = Alive /\ SpacesApart'
  /\ KeepsSpace(ram, ram', kernel_space)
  /\ \A p \in Alive : p # current =>
       proc'[p] = proc[p] /\ KeepsSpace(ram, ram', proc[p].space)
  /\ proc'[current] = z /\ z.space = proc[current].space
  /\ Allocated(z) \subseteq HeapFrames
  /\ \A u \in Pages :
       \/ PageWord(ram', z.space, u) = PageWord(ram, z.space, u)
       \/ <<u, PageWord(ram', z.space, u)>> \in ok

LEMMA ProcessTrades ==
  ASSUME SpaceInv, current \in Alive, NEW z \in Processes,
         z.space = proc[current].space, Held(z) = Held(proc[current]),
         NEW m, Grows(ram, m), NEW n, NEW ok, Remapped(m, n, z.space, ok),
         ram' \in Memories, ram'.word = n.word,
         ram'.free \subseteq m.free \cup Allocated(proc[current]),
         Allocated(z) \subseteq ram.free \cup Allocated(proc[current]),
         (Held(z) \cup Allocated(z)) \cap ram'.free = {}, SlotsApart(z),
         kernel_space' = kernel_space, proc' = [proc EXCEPT ![current] = z]
  PROVE  Traded(z, ok)
<1> DEFINE q == proc[current]
           k == kernel_space
           s == z.space
           A == Alive \ {current}
           r == ram'
<1>1. /\ ram \in Memories /\ proc \in [Procs -> Processes \cup {NoProcess}]
      /\ Apart(ram, k, Alive, proc) /\ current \in Procs
  BY DEF SpaceInv, Typed, SpacesApart
<1>2. AllKept(m, Alive)
  BY AllGrow
<1>3. /\ m \in Memories /\ m.free \subseteq ram.free
      /\ Apart(m, k, Alive, proc) /\ KeepsSpace(ram, m, k)
      /\ \A p \in Alive : /\ AllOf(m, proc[p]) = AllOf(ram, proc[p])
                          /\ KeepsSpace(ram, m, proc[p].space)
  BY <1>2, GrowsTyped DEF AllKept
<1>4. /\ Whole(m, q) /\ Space(m, s)
      /\ AllOf(m, q) \cap FramesOf(m, k) = {}
      /\ FramesOf(m, s) \subseteq AllOf(m, q)
      /\ Allocated(q) \subseteq AllOf(m, q) /\ Held(q) \subseteq AllOf(m, q)
      /\ Tables(m, s) \subseteq FramesOf(m, s)
  BY <1>3, FramesAre DEF Apart, Whole, AllOf, Mine
<1>5. /\ proc' \in [Procs -> Processes \cup {NoProcess}]
      /\ proc'[current] = z
      /\ \A p \in Procs : p # current => proc'[p] = proc[p]
  BY <1>1
<1>6. Alive' = Alive
  BY <1>5, NoProcessIs DEF Alive, Procs
<1>7. Apart(m, k, A, proc)
  BY <1>3 DEF Apart
<1> HIDE DEF r
<1>8. \A g \in Pages : g \notin Tables(m, s) => r.word[g] = m.word[g]
  BY DEF Remapped, r
<1>9. ASSUME NEW p \in A
      PROVE  /\ \A g \in FramesOf(m, proc[p].space) : r.word[g] = m.word[g]
             /\ AllOf(m, proc[p]) \cap r.free = {}
             /\ KeepsSpace(m, r, proc[p].space)
             /\ \A g \in {proc[p].space, pd_of(m, proc[p].space),
                          Directory(m, proc[p].space)} :
                  r.word[g] = m.word[g]
  <2>1. /\ Space(m, proc[p].space)
        /\ FramesOf(m, proc[p].space) \subseteq AllOf(m, proc[p])
        /\ AllOf(m, proc[p]) \subseteq HeapFrames
        /\ AllOf(m, proc[p]) \cap m.free = {}
    BY <1>7, ApartFrames
  <2>2. AllOf(m, proc[p]) \cap AllOf(m, q) = {}
    BY <1>3 DEF Apart
  <2>3. \A g \in FramesOf(m, proc[p].space) : r.word[g] = m.word[g]
    BY <1>4, <1>8, <2>1, <2>2, PagesAre
  <2>4. AllOf(m, proc[p]) \cap r.free = {}
    BY <1>4, <2>1, <2>2 DEF r
  <2> QED BY <2>1, <2>3, <2>4, SpaceKept, FramesAre
<1>10. /\ \A g \in FramesOf(m, k) : r.word[g] = m.word[g]
       /\ FramesOf(m, k) \cap r.free = {}
  <2>1. FramesOf(m, k) \subseteq HeapFrames /\ FramesOf(m, k) \cap m.free = {}
    BY <1>3, FramesAre DEF Apart
  <2> QED BY <1>4, <1>8, <2>1, PagesAre DEF r
<1>11. Undisturbed(m, r, k, A, proc)
  BY <1>9, <1>10 DEF Undisturbed, r
<1>12. /\ Apart(r, k, A, proc) /\ KeepsSpace(m, r, k)
       /\ \A p \in A : AllOf(r, proc[p]) = AllOf(m, proc[p])
  BY <1>7, <1>11, ApartKept
<1>13. Space(r, s) /\ FramesOf(r, s) = FramesOf(m, s)
  <2>1. \A g \in {s, pd_of(m, s), Directory(m, s)} : r.word[g] = m.word[g]
    BY <1>4, <1>8, FramesAre, PagesAre
  <2> QED BY <1>4, <2>1, SpaceSame DEF SameSpace
<1>14. AllOf(r, z) \subseteq AllOf(m, q) \cup ram.free
  BY <1>4, <1>13 DEF AllOf, Mine
<1>15. /\ AllOf(m, q) \cap ram.free = {} /\ ram.free \subseteq HeapFrames
       /\ AllOf(m, q) \subseteq HeapFrames
  BY <1>1, <1>3, ApartFrames, MemoryTyped
<1>16. Whole(r, z)
  <2>1. Mine(z) \subseteq HeapFrames /\ Mine(z) = Held(q) \cup Allocated(z)
    BY <1>14, <1>15 DEF Mine, AllOf
  <2>2. Mine(z) \cap FramesOf(r, s) = {}
    <3>1. (Held(q) \cup Allocated(q)) \cap FramesOf(m, s) = {}
      BY <1>4 DEF Whole, Mine
    <3>2. ram.free \cap FramesOf(m, s) = {}
      BY <1>4, <1>15
    <3> QED BY <1>13, <2>1, <3>1, <3>2
  <2>3. FramesOf(r, s) \cap r.free = {}
    <3>1. Allocated(q) \cap FramesOf(m, s) = {}
      BY <1>4 DEF Whole, Mine
    <3>2. ram.free \cap FramesOf(m, s) = {}
      BY <1>4, <1>15
    <3> QED BY <1>3, <1>13, <3>1, <3>2 DEF r
  <2>4. Mine(z) \cap r.free = {}
    BY <2>1 DEF r
  <2> QED BY <1>13, <2>1, <2>2, <2>3, <2>4 DEF Whole
<1>17. AllOf(r, z) \cap FramesOf(r, k) = {}
  <2>1. FramesOf(r, k) = FramesOf(m, k) /\ FramesOf(m, k) = FramesOf(ram, k)
        /\ FramesOf(ram, k) \cap ram.free = {}
    BY <1>1, <1>3, <1>12 DEF KeepsSpace, SameSpace, Apart
  <2> QED BY <1>4, <1>14, <2>1
<1>18. \A p \in A : AllOf(r, z) \cap AllOf(r, proc[p]) = {}
  <2> TAKE p \in A
  <2>1. AllOf(r, proc[p]) = AllOf(m, proc[p])
        /\ AllOf(m, proc[p]) = AllOf(ram, proc[p])
    BY <1>3, <1>12
  <2>2. AllOf(ram, proc[p]) \cap ram.free = {}
    BY <1>1, ApartFrames
  <2>3. AllOf(m, proc[p]) \cap AllOf(m, q) = {}
    BY <1>3 DEF Apart
  <2> QED BY <1>14, <2>1, <2>2, <2>3
<1>19. Apart(r, k, Alive, proc')
  <2> DEFINE pr == proc'
  <2>1. \A p \in A : p # current /\ pr[p] = proc[p]
    BY <1>5 DEF Alive
  <2>2. pr[current] = z
    BY <1>5
  <2> HIDE DEF pr
  <2>3. Apart(r, k, A \cup {current}, pr)
    BY <1>12, <1>16, <1>17, <1>18, <2>1, <2>2, ApartJoined
  <2>4. A \cup {current} = Alive
    OBVIOUS
  <2> QED BY <2>3, <2>4 DEF pr
<1>20. SpacesApart'
  BY <1>6, <1>19 DEF SpacesApart, r
<1>21. \A p \in Alive : p # current =>
         proc'[p] = proc[p] /\ KeepsSpace(ram, ram', proc[p].space)
  <2> SUFFICES ASSUME NEW p \in A
               PROVE  proc'[p] = proc[p] /\ KeepsSpace(ram, r, proc[p].space)
    BY DEF r
  <2> QED BY <1>3, <1>5, <1>9, KeepsTwice DEF Alive
<1>22. KeepsSpace(ram, r, k)
  BY <1>3, <1>12, KeepsTwice
<1>23. ASSUME NEW u \in Pages
       PROVE  \/ PageWord(r, s, u) = PageWord(ram, s, u)
              \/ <<u, PageWord(r, s, u)>> \in ok
  <2>1. PageWord(r, s, u) = PageWord(n, s, u)
    BY DEF r, PageWord, Translate, Directory, page_directory_entries, pd_of
  <2>2. PageWord(m, s, u) = PageWord(ram, s, u)
    BY <1>3 DEF KeepsSpace
  <2> QED BY <2>1, <2>2 DEF Remapped
<1>24. Allocated(z) \subseteq HeapFrames
  BY <1>16 DEF Whole, Mine
<1> QED BY <1>5, <1>6, <1>20, <1>21, <1>22, <1>23, <1>24 DEF Traded, r

LEMMA SpaceTraded ==
  ASSUME SpaceInv, NEW z, NEW ok, Traded(z, ok), pc = "kernel", pc' = "done",
         UNCHANGED <<kernel_space, cr3, tlb, current, call>>
  PROVE  SpaceInv'
<1>1. Typed' /\ SpacesApart'
  BY DEF SpaceInv, Typed, Traded
<1>2. SharedApart' /\ CallAllowed'
  BY DEF SharedApart, CallAllowed, Copying
<1>3. Loaded'
  BY KernelLoaded DEF SpaceInv, Loaded, OnTask, Traded
<1> QED BY <1>1, <1>2, <1>3 DEF SpaceInv

(* A slot of the process q is set.                                         *)
Others(q, z) ==
  /\ z.type = q.type /\ z.file = q.file /\ z.struct = q.struct
  /\ z.stack = q.stack /\ z.elf = q.elf /\ z.data = q.data
  /\ z.task = q.task /\ z.space = q.space

SlotSet(q, z, s, base, size) ==
  /\ z \in Processes /\ Others(q, z)
  /\ z.mem_allocations
       = [q.mem_allocations EXCEPT ![s] = Allocation(base, size)]

LEMMA OthersHeld ==
  ASSUME NEW q, NEW z, Others(q, z)
  PROVE  Held(z) = Held(q) /\ Program(z) = Program(q)
  BY DEF Others, Held, Program

LEMMA AllocatedIs ==
  ASSUME NEW q
  PROVE  Allocated(q)
           = UNION {SlotFrames(q, s) : s \in {t \in Slots : BaseOf(q, t) # 0}}
  BY DEF Allocated, SlotFrames, BaseOf

LEMMA SlotSetFacts ==
  ASSUME NEW q \in Processes, NEW z, NEW s \in Slots, NEW base, NEW size,
         SlotSet(q, z, s, base, size)
  PROVE  /\ BaseOf(z, s) = base
         /\ SlotFrames(z, s) = Segment(base, Blocks(size))
         /\ \A t \in Slots \ {s} : /\ BaseOf(z, t) = BaseOf(q, t)
                                   /\ SlotFrames(z, t) = SlotFrames(q, t)
<1>1. q.mem_allocations \in Allocations
  BY DEF Processes
<1>2. /\ z.mem_allocations[s] = Allocation(base, size)
      /\ \A t \in Slots \ {s} : z.mem_allocations[t] = q.mem_allocations[t]
  BY <1>1 DEF SlotSet, Allocations
<1> QED BY <1>2 DEF BaseOf, SlotFrames, Allocation

LEMMA SlotsAre ==
  ASSUME NEW base, SlotsWith(base) # {}
  PROVE  Min(SlotsWith(base)) \in Slots
         /\ BaseOf(proc[current], Min(SlotsWith(base))) = base
<1> DEFINE S == SlotsWith(base)
<1>1. S \subseteq Nat /\ S \subseteq Slots
      /\ \A s \in S : BaseOf(proc[current], s) = base
  BY DEF SlotsWith, Slots, BaseOf
<1> HIDE DEF S
<1>2. \E x \in S : \A y \in S : x <= y
  BY <1>1, LeastNatural DEF S
<1>3. Min(S) \in S
  BY <1>2 DEF Min
<1> QED BY <1>1, <1>3 DEF S

LEMMA SizeTyped == ASSUME NEW size \in Sizes PROVE size \in Nat
  BY AddressSpaceAssumption

LEMMA CurrentWhole ==
  ASSUME SpaceInv, pc # "boot"
  PROVE  /\ ram \in Memories /\ current \in Alive
         /\ Whole(ram, proc[current]) /\ proc[current] \in Processes
         /\ proc \in [Procs -> Processes \cup {NoProcess}]
         /\ current \in Procs
  BY DEF SpaceInv, Typed, SpacesApart, Apart, Whole

(* MALLOC: the process has the frames, and they are mapped to themselves.  *)
MallocTrades(q, z) ==
  /\ z \in Processes /\ Others(q, z) /\ z.freed = q.freed
  /\ Allocated(q) \subseteq Allocated(z)
  /\ Traded(z, Itself(Allocated(z)))

LEMMA MallocFacts ==
  ASSUME SpaceInv, ~NullPointers, NEW size \in Sizes, MALLOC(size),
         SlotsWith(0) # {}
  PROVE  MallocTrades(proc[current], proc'[current])
<1> DEFINE q == proc[current]
           n == Blocks(size)
           f == Fit(ram, n)
           m == kzalloc(ram, n)
           s == Min(SlotsWith(0))
           b == Allocation(f, size)
           z == [q EXCEPT !.mem_allocations = [@ EXCEPT ![s] = b]]
           F == Allocated(z)
           r == paging_map_range(m, q.space, Address(f), Address(f),
                                 Address(f + n) % MemoryEnd, SharedFlags)
<1>1. /\ pc = "kernel" /\ pc' = "done" /\ ram' = r
      /\ proc' = [proc EXCEPT ![current].mem_allocations =
                    [@ EXCEPT ![s] = b]]
      /\ UNCHANGED <<kernel_space, cr3, tlb, current, call>>
      /\ MayMalloc(size)
  BY DEF MALLOC, Alloc, SpaceOf
<1>2. /\ ram \in Memories /\ current \in Alive /\ Whole(ram, q)
      /\ q \in Processes /\ current \in Procs
      /\ proc \in [Procs -> Processes \cup {NoProcess}]
  BY <1>1, CurrentWhole
<1>3. proc' = [proc EXCEPT ![current] = z] /\ proc'[current] = z
  BY <1>1, <1>2
<1>4. size \in Nat /\ n \in Nat /\ (size = 0 => n = 0)
  <2>1. size \in Nat /\ n \in Nat
    BY SizeTyped, Ceil
  <2>2. size = 0 => n = 0
    <3>1. 0 <= Address(0) /\ Address(0) < 0 + PAGE_SIZE
      BY AddressLinear, EntrySizes
    <3>2. Blocks(0) = 0
      BY <3>1, CeilUnique
    <3> QED BY <3>2
  <2> QED BY <2>1, <2>2
<1>5. s \in Slots /\ BaseOf(q, s) = 0
  BY SlotsAre
<1>6. f # 0 \/ n = 0
  BY <1>1, <1>4 DEF MayMalloc
<1> HIDE DEF s, n
<1>7. /\ m \in Memories
      /\ f = 0 => m = ram
      /\ f # 0 => /\ f \in ram.free /\ f \in Segment(f, n)
                  /\ Segment(f, n) \subseteq ram.free
                  /\ m.free = ram.free \ Segment(f, n)
  BY <1>2, <1>4, AllocFacts
<1>8. Grows(ram, m)
  BY <1>2, <1>4, GrowsSame, AllocGrows
<1> HIDE DEF f, m
<1>9. ram.free \subseteq HeapFrames /\ ram.free \subseteq Pages
      /\ 0 \in Pages /\ f \in Pages /\ f \in HeapFrames \cup {0}
  BY <1>2, <1>7, MemoryTyped, PagesAre
<1>10. SlotSet(q, z, s, f, size) /\ z.freed = q.freed
  <2>1. q.mem_allocations \in Allocations
    BY <1>2 DEF Processes
  <2>2. b \in [base : HeapFrames \cup {0}, size : Nat]
    BY <1>4, <1>9 DEF Allocation
  <2> HIDE DEF b
  <2>3. [q.mem_allocations EXCEPT ![s] = b] \in Allocations
    BY <1>5, <2>1, <2>2 DEF Allocations
  <2> DEFINE a == [q.mem_allocations EXCEPT ![s] = b]
  <2> HIDE DEF a
  <2>4. z = [q EXCEPT !.mem_allocations = a]
    BY DEF a
  <2>5. z \in Processes /\ Others(q, z) /\ z.mem_allocations = a
        /\ z.freed = q.freed
    BY <1>2, <2>3, <2>4 DEF Processes, Others, a
  <2> QED BY <2>5 DEF SlotSet, a, b
<1> HIDE DEF z
<1>11. /\ BaseOf(z, s) = f /\ SlotFrames(z, s) = Segment(f, n)
       /\ \A t \in Slots \ {s} : /\ BaseOf(z, t) = BaseOf(q, t)
                                 /\ SlotFrames(z, t) = SlotFrames(q, t)
  BY <1>2, <1>5, <1>10, SlotSetFacts DEF n
<1>12. /\ z \in Processes /\ Others(q, z)
       /\ Held(z) = Held(q) /\ z.space = q.space
  BY <1>10, OthersHeld DEF SlotSet, Others
<1>13. /\ Allocated(q) \subseteq F
       /\ F \subseteq Allocated(q) \cup (IF f = 0 THEN {} ELSE Segment(f, n))
       /\ f # 0 => Segment(f, n) \subseteq F
  BY <1>5, <1>11, AllocatedIs
<1>14. Segment(f, n) \cap Pages \subseteq F
  <2>1. f = 0 => Segment(f, n) = {}
    BY <1>6 DEF Segment
  <2> QED BY <1>13, <2>1
<1>15. Remapped(m, r, z.space, Itself(F))
  <2>1. Space(m, q.space)
    <3>1. KeepsSpace(ram, m, q.space)
      BY <1>2, <1>8, AllGrow DEF AllKept
    <3> QED BY <3>1 DEF KeepsSpace, SameSpace
  <2> HIDE DEF F
  <2> QED BY <1>4, <1>7, <1>9, <1>12, <1>14, <2>1, IdentityRange
<1>16. /\ Held(q) \cap ram.free = {} /\ Allocated(q) \cap ram.free = {}
       /\ SlotsApart(q)
  BY <1>2 DEF Whole, Mine
<1>17. (Held(z) \cup F) \cap r.free = {}
  <2>1. r.free = m.free
    BY <1>15 DEF Remapped
  <2>2. m.free \subseteq ram.free /\ (f # 0 => m.free \cap Segment(f, n) = {})
    BY <1>7
  <2> HIDE DEF r, F
  <2> QED BY <1>12, <1>13, <1>16, <2>1, <2>2
<1>18. SlotsApart(z)
  <2> SUFFICES ASSUME NEW t \in Slots, BaseOf(z, t) # 0
               PROVE  /\ BaseOf(z, t) \in SlotFrames(z, t) \ Held(z)
                      /\ \A x \in Slots \ {t} : BaseOf(z, x) # 0 =>
                           BaseOf(z, t) \notin SlotFrames(z, x)
    BY DEF SlotsApart
  <2>1. \A x \in Slots \ {s} : BaseOf(q, x) # 0 =>
          /\ SlotFrames(q, x) \cap ram.free = {}
          /\ BaseOf(q, x) \in SlotFrames(q, x)
    BY <1>16, AllocatedIs DEF SlotsApart
  <2>2. CASE t = s
    <3>1. f # 0 /\ f \in ram.free /\ f \in Segment(f, n) /\ f \notin Held(z)
      BY <1>7, <1>11, <1>12, <1>16, <2>2
    <3> QED BY <1>11, <2>1, <2>2, <3>1
  <2>3. CASE t # s
    <3>1. BaseOf(q, t) \in SlotFrames(q, t) \ Held(q)
          /\ \A x \in Slots \ {t} : BaseOf(q, x) # 0 =>
               BaseOf(q, t) \notin SlotFrames(q, x)
      BY <1>11, <1>16, <2>3 DEF SlotsApart
    <3>2. f # 0 => BaseOf(q, t) \notin Segment(f, n)
      BY <1>7, <1>11, <2>1, <2>3
    <3> QED BY <1>11, <1>12, <2>3, <3>1, <3>2
  <2> QED BY <2>2, <2>3
<1>19. Traded(z, Itself(F))
  <2>1. F \subseteq ram.free \cup Allocated(q)
    BY <1>7, <1>13
  <2>2. r \in Memories /\ r.free \subseteq m.free \cup Allocated(q)
    BY <1>15 DEF Remapped
  <2> DEFINE o == Itself(F)
  <2> HIDE DEF r, o
  <2>3. Remapped(m, r, z.space, o) /\ ram' = r
    BY <1>1, <1>15 DEF o
  <2>4. Traded(z, o)
    BY <1>1, <1>2, <1>3, <1>8, <1>12, <1>17, <1>18, <2>1, <2>2, <2>3,
       ProcessTrades
  <2> QED BY <2>4 DEF o
<1> QED BY <1>3, <1>10, <1>12, <1>13, <1>19 DEF MallocTrades

(* FREE: the frames are mapped to themselves, and the first is free.       *)
FreeTrades(q, z) ==
  /\ z \in Processes /\ Others(q, z) /\ z.freed
  /\ Traded(z, Itself(HeapFrames))

LEMMA FreeTradesFacts ==
  ASSUME SpaceInv, NEW base \in HeapFrames, FREE(base), SlotsWith(base) # {}
  PROVE  FreeTrades(proc[current], proc'[current])
<1> DEFINE q == proc[current]
           s == Min(SlotsWith(base))
           size == q.mem_allocations[s].size
           n == PagesToFree(size)
           z == [q EXCEPT !.mem_allocations[s] = Allocation(0, 0),
                          !.freed = TRUE]
           r == paging_map_range(ram, q.space, Address(base), Address(base),
                                 Address(base + n) % MemoryEnd, SharedFlags)
<1>1. /\ pc = "kernel" /\ pc' = "done" /\ ram' = kfree(r, base)
      /\ proc' = [proc EXCEPT ![current] = z]
      /\ UNCHANGED <<kernel_space, cr3, tlb, current, call>>
  BY DEF FREE, SpaceOf
<1>2. /\ ram \in Memories /\ current \in Alive /\ Whole(ram, q)
      /\ q \in Processes /\ current \in Procs
      /\ proc \in [Procs -> Processes \cup {NoProcess}]
  BY <1>1, CurrentWhole
<1>3. proc'[current] = z
  BY <1>1, <1>2
<1>4. s \in Slots /\ BaseOf(q, s) = base /\ base # 0 /\ base \in Pages
      /\ base \in Nat
  BY SlotsAre, PagesAre
<1>5. q.mem_allocations \in Allocations /\ size \in Nat
  BY <1>2, <1>4 DEF Processes, Allocations
<1> HIDE DEF s
<1>6. SlotsApart(q) /\ Held(q) \cap ram.free = {}
      /\ Allocated(q) \cap ram.free = {} /\ Space(ram, q.space)
  BY <1>2 DEF Whole, Mine
<1>7. base \in SlotFrames(q, s) /\ base \notin Held(q)
  BY <1>4, <1>6 DEF SlotsApart
<1>8. size # 0
  <2>1. SlotFrames(q, s) = base .. (base + Blocks(size) - 1)
    BY <1>4 DEF SlotFrames, Segment
  <2>2. Blocks(0) = 0
    <3>1. 0 <= Address(0) /\ Address(0) < 0 + PAGE_SIZE
      BY AddressLinear, EntrySizes
    <3> QED BY <3>1, CeilUnique
  <2> HIDE DEF size
  <2> QED BY <1>4, <1>7, <2>1, <2>2
<1>9. n \in Nat
  <2> HIDE DEF size
  <2>1. size + PAGE_SIZE - 1 \in Nat /\ size \in Nat \ {0}
    BY <1>5, <1>8, EntrySizes
  <2> QED BY <2>1, DivMod DEF PagesToFree
<1>10. SlotSet(q, z, s, 0, 0) /\ z.freed
  <2> DEFINE a == [q.mem_allocations EXCEPT ![s] = Allocation(0, 0)]
  <2>1. a \in Allocations
    BY <1>4, <1>5 DEF Allocations, Allocation
  <2>2. z = [[q EXCEPT !.mem_allocations = a] EXCEPT !.freed = TRUE]
    OBVIOUS
  <2> HIDE DEF a, z
  <2>3. z \in Processes /\ Others(q, z) /\ z.mem_allocations = a /\ z.freed
    BY <1>2, <2>1, <2>2 DEF Processes, Others
  <2> QED BY <2>3 DEF SlotSet, a
<1> HIDE DEF z
<1>11. /\ BaseOf(z, s) = 0
       /\ \A t \in Slots \ {s} : /\ BaseOf(z, t) = BaseOf(q, t)
                                 /\ SlotFrames(z, t) = SlotFrames(q, t)
  BY <1>2, <1>4, <1>10, SlotSetFacts
<1>12. /\ z \in Processes /\ Others(q, z)
       /\ Held(z) = Held(q) /\ z.space = q.space
  BY <1>10, OthersHeld DEF SlotSet, Others
<1>13. Allocated(z) \subseteq Allocated(q) /\ base \in Allocated(q)
       /\ base \notin Allocated(z)
  <2>1. \A t \in Slots \ {s} : BaseOf(q, t) # 0 => base \notin SlotFrames(q, t)
    BY <1>4, <1>6 DEF SlotsApart
  <2> QED BY <1>4, <1>7, <1>11, <2>1, AllocatedIs
<1>14. Remapped(ram, r, z.space, Itself(HeapFrames))
  <2>1. Segment(base, n) \cap Pages \subseteq HeapFrames
    BY <1>4, <1>9, EntrySizes DEF Segment, HeapFrames
  <2> HIDE DEF n
  <2> QED BY <1>2, <1>4, <1>6, <1>9, <1>12, <2>1, IdentityRange
<1> HIDE DEF r
<1>15. /\ ram' \in Memories /\ ram'.word = r.word
       /\ ram'.free \subseteq ram.free \cup {base}
  BY <1>1, <1>14, FreeFacts DEF Remapped
<1>16. (Held(z) \cup Allocated(z)) \cap ram'.free = {}
  BY <1>6, <1>7, <1>12, <1>13, <1>15
<1>17. SlotsApart(z)
  BY <1>6, <1>11, <1>12 DEF SlotsApart
<1>18. Traded(z, Itself(HeapFrames))
  <2> DEFINE o == Itself(HeapFrames)
  <2>1. Remapped(ram, r, z.space, o)
    BY <1>14
  <2> HIDE DEF o
  <2>2. Grows(ram, ram) /\ ram'.free \subseteq ram.free \cup Allocated(q)
        /\ Allocated(z) \subseteq ram.free \cup Allocated(q)
    BY <1>2, <1>13, <1>15, GrowsSame
  <2>3. Traded(z, o)
    BY <1>1, <1>2, <1>12, <1>15, <1>16, <1>17, <2>1, <2>2, ProcessTrades
  <2> QED BY <2>3 DEF o
<1> QED BY <1>3, <1>10, <1>12, <1>18 DEF FreeTrades

LEMMA HeapCallQuiet ==
  ASSUME SpaceInv, pc = "kernel", pc' = "done",
         UNCHANGED <<ram, kernel_space, cr3, tlb, proc, current, call>>
  PROVE  SpaceInv'
<1>1. Typed' /\ SpacesApart' /\ Alive' = Alive
  BY QuietStep
<1>2. SharedApart' /\ CallAllowed' /\ Loaded'
  BY DEF SpaceInv, SharedApart, CallAllowed, Loaded, Copying, OnTask
<1> QED BY <1>1, <1>2 DEF SpaceInv

LEMMA MallocSpace ==
  ASSUME SpaceInv, ~NullPointers, NEW size \in Sizes, MALLOC(size)
  PROVE  SpaceInv'
<1>1. pc = "kernel" /\ pc' = "done"
      /\ UNCHANGED <<kernel_space, cr3, tlb, current, call>>
  BY DEF MALLOC
<1>2. CASE SlotsWith(0) = {}
  BY <1>1, <1>2, HeapCallQuiet DEF MALLOC
<1>3. CASE SlotsWith(0) # {}
  BY <1>1, <1>3, MallocFacts, SpaceTraded DEF MallocTrades
<1> QED BY <1>2, <1>3

LEMMA FreeSpace ==
  ASSUME SpaceInv, NEW base \in HeapFrames, FREE(base)
  PROVE  SpaceInv'
<1>1. pc = "kernel" /\ pc' = "done"
      /\ UNCHANGED <<kernel_space, cr3, tlb, current, call>>
  BY DEF FREE
<1>2. CASE SlotsWith(base) = {}
  BY <1>1, <1>2, HeapCallQuiet DEF FREE
<1>3. CASE SlotsWith(base) # {}
  BY <1>1, <1>3, FreeTradesFacts, SpaceTraded DEF FreeTrades
<1> QED BY <1>2, <1>3

LEMMA ExecSpace ==
  ASSUME SpaceInv, ~NullPointers, NEW file \in Files, EXEC(file)
  PROVE  SpaceInv'
<1> DEFINE new == process_new(ram, file)
<1>1. /\ pc = "argument" /\ pc' = "done" /\ call.nr = "EXEC"
      /\ ~new.partial /\ ram' = new.ram
      /\ UNCHANGED <<kernel_space, cr3, tlb, call>>
  BY DEF EXEC
<1>2. /\ ram \in Memories /\ Gshell \in Alive /\ current \in Alive
      /\ Alive # Procs /\ proc \in [Procs -> Processes \cup {NoProcess}]
      /\ Alive \subseteq Procs
  BY <1>1 DEF SpaceInv, Typed, CallAllowed, Alive
<1>3. Started(ram, new)
  BY <1>1, <1>2, NewStarted
<1>4. /\ ram' \in Memories /\ KeepsSpace(ram, ram', kernel_space)
      /\ Apart(ram', kernel_space, Alive, proc)
  BY <1>1, <1>3, AllGrow DEF Started, AllKept
<1>5. SharedApart' /\ CallAllowed'
  BY <1>1 DEF SharedApart, CallAllowed, Copying
<1>6. Loaded'
  BY <1>1, <1>4, KernelLoaded DEF SpaceInv, Loaded, OnTask
<1>7. CASE new.process = NoProcess
  <2>1. proc' = proc /\ current' = current /\ Alive' = Alive
    BY <1>7 DEF EXEC, Alive
  <2>2. Typed' /\ SpacesApart'
    BY <1>1, <1>2, <1>4, <2>1 DEF Typed, SpacesApart
  <2> QED BY <1>5, <1>6, <2>2 DEF SpaceInv
<1>8. CASE new.process # NoProcess
  <2> DEFINE p == Min(Procs \ Alive)
  <2>1. current' = p /\ proc' = [proc EXCEPT ![p] = new.process]
    BY <1>8 DEF EXEC
  <2>2. p \in Procs \ Alive
    BY <1>2, FreeSlot
  <2> HIDE DEF p, new
  <2>3. /\ ram' \in Memories /\ SpacesApart' /\ Alive' = Alive \cup {p}
        /\ proc' \in [Procs -> Processes \cup {NoProcess}]
    BY <1>1, <1>3, <1>8, <2>1, <2>2, ProcessAdded
  <2>4. Typed'
    BY <1>1, <1>2, <2>1, <2>2, <2>3 DEF Typed
  <2> QED BY <1>5, <1>6, <2>3, <2>4 DEF SpaceInv
<1> QED BY <1>7, <1>8

LEMMA ExitFacts ==
  ASSUME SpaceInv, EXIT
  PROVE  /\ Alive' = Alive \ {current} /\ AllKept(ram', Alive')
         /\ \A p \in Alive' : proc'[p] = proc[p]
         /\ proc' \in [Procs -> Processes \cup {NoProcess}]
         /\ SpacesApart'
<1> DEFINE q == proc[current]
           k == kernel_space
<1>1. /\ pc = "kernel" /\ call.nr = "EXIT" /\ ram' = process_kill(ram, q)
      /\ proc' = [proc EXCEPT ![current] = NoProcess]
      /\ kernel_space' = kernel_space
  BY DEF EXIT
<1>2. /\ ram \in Memories /\ current \in Alive /\ current \in Procs
      /\ proc \in [Procs -> Processes \cup {NoProcess}]
      /\ Apart(ram, k, Alive, proc)
  BY <1>1 DEF SpaceInv, Typed, SpacesApart
<1>3. /\ proc' \in [Procs -> Processes \cup {NoProcess}]
      /\ proc'[current] = NoProcess
      /\ \A p \in Procs : p # current => proc'[p] = proc[p]
  BY <1>1, <1>2
<1>4. Alive' = Alive \ {current}
  BY <1>3 DEF Alive, Procs
<1>5. \A p \in Alive' : proc'[p] = proc[p] /\ p \in Alive /\ p # current
  BY <1>3, <1>4 DEF Alive
<1>6. Space(ram, q.space) /\ q \in Processes
  BY <1>2, ApartFrames
<1> DEFINE n == ram'
           A == Alive \ {current}
<1>7. /\ n \in Memories /\ n.word = ram.word
      /\ n.free \subseteq ram.free \cup AllOf(ram, q)
  BY <1>1, <1>2, <1>6, KillFacts
<1> HIDE DEF n
<1>8. Apart(ram, k, A, proc)
  BY <1>2 DEF Apart
<1>9. Undisturbed(ram, n, k, A, proc)
  <2>1. FramesOf(ram, k) \cap n.free = {}
    BY <1>2, <1>7 DEF Apart
  <2>2. \A p \in A : AllOf(ram, proc[p]) \cap n.free = {}
    <3> TAKE p \in A
    <3>1. AllOf(ram, proc[p]) \cap ram.free = {}
      BY <1>8, ApartFrames
    <3>2. AllOf(ram, proc[p]) \cap AllOf(ram, q) = {}
      BY <1>2 DEF Apart
    <3> QED BY <1>7, <3>1, <3>2
  <2> QED BY <1>7, <2>1, <2>2 DEF Undisturbed
<1>10. /\ Apart(n, k, A, proc) /\ KeepsSpace(ram, n, k)
       /\ \A p \in A : AllOf(n, proc[p]) = AllOf(ram, proc[p])
  BY <1>8, <1>9, ApartKept
<1>11. \A p \in A : KeepsSpace(ram, n, proc[p].space)
  <2> TAKE p \in A
  <2>1. Space(ram, proc[p].space)
    BY <1>8, ApartFrames
  <2> QED BY <1>7, <2>1, SpaceKept
<1>12. AllKept(n, A)
  BY <1>7, <1>10, <1>11 DEF AllKept
<1>13. Apart(n, k, A, proc')
  <2> DEFINE pr == proc'
  <2>1. \A p \in A : pr[p] = proc[p]
    BY <1>4, <1>5
  <2> HIDE DEF pr
  <2>2. Apart(n, k, A, pr)
    BY <1>10, <2>1 DEF Apart
  <2> QED BY <2>2 DEF pr
<1>14. SpacesApart'
  BY <1>1, <1>4, <1>13 DEF SpacesApart, n
<1> QED BY <1>3, <1>4, <1>5, <1>12, <1>14 DEF n

LEMMA ExitSpace == ASSUME SpaceInv, EXIT PROVE SpaceInv'
<1>1. /\ pc = "kernel" /\ pc' = "done" /\ call.nr = "EXIT"
      /\ current' = Gshell /\ UNCHANGED <<kernel_space, cr3, tlb, call>>
  BY DEF EXIT
<1>2. Gshell \in Alive /\ current # Gshell
  BY <1>1 DEF SpaceInv, Typed, CallAllowed
<1>3. /\ Alive' = Alive \ {current} /\ AllKept(ram', Alive')
      /\ proc' \in [Procs -> Processes \cup {NoProcess}]
      /\ SpacesApart'
  BY ExitFacts
<1>4. Typed'
  BY <1>1, <1>2, <1>3, ShellIs DEF Typed, AllKept
<1>5. SharedApart' /\ CallAllowed'
  BY <1>1 DEF SharedApart, CallAllowed, Copying
<1>6. Loaded'
  BY <1>1, <1>3, KernelLoaded DEF SpaceInv, Loaded, OnTask, AllKept
<1> QED BY <1>3, <1>4, <1>5, <1>6 DEF SpaceInv

LEMMA InitSpace == ASSUME Init PROVE SpaceInv
<1>1. PICK taken \in TakenSets :
        LET m0 == [free |-> HeapFrames \ taken,
                   word |-> [f \in Pages |-> ZeroFrame]]
            made == create_virtual_address_space(m0, KernelFlags)
        IN  kernel_space = made.at /\ ram = made.ram
  BY DEF Init
<1> DEFINE m == [free |-> HeapFrames \ taken,
                 word |-> [f \in Pages |-> ZeroFrame]]
           made == create_virtual_address_space(m, KernelFlags)
<1>2. m \in Memories
  <2>1. Word(0, {}) \in Words
    BY WordTyped
  <2>2. ZeroFrame \in [Entries -> Words]
    BY <2>1 DEF ZeroFrame, Entries
  <2> QED BY <2>2 DEF Memories
<1>3. PAGE_DIR_ENTRIES + 3 <= Cardinality(m.free)
  <2>1. Cardinality(HeapFrames \ taken) >= PAGE_DIR_ENTRIES + 3
    BY AddressSpaceAssumption
  <2>2. IsFiniteSet(m.free)
    BY <1>2, FreeFinite
  <2>3. Cardinality(m.free) \in Nat /\ PAGE_DIR_ENTRIES \in Nat
    BY <2>2, FS_CardinalityType, EntrySizes
  <2> QED BY <2>1, <2>3
<1>4. kernel_space = made.at /\ ram = made.ram
  BY <1>1
<1> HIDE DEF m
<1>5. Created(m, made, KernelFlags) /\ Grows(m, made.ram)
  BY <1>2, <1>3, CreateFacts, CreateGrows
<1> HIDE DEF made
<1>6. Alive = {} /\ proc = [p \in Procs |-> NoProcess] /\ current = Gshell
      /\ pc = "boot" /\ call = NoCall
  BY DEF Init, Alive
<1>7. ram \in Memories
  BY <1>4, <1>5 DEF Grows
<1>8. Typed
  BY <1>6, <1>7, ShellIs DEF Typed
<1>9. SpacesApart
  BY <1>4, <1>5, <1>6 DEF SpacesApart, Apart, Created
<1>10. SharedApart /\ CallAllowed
  BY <1>6 DEF SharedApart, CallAllowed, Copying
<1>11. Loaded
  BY <1>6 DEF Init, Loaded, OnTask
<1> QED BY <1>8, <1>9, <1>10, <1>11 DEF SpaceInv

LEMMA SpaceStep ==
  ASSUME SpaceInv, ~NullPointers, [Next]_vars
  PROVE  SpaceInv'
<1>1. CASE UNCHANGED vars
  BY <1>1 DEF vars, SpaceInv, Typed, SpacesApart, SharedApart, CallAllowed,
              Loaded, Alive, Copying, OnTask, Procs
<1>2. CASE Next
  BY <1>2, BootSpace, CallSpace, AccessSpace, CopyBeginSpace, CopyFailsSpace,
     CopyReadSpace, CopyEndSpace, DoneSpace, ExecSpace, ExitSpace,
     MallocSpace, FreeSpace, ReturnSpace
     DEF Next
<1> QED BY <1>1, <1>2
-----------------------------------------------------------------------------
(* The cached translations are those of the loaded directory: the code     *)
(* never changes a table while its directory is loaded without loading a   *)
(* directory again (task.c:copy_data_from_task_to_kernel, idt.c), as long  *)
(* as every table that it builds has memory.                               *)
THEOREM SpaceTlbFresh ==
  ASSUME ~NullPointers
  PROVE  Spec => []TlbFresh
<1>1. Init => SpaceInv
  BY InitSpace
<1>2. SpaceInv /\ [Next]_vars => SpaceInv'
  BY SpaceStep
<1>3. SpaceInv => TlbFresh
  BY DEF SpaceInv, Loaded, TlbFresh
<1> QED BY <1>1, <1>2, <1>3, PTL DEF Spec

(* Cardinalities.                                                          *)
LEMMA ImageCardinality ==
  ASSUME NEW S, IsFiniteSet(S), NEW T, NEW f \in [S -> T],
         T = {f[x] : x \in S}, \A x, y \in S : f[x] = f[y] => x = y
  PROVE  IsFiniteSet(T) /\ Cardinality(T) = Cardinality(S)
<1>1. f \in Injection(S, T) /\ f \in Surjection(S, T)
  BY DEF Injection, Surjection, IsInjective
<1>2. ExistsBijection(S, T)
  BY <1>1 DEF ExistsBijection, Bijection
<1> QED BY <1>2, FS_Bijection

LEMMA AddOutside ==
  ASSUME NEW S, IsFiniteSet(S), NEW x, x \notin S
  PROVE  IsFiniteSet(S \cup {x}) /\ Cardinality(S \cup {x}) = Cardinality(S) + 1
  BY FS_AddElement, Zenon

LEMMA SpaceCardinality ==
  ASSUME NEW m, NEW s, Space(m, s)
  PROVE  Cardinality(FramesOf(m, s)) = PAGE_DIR_ENTRIES + 3
<1> DEFINE D == PAGE_DIR_ENTRIES
           T == Tables(m, s)
           f == [i \in Dirs |-> TableOf(m, s, i)]
           a == s
           b == pd_of(m, s)
           c == Directory(m, s)
<1>1. D \in Nat \ {0}
  BY EntrySizes
<1>2. IsFiniteSet(Dirs) /\ Cardinality(Dirs) = D
  <2>1. /\ IsFiniteSet(0 .. (D - 1))
        /\ Cardinality(0 .. (D - 1)) = IF 0 > D - 1 THEN 0 ELSE D - 1 - 0 + 1
    BY <1>1, FS_Interval
  <2> QED BY <1>1, <2>1 DEF Dirs
<1>3. IsFiniteSet(T) /\ Cardinality(T) = D
  <2>1. T = {TableOf(m, s, i) : i \in Dirs}
    BY FramesAre
  <2>2. f \in [Dirs -> T] /\ T = {f[i] : i \in Dirs}
    BY <2>1
  <2>3. \A i, j \in Dirs : f[i] = f[j] => i = j
    BY DEF Space
  <2> HIDE DEF f, T
  <2> QED BY <1>2, <2>2, <2>3, ImageCardinality
<1>4. a # b /\ a # c /\ b # c /\ a \notin T /\ b \notin T /\ c \notin T
  BY FramesAre DEF Space
<1>5. FramesOf(m, s) = ((T \cup {a}) \cup {b}) \cup {c}
  BY DEF FramesOf
<1> HIDE DEF T, a, b, c
<1>6. IsFiniteSet(T \cup {a}) /\ Cardinality(T \cup {a}) = D + 1
  BY <1>3, <1>4, AddOutside
<1>7. /\ IsFiniteSet((T \cup {a}) \cup {b})
      /\ Cardinality((T \cup {a}) \cup {b}) = D + 1 + 1
  BY <1>4, <1>6, AddOutside
<1>8. Cardinality(((T \cup {a}) \cup {b}) \cup {c}) = D + 1 + 1 + 1
  BY <1>4, <1>7, AddOutside
<1> QED BY <1>1, <1>5, <1>8

LEMMA SpaceSets ==
  ASSUME SpaceInv
  PROVE  LET spaces == {kernel_space} \cup {SpaceOf(p) : p \in Alive}
         IN  Cardinality(spaces) = Cardinality(Alive) + 1
<1> DEFINE f == [p \in Alive |-> SpaceOf(p)]
           T == {SpaceOf(p) : p \in Alive}
<1>1. Apart(ram, kernel_space, Alive, proc)
  BY DEF SpaceInv, SpacesApart
<1>2. IsFiniteSet(Alive)
  <2>1. IsFiniteSet(Procs)
    BY AddressSpaceAssumption, FS_Interval DEF Procs
  <2>2. Alive \subseteq Procs
    BY DEF Alive
  <2> QED BY <2>1, <2>2, FS_Subset
<1>3. \A p \in Alive : SpaceOf(p) \in FramesOf(ram, SpaceOf(p))
  BY DEF FramesOf
<1>4. \A p \in Alive : /\ FramesOf(ram, SpaceOf(p)) \subseteq AllOf(ram, proc[p])
                       /\ FramesOf(ram, SpaceOf(p))
                            \cap FramesOf(ram, kernel_space) = {}
  BY <1>1, ApartFrames DEF SpaceOf
<1>5. \A p, r \in Alive : SpaceOf(p) = SpaceOf(r) => p = r
  BY <1>1, <1>3, <1>4 DEF Apart
<1>6. kernel_space \notin T
  <2>1. kernel_space \in FramesOf(ram, kernel_space)
    BY DEF FramesOf
  <2> QED BY <1>3, <1>4, <2>1
<1>7. f \in [Alive -> T] /\ T = {f[p] : p \in Alive}
      /\ \A p, r \in Alive : f[p] = f[r] => p = r
  BY <1>5
<1> HIDE DEF f, T
<1>8. IsFiniteSet(T) /\ Cardinality(T) = Cardinality(Alive)
  BY <1>2, <1>7, ImageCardinality
<1>9. Cardinality(T \cup {kernel_space}) = Cardinality(T) + 1
  BY <1>6, <1>8, AddOutside
<1>10. {kernel_space} \cup T = T \cup {kernel_space}
  OBVIOUS
<1> QED BY <1>8, <1>9, <1>10 DEF T

(* No address space shares a frame of its structures with another, with a  *)
(* program, or with the frames that are free: for every number of programs *)
(* started, ended and failed, and of their MALLOCs and FREEs, and every    *)
(* size of memory, tables and files, as long as every table that is built  *)
(* and every MALLOC has memory.                                            *)
THEOREM SpaceOwnTables ==
  ASSUME ~NullPointers
  PROVE  Spec => []SpacesOwnTables
<1>1. Init => SpaceInv
  BY InitSpace
<1>2. SpaceInv /\ [Next]_vars => SpaceInv'
  BY SpaceStep
<1>3. SpaceInv => SpacesOwnTables
  <2> SUFFICES ASSUME SpaceInv PROVE SpacesOwnTables
    OBVIOUS
  <2> DEFINE spaces == {kernel_space} \cup {SpaceOf(p) : p \in Alive}
             k == kernel_space
  <2>1. Apart(ram, k, Alive, proc) /\ ram \in Memories
    BY DEF SpaceInv, SpacesApart, Typed
  <2>2. Space(ram, k) /\ FramesOf(ram, k) \cap ram.free = {}
        /\ FramesOf(ram, k) \subseteq HeapFrames /\ 0 \notin HeapFrames
    BY <2>1, FramesAre, PagesAre DEF Apart
  <2>3. ASSUME NEW p \in Alive
        PROVE  /\ Space(ram, SpaceOf(p))
               /\ FramesOf(ram, SpaceOf(p)) \subseteq AllOf(ram, proc[p])
               /\ Own(p) \subseteq AllOf(ram, proc[p])
               /\ FramesOf(ram, SpaceOf(p)) \cap Own(p) = {}
               /\ AllOf(ram, proc[p]) \cap FramesOf(ram, k) = {}
               /\ AllOf(ram, proc[p]) \subseteq HeapFrames
               /\ AllOf(ram, proc[p]) \cap ram.free = {}
    <3>1. /\ Space(ram, SpaceOf(p))
          /\ FramesOf(ram, SpaceOf(p)) \subseteq AllOf(ram, proc[p])
          /\ AllOf(ram, proc[p]) \subseteq HeapFrames
          /\ AllOf(ram, proc[p]) \cap ram.free = {}
      BY <2>1, ApartFrames DEF SpaceOf
    <3>2. Whole(ram, proc[p]) /\ AllOf(ram, proc[p]) \cap FramesOf(ram, k) = {}
      BY <2>1 DEF Apart
    <3>3. Own(p) \subseteq Mine(proc[p])
      BY DEF Own, Held, Program, Mine
    <3> QED BY <3>1, <3>2, <3>3 DEF Whole, AllOf, SpaceOf
  <2>4. \A p, r \in Alive :
          p # r => AllOf(ram, proc[p]) \cap AllOf(ram, proc[r]) = {}
    BY <2>1 DEF Apart
  <2>5. \A s : SpaceFrames(s) = FramesOf(ram, s)
    BY DEF SpaceFrames, FramesOf
  <2>6. ASSUME NEW s \in spaces
        PROVE  /\ Cardinality(SpaceFrames(s)) = PAGE_DIR_ENTRIES + 3
               /\ SpaceFrames(s) \cap (ram.free \cup {0}) = {}
               /\ \A r \in spaces \ {s} :
                    SpaceFrames(s) \cap SpaceFrames(r) = {}
               /\ \A p \in Alive : SpaceFrames(s) \cap Own(p) = {}
    <3>1. Space(ram, s) /\ SpaceFrames(s) \cap (ram.free \cup {0}) = {}
      BY <2>2, <2>3, <2>5
    <3>2. Cardinality(SpaceFrames(s)) = PAGE_DIR_ENTRIES + 3
      BY <2>5, <3>1, SpaceCardinality
    <3>3. ASSUME NEW r \in spaces \ {s}
          PROVE  FramesOf(ram, s) \cap FramesOf(ram, r) = {}
      BY <2>3, <2>4
    <3>4. ASSUME NEW p \in Alive
          PROVE  FramesOf(ram, s) \cap Own(p) = {}
      <4>1. CASE s = k
        BY <2>3, <4>1
      <4>2. CASE s # k
        <5>1. PICK r \in Alive : s = SpaceOf(r)
          BY <4>2
        <5> QED BY <2>3, <2>4, <5>1
      <4> QED BY <4>1, <4>2
    <3> QED BY <2>5, <3>1, <3>2, <3>3, <3>4
  <2>7. Cardinality(spaces) = Cardinality(Alive) + 1
    BY SpaceSets
  <2> QED BY <2>6, <2>7 DEF SpacesOwnTables
<1> QED BY <1>1, <1>2, <1>3, PTL DEF Spec
-----------------------------------------------------------------------------
(* Programs in user memory.                                                *)
LEMMA InitUser == ASSUME Init PROVE UserInv
<1>1. Alive = {} /\ pc = "boot"
  BY DEF Init, Alive
<1> QED BY <1>1 DEF UserInv, EntriesFine, CopyFaithful, Copying

LEMMA StringPages ==
  ASSUME NEW v \in Strings PROVE v \in Pages /\ v + 1 \in Pages
  BY AddressSpaceAssumption

LEMMA StackTopIs == ASSUME UserMemory PROVE StackTop \in Pages
  BY DEF UserMemory, UserPages

LEMMA TaskLoaded ==
  ASSUME SpaceInv, OnTask, NEW v \in Pages
  PROVE  tlb[v] = PageWord(ram, proc[current].space, v)
  BY DEF SpaceInv, Loaded, PageWord

(* Steps that leave memory and processes alone, outside of the copy.       *)
LEMMA QuietFine ==
  ASSUME UserInv, UNCHANGED <<ram, proc, current>>, ~Copying, ~Copying'
  PROVE  EntriesFine'
<1>1. Alive' = Alive
  BY DEF Alive
<1>2. \A p \in Alive : \A v \in Pages :
        Fine(proc[p], v, PageWord(ram, proc[p].space, v))
  BY DEF UserInv, EntriesFine
<1> QED BY <1>1, <1>2 DEF EntriesFine

LEMMA QuietUser ==
  ASSUME UserInv,
         \/ CopyFails \/ PRINT \/ OtherHandler
         \/ change_to_current_task_page_directory
  PROVE  UserInv'
<1>1. EntriesFine'
  BY QuietFine DEF CopyFails, PRINT, OtherHandler, Copying,
                   change_to_current_task_page_directory
<1>2. CopyFaithful'
  BY DEF CopyFails, PRINT, OtherHandler, UserInv, CopyFaithful,
         change_to_current_task_page_directory
<1> QED BY <1>1, <1>2 DEF UserInv

LEMMA CallUser ==
  ASSUME SpaceInv, UserMemory, UserInv, NEW nr, NEW v,
         nr \in {"PRINT", "EXEC"} => v \in Strings, isr_0x80_handler(nr, v)
  PROVE  UserInv'
<1>1. /\ pc = "user" /\ pc' = "kernel" /\ call' = NewCall(nr, v)
      /\ UNCHANGED <<ram, proc, current>>
  BY DEF isr_0x80_handler
<1>2. EntriesFine'
  BY <1>1, QuietFine DEF Copying
<1>3. /\ call'.nr = nr /\ call'.arg = v /\ call'.seen = Seen(v)
      /\ call'.pushed = tlb[StackTop].frame /\ call'.shared = 0
  BY <1>1, NewCallIs
<1>4. call'.pushed = PageWord(ram, proc[current].space, StackTop).frame
  BY <1>1, <1>3, StackTopIs, TaskLoaded DEF OnTask
<1>5. v \in Strings => call'.seen = FramesSeen(v)
  BY <1>1, <1>3, StringPages, TaskLoaded DEF OnTask, Seen, FramesSeen
<1>6. CopyFaithful'
  BY <1>1, <1>3, <1>4, <1>5 DEF CopyFaithful, FramesSeen
<1> QED BY <1>2, <1>6 DEF UserInv

LEMMA AccessUser ==
  ASSUME SpaceInv, UserInv, task_access_stack
  PROVE  UserInv'
<1>1. /\ pc = "kernel" /\ pc' = "called" /\ call.nr \in {"PRINT", "EXEC"}
      /\ call' = [call EXCEPT !.arg = IF Entry(current, StackTop).frame
                                           = call.pushed
                                      THEN call.arg ELSE 0]
      /\ UNCHANGED <<ram, proc, current>>
  BY DEF task_access_stack
<1>2. EntriesFine'
  BY <1>1, QuietFine DEF Copying
<1>3. /\ call.pushed = PageWord(ram, proc[current].space, StackTop).frame
      /\ call.shared = 0 /\ call.arg \in Strings
      /\ call.seen = FramesSeen(call.arg)
  BY <1>1 DEF UserInv, CopyFaithful
<1>4. Entry(current, StackTop).frame = call.pushed
  BY <1>3 DEF Entry, SpaceOf, PageWord
<1>5. IsCall(call)
  BY <1>1 DEF SpaceInv, CallAllowed
<1>6. Changed(call, call', call.arg, call.shared, call.old, call.got)
  <2>1. call' = [call EXCEPT !.arg = call.arg]
    BY <1>1, <1>4
  <2> QED BY <1>5, <2>1, CallChanges
<1>7. CopyFaithful'
  BY <1>1, <1>3, <1>6 DEF CopyFaithful, FramesSeen, Changed
<1> QED BY <1>2, <1>7 DEF UserInv

(* The page that is shared maps to itself before and after: the task sees  *)
(* the string in the frames where it saw it when it made the call.         *)
LEMMA CopyBeginUser ==
  ASSUME SpaceInv, UserInv, CopyBegin
  PROVE  UserInv'
<1> DEFINE h == call'.shared
           s == proc[current].space
<1>1. /\ pc = "called" /\ pc' = "copying"
      /\ UNCHANGED <<kernel_space, proc, current>>
  BY DEF CopyBegin
<1>2. /\ h \in ram.free /\ OneChanges(h, Word(h, SharedFlags))
      /\ Changed(call, call', call.arg, h, PageWord(ram, s, h), call.got)
  BY CopyBeginFacts
<1>3. Alive' = Alive /\ current \in Alive /\ ram \in Memories
  BY <1>1 DEF Alive, SpaceInv, Typed
<1>4. h \in HeapFrames /\ h \in Pages
  BY <1>2, <1>3, MemoryTyped
<1>5. \A p \in Alive : \A v \in Pages :
        Fine(proc[p], v, PageWord(ram, proc[p].space, v))
  BY <1>1 DEF UserInv, EntriesFine, Copying
<1>6. \A u \in Pages : PageWord(ram', s, u)
                         = IF u = h THEN Word(h, SharedFlags)
                           ELSE PageWord(ram, s, u)
  BY <1>2 DEF OneChanges
<1>7. \A p \in Alive : \A v \in Pages :
        p # current => PageWord(ram', proc[p].space, v)
                         = PageWord(ram, proc[p].space, v)
  BY <1>2 DEF OneChanges, KeepsSpace
<1>8. EntriesFine'
  <2>1. ASSUME NEW p \in Alive, NEW v \in Pages, ~(p = current /\ v = h)
        PROVE  Fine(proc[p], v, PageWord(ram', proc[p].space, v))
    BY <1>5, <1>6, <1>7, <2>1
  <2>2. PageWord(ram', s, h) = Word(h, SharedFlags)
    BY <1>4, <1>6
  <2>3. Fine(proc[current], h, call'.old)
    BY <1>2, <1>3, <1>4, <1>5 DEF Changed
  <2> QED BY <1>1, <1>3, <2>1, <2>2, <2>3 DEF EntriesFine, Copying
<1>9. \A u \in Pages : PageWord(ram', s, u).frame = PageWord(ram, s, u).frame
  <2> TAKE u \in Pages
  <2>1. CASE u = h
    <3>1. PageWord(ram, s, h).frame = h
      BY <1>3, <1>4, <1>5 DEF Fine
    <3> QED BY <1>6, <2>1, <3>1 DEF Word
  <2>2. CASE u # h
    BY <1>6, <2>2
  <2> QED BY <2>1, <2>2
<1>10. CopyFaithful'
  <2>1. call.arg \in Strings /\ call.seen = FramesSeen(call.arg)
    BY <1>1 DEF UserInv, CopyFaithful
  <2>2. call'.arg = call.arg /\ call'.seen = call.seen
    BY <1>2 DEF Changed
  <2>3. call.arg \in Pages /\ call.arg + 1 \in Pages
    BY <2>1, StringPages
  <2>4. FramesSeen(call.arg)' = FramesSeen(call.arg)
    BY <1>1, <1>9, <2>2, <2>3 DEF FramesSeen
  <2> QED BY <1>1, <2>1, <2>2, <2>4 DEF CopyFaithful
<1> QED BY <1>8, <1>10 DEF UserInv

LEMMA CopyReadUser ==
  ASSUME SpaceInv, UserInv, CopyRead
  PROVE  UserInv'
<1> DEFINE h == call.shared
           s == proc[current].space
           y == Seen(call.arg)
           x == IF tlb[h] = Word(h, SharedFlags)
                THEN <<Read(y[1]), Read(y[2])>> ELSE <<>>
<1>1. /\ pc = "copying" /\ pc' = "copied"
      /\ call' = [call EXCEPT !.got = x]
      /\ UNCHANGED <<ram, kernel_space, proc, current>>
  BY DEF CopyRead
<1>2. Alive' = Alive /\ IsCall(call) /\ h \in HeapFrames /\ h \in Pages
  BY <1>1, PagesAre DEF Alive, SpaceInv, CallAllowed, SharedApart, Copying
<1>3. PageWord(ram, s, h) = Word(h, SharedFlags)
      /\ call.arg \in Strings /\ call.seen = FramesSeen(call.arg)
  BY <1>1 DEF UserInv, EntriesFine, CopyFaithful, Copying
<1>4. \A v \in Pages : tlb[v] = PageWord(ram, s, v)
  BY <1>1, TaskLoaded DEF OnTask
<1>5. x = call.seen \/ h \in {call.seen[1], call.seen[2]}
  <2>1. tlb[h] = Word(h, SharedFlags) /\ y = call.seen
    BY <1>2, <1>3, <1>4, StringPages DEF Seen, FramesSeen
  <2>2. x = <<Read(y[1]), Read(y[2])>> /\ y = <<y[1], y[2]>>
    BY <2>1 DEF Seen
  <2> QED BY <2>1, <2>2 DEF Read
<1> HIDE DEF x
<1>6. Changed(call, call', call.arg, call.shared, call.old, x)
  BY <1>1, <1>2, CallChanges
<1>7. EntriesFine'
  <2>1. \A p \in Alive : \A v \in Pages :
          ~(p = current /\ v = h) =>
            Fine(proc[p], v, PageWord(ram, proc[p].space, v))
    BY <1>1 DEF UserInv, EntriesFine, Copying
  <2>2. Fine(proc[current], h, call.old)
    BY <1>1 DEF UserInv, EntriesFine, Copying
  <2> QED BY <1>1, <1>2, <1>3, <1>6, <2>1, <2>2
      DEF EntriesFine, Changed, Copying
<1>8. CopyFaithful'
  BY <1>1, <1>5, <1>6 DEF CopyFaithful, Changed
<1> QED BY <1>7, <1>8 DEF UserInv

LEMMA CopyEndUser ==
  ASSUME SpaceInv, UserInv, CopyEnd
  PROVE  UserInv'
<1> DEFINE h == call.shared
           s == proc[current].space
<1>1. /\ pc = "copied" /\ pc' = "argument"
      /\ UNCHANGED <<kernel_space, proc, current, call>>
  BY DEF CopyEnd
<1>2. OneChanges(h, call.old)
  BY CopyEndFacts
<1>3. Alive' = Alive /\ current \in Alive
  BY <1>1 DEF Alive, SpaceInv, Typed
<1>4. /\ \A p \in Alive : \A v \in Pages :
           ~(p = current /\ v = h) =>
             Fine(proc[p], v, PageWord(ram, proc[p].space, v))
      /\ Fine(proc[current], h, call.old)
  BY <1>1 DEF UserInv, EntriesFine, Copying
<1>5. \A u \in Pages : PageWord(ram', s, u)
                         = IF u = h THEN call.old ELSE PageWord(ram, s, u)
  BY <1>2 DEF OneChanges
<1>6. \A p \in Alive : \A v \in Pages :
        p # current => PageWord(ram', proc[p].space, v)
                         = PageWord(ram, proc[p].space, v)
  BY <1>2 DEF OneChanges, KeepsSpace
<1>7. ASSUME NEW p \in Alive, NEW v \in Pages
      PROVE  Fine(proc[p], v, PageWord(ram', proc[p].space, v))
  BY <1>4, <1>5, <1>6
<1>8. EntriesFine'
  BY <1>1, <1>3, <1>7 DEF EntriesFine, Copying
<1>9. call.shared \in ram'.free
  BY CopyEndFacts
<1>10. CopyFaithful'
  BY <1>1, <1>9 DEF UserInv, CopyFaithful
<1> QED BY <1>8, <1>10 DEF UserInv

(* The other processes keep their translations when one is started.        *)
LEMMA KeptFine ==
  ASSUME UserInv, NEW procs \in SUBSET Alive, AllKept(ram', procs), ~Copying,
         NEW p \in procs, NEW v \in Pages
  PROVE  Fine(proc[p], v, PageWord(ram', proc[p].space, v))
<1>1. Fine(proc[p], v, PageWord(ram, proc[p].space, v))
  BY DEF UserInv, EntriesFine
<1>2. PageWord(ram', proc[p].space, v) = PageWord(ram, proc[p].space, v)
  BY DEF AllKept, KeepsSpace
<1> QED BY <1>1, <1>2

LEMMA AddedFine ==
  ASSUME SpaceInv, UserMemory, UserInv, ~Copying, ~Copying',
         NEW new, Started(ram, new), new.process # NoProcess,
         NEW p \in Procs \ Alive, ram' = new.ram,
         kernel_space' = kernel_space,
         proc' = [proc EXCEPT ![p] = new.process]
  PROVE  EntriesFine'
<1>1. /\ Alive' = Alive \cup {p} /\ AllKept(ram', Alive)
      /\ proc'[p] = new.process /\ \A r \in Alive : proc'[r] = proc[r]
  BY ProcessAdded
<1>2. \A v \in Pages : Fine(proc'[p], v, PageWord(ram', proc'[p].space, v))
  BY <1>1 DEF Started
<1>3. \A r \in Alive : \A v \in Pages :
        Fine(proc'[r], v, PageWord(ram', proc'[r].space, v))
  BY <1>1, KeptFine
<1> QED BY <1>1, <1>2, <1>3 DEF EntriesFine

LEMMA BootUser ==
  ASSUME SpaceInv, UserMemory, UserInv, BootShell
  PROVE  UserInv'
<1> DEFINE new == process_new(ram, ShellFile)
<1>1. /\ pc = "boot" /\ pc' = "done" /\ new.process # NoProcess
      /\ ~new.partial /\ ram' = new.ram
      /\ proc' = [proc EXCEPT ![Gshell] = new.process]
      /\ kernel_space' = kernel_space
  BY DEF BootShell
<1>2. ram \in Memories /\ Alive = {} /\ Gshell \in Procs \ Alive
  BY <1>1, ShellIs DEF SpaceInv, Typed
<1>3. Started(ram, new)
  BY <1>1, <1>2, AddressSpaceAssumption, NewStarted
<1> HIDE DEF new
<1>4. EntriesFine'
  BY <1>1, <1>2, <1>3, AddedFine DEF Copying
<1>5. CopyFaithful'
  BY <1>1 DEF CopyFaithful
<1> QED BY <1>4, <1>5 DEF UserInv

LEMMA ExecUser ==
  ASSUME SpaceInv, UserMemory, UserInv, ~NullPointers, NEW file \in Files,
         EXEC(file)
  PROVE  UserInv'
<1> DEFINE new == process_new(ram, file)
<1>1. /\ pc = "argument" /\ pc' = "done" /\ call.nr = "EXEC"
      /\ ~new.partial /\ ram' = new.ram /\ kernel_space' = kernel_space
  BY DEF EXEC
<1>2. ram \in Memories /\ Alive # Procs
  BY <1>1 DEF SpaceInv, Typed, CallAllowed
<1>3. Started(ram, new)
  BY <1>1, <1>2, NewStarted
<1>4. CopyFaithful'
  BY <1>1 DEF CopyFaithful
<1>5. CASE new.process = NoProcess
  <2>1. proc' = proc /\ Alive' = Alive
    BY <1>5 DEF EXEC, Alive
  <2>2. AllKept(ram', Alive)
    BY <1>1, <1>3, AllGrow DEF Started
  <2>3. \A p \in Alive : \A v \in Pages :
          Fine(proc[p], v, PageWord(ram', proc[p].space, v))
    BY <1>1, <2>2, KeptFine DEF Copying
  <2>4. EntriesFine'
    BY <1>1, <2>1, <2>3 DEF EntriesFine, Copying
  <2> QED BY <1>4, <2>4 DEF UserInv
<1>6. CASE new.process # NoProcess
  <2> DEFINE p == Min(Procs \ Alive)
  <2>1. proc' = [proc EXCEPT ![p] = new.process]
    BY <1>6 DEF EXEC
  <2>2. p \in Procs \ Alive
    BY <1>2, FreeSlot
  <2> HIDE DEF p, new
  <2>3. EntriesFine'
    BY <1>1, <1>3, <1>6, <2>1, <2>2, AddedFine DEF Copying
  <2> QED BY <1>4, <2>3 DEF UserInv
<1> QED BY <1>5, <1>6

LEMMA ExitUser ==
  ASSUME SpaceInv, UserInv, EXIT
  PROVE  UserInv'
<1>1. pc = "kernel" /\ pc' = "done"
  BY DEF EXIT
<1>2. /\ Alive' = Alive \ {current} /\ AllKept(ram', Alive')
      /\ \A p \in Alive' : proc'[p] = proc[p]
  BY ExitFacts
<1>3. \A p \in Alive' : \A v \in Pages :
        Fine(proc'[p], v, PageWord(ram', proc'[p].space, v))
  BY <1>1, <1>2, KeptFine DEF Copying
<1>4. EntriesFine'
  BY <1>1, <1>3 DEF EntriesFine, Copying
<1>5. CopyFaithful'
  BY <1>1 DEF CopyFaithful
<1> QED BY <1>4, <1>5 DEF UserInv

(* MALLOC and FREE map heap pages to themselves, so that the kernel stays  *)
(* in place; the pages of MALLOC belong to the process, and after FREE     *)
(* nothing is said about what the process can write.                       *)
LEMMA TradedFine ==
  ASSUME SpaceInv, UserInv, pc = "kernel", pc' = "done", current' = current,
         NEW z, NEW ok, Traded(z, ok), Others(proc[current], z),
         ok \subseteq Itself(HeapFrames),
         \/ z.freed
         \/ /\ z.freed = proc[current].freed
            /\ Allocated(proc[current]) \subseteq Allocated(z)
            /\ ok \subseteq Itself(Allocated(z))
  PROVE  UserInv'
<1> DEFINE q == proc[current]
           s == q.space
<1>1. \A p \in Alive : \A v \in Pages :
        Fine(proc[p], v, PageWord(ram, proc[p].space, v))
  BY DEF UserInv, EntriesFine, Copying
<1>2. /\ Alive' = Alive /\ proc'[current] = z /\ z.space = s
      /\ current \in Alive
      /\ \A p \in Alive : p # current =>
           proc'[p] = proc[p] /\ KeepsSpace(ram, ram', proc[p].space)
  BY CurrentWhole DEF Traded
<1>3. \A u \in Pages : \/ PageWord(ram', s, u) = PageWord(ram, s, u)
                       \/ <<u, PageWord(ram', s, u)>> \in ok
  BY <1>2 DEF Traded
<1>4. ASSUME NEW v \in Pages
      PROVE  Fine(z, v, PageWord(ram', s, v))
  <2> DEFINE w == PageWord(ram', s, v)
  <2>1. CASE w = PageWord(ram, s, v)
    <3>1. Fine(q, v, w)
      BY <1>1, <1>2, <2>1
    <3>2. Program(z) = Program(q) /\ z.file = q.file
      BY OthersHeld DEF Others
    <3>3. Contained(z) =>
            Contained(q) /\ Allocated(q) \subseteq Allocated(z)
      BY <3>2 DEF Contained
    <3> HIDE DEF w
    <3>4. Fine(z, v, w)
      BY <3>1, <3>2, <3>3 DEF Fine
    <3> QED BY <3>4 DEF w
  <2>2. CASE <<v, w>> \in ok
    <3>1. v \in HeapFrames /\ w = Word(v, SharedFlags)
      BY <2>2 DEF Itself
    <3>2. ok \subseteq Itself(Allocated(z)) => v \in Allocated(z)
      BY <2>2 DEF Itself
    <3>3. Contained(z) => v \in Allocated(z)
      BY <3>2 DEF Contained
    <3>4. w.frame = v
      BY <3>1 DEF Word
    <3> HIDE DEF w
    <3>5. Fine(z, v, w)
      BY <3>3, <3>4 DEF Fine
    <3> QED BY <3>5 DEF w
  <2> QED BY <1>3, <2>1, <2>2
<1>5. ASSUME NEW p \in Alive, NEW v \in Pages
      PROVE  Fine(proc'[p], v, PageWord(ram', proc'[p].space, v))
  <2>1. CASE p = current
    BY <1>2, <1>4, <2>1
  <2>2. CASE p # current
    <3>1. PageWord(ram', proc[p].space, v) = PageWord(ram, proc[p].space, v)
      BY <1>2, <2>2 DEF KeepsSpace
    <3> QED BY <1>1, <1>2, <2>2, <3>1
  <2> QED BY <2>1, <2>2
<1>6. EntriesFine'
  BY <1>2, <1>5 DEF EntriesFine, Copying
<1>7. CopyFaithful'
  BY DEF CopyFaithful
<1> QED BY <1>6, <1>7 DEF UserInv

LEMMA HeapCallUser ==
  ASSUME UserInv, pc = "kernel", pc' = "done",
         UNCHANGED <<ram, proc, current>>
  PROVE  UserInv'
<1>1. EntriesFine'
  BY QuietFine DEF Copying
<1>2. CopyFaithful'
  BY DEF CopyFaithful
<1> QED BY <1>1, <1>2 DEF UserInv

LEMMA MallocUser ==
  ASSUME SpaceInv, UserInv, ~NullPointers, NEW size \in Sizes, MALLOC(size)
  PROVE  UserInv'
<1>1. pc = "kernel" /\ pc' = "done" /\ current' = current
  BY DEF MALLOC
<1>2. CASE SlotsWith(0) = {}
  BY <1>1, <1>2, HeapCallUser DEF MALLOC
<1>3. CASE SlotsWith(0) # {}
  <2> DEFINE z == proc'[current]
  <2>1. MallocTrades(proc[current], z)
    BY <1>3, MallocFacts
  <2> HIDE DEF z
  <2>2. Itself(Allocated(z)) \subseteq Itself(HeapFrames)
    BY <2>1 DEF MallocTrades, Traded, Itself
  <2> QED BY <1>1, <2>1, <2>2, TradedFine DEF MallocTrades
<1> QED BY <1>2, <1>3

LEMMA FreeUser ==
  ASSUME SpaceInv, UserInv, NEW base \in HeapFrames, FREE(base)
  PROVE  UserInv'
<1>1. pc = "kernel" /\ pc' = "done" /\ current' = current
  BY DEF FREE
<1>2. CASE SlotsWith(base) = {}
  BY <1>1, <1>2, HeapCallUser DEF FREE
<1>3. CASE SlotsWith(base) # {}
  <2> DEFINE z == proc'[current]
  <2>1. FreeTrades(proc[current], z)
    BY <1>3, FreeTradesFacts
  <2> HIDE DEF z
  <2> QED BY <1>1, <2>1, TradedFine DEF FreeTrades
<1> QED BY <1>2, <1>3

LEMMA UserStep ==
  ASSUME SpaceInv, UserMemory, UserInv, ~NullPointers, [Next]_vars
  PROVE  UserInv'
<1>1. CASE UNCHANGED vars
  BY <1>1 DEF vars, UserInv, EntriesFine, CopyFaithful, Alive, Copying,
              FramesSeen
<1>2. CASE Next
  <2>1. ASSUME NEW v, NEW nr, isr_0x80_handler(nr, v),
               nr \in {"PRINT", "EXEC"} => v \in Strings
        PROVE  UserInv'
    BY <2>1, CallUser
  <2> QED BY <1>2, <2>1, BootUser, AccessUser, CopyBeginUser, CopyReadUser,
             CopyEndUser, QuietUser, ExecUser, ExitUser, MallocUser, FreeUser
      DEF Next
<1> QED BY <1>1, <1>2

(* The inductive invariant holds in every state.                           *)
LEMMA AddressSpaceInvariant ==
  ASSUME ~NullPointers
  PROVE  Spec => []AddressSpaceInv
<1>1. Init => AddressSpaceInv
  BY InitSpace, InitUser DEF AddressSpaceInv
<1>2. AddressSpaceInv /\ [Next]_vars => AddressSpaceInv'
  <2>1. UserMemory' = UserMemory
    BY DEF UserMemory, StackTop, SegmentInUserMemory, UserPages, PagesFrom
  <2> QED BY <2>1, SpaceStep, UserStep DEF AddressSpaceInv
<1> QED BY <1>1, <1>2, PTL DEF Spec

(* In every address space the kernel, the stack of the TSS and the heap    *)
(* are where the kernel runs: process_map_memory never moves them, and the *)
(* pages that copy_data_from_task_to_kernel shares and that process_malloc *)
(* and process_free map stay in their place.  Files lie in user memory,    *)
(* their .bss included (UserMemory), and every MALLOC and every table has  *)
(* memory.                                                                 *)
THEOREM SpaceKernelIdentity ==
  ASSUME ~NullPointers, UserMemory
  PROVE  Spec => []KernelIdentity
<1>1. AddressSpaceInv => KernelIdentity
  <2> SUFFICES ASSUME SpaceInv, EntriesFine, NEW p \in Alive,
                      NEW v \in KernelPages \cup HeapFrames
               PROVE  PageWord(ram, proc[p].space, v).frame = v
    BY DEF AddressSpaceInv, UserInv, KernelIdentity, Entry, SpaceOf, PageWord
  <2>1. v \in Pages
    BY PagesAre, AddressSpaceAssumption
  <2>2. CASE Copying /\ p = current /\ v = call.shared
    <3>1. PageWord(ram, proc[p].space, v) = Word(v, SharedFlags)
      BY <2>2 DEF EntriesFine
    <3> QED BY <3>1 DEF Word
  <2>3. CASE ~(Copying /\ p = current /\ v = call.shared)
    BY <2>1, <2>3 DEF EntriesFine, Fine
  <2> QED BY <2>2, <2>3
<1> QED BY <1>1, AddressSpaceInvariant, PTL

(* While programs run, what one can write is its own program, its stack    *)
(* and what MALLOC gave it: no mapping of process_map_elf,                 *)
(* process_map_binary, the stack or process_malloc reaches further, and    *)
(* the page shared for a system call was taken back.  Said of programs     *)
(* that have not called FREE and whose writable segments end in the blocks *)
(* of their file: for the others it is not so (WritableAlwaysOwn), which   *)
(* does not take it from these.                                            *)
THEOREM SpaceWritableIsOwn ==
  ASSUME ~NullPointers, UserMemory
  PROVE  Spec => []WritableIsOwn
<1>1. AddressSpaceInv => WritableIsOwn
  <2> SUFFICES ASSUME EntriesFine, pc = "user", NEW p \in Alive,
                      Contained(proc[p]), NEW v \in Pages,
                      "WRITE" \in Entry(p, v).flags
               PROVE  Entry(p, v).frame \in Own(p)
    BY DEF AddressSpaceInv, UserInv, WritableIsOwn, WritesOwn, Contained
  <2>1. Own(p) = Program(proc[p]) \cup Allocated(proc[p])
    BY DEF Own, Program
  <2>2. Entry(p, v) = PageWord(ram, proc[p].space, v)
    BY DEF Entry, SpaceOf, PageWord
  <2> QED BY <2>1, <2>2 DEF EntriesFine, Copying, Fine
<1> QED BY <1>1, AddressSpaceInvariant, PTL

(* What copy_data_from_task_to_kernel delivers is the memory that the task *)
(* saw when it made the call, though the tables are changed in between:    *)
(* the one string that does not arrive lies in a frame that was free, and  *)
(* that the kzalloc of the shared page cleared.                            *)
THEOREM SpaceCopyDelivers ==
  ASSUME ~NullPointers, UserMemory
  PROVE  Spec => []CopyDelivers
<1>1. AddressSpaceInv => CopyDelivers
  BY DEF AddressSpaceInv, UserInv, CopyFaithful, CopyDelivers
<1> QED BY <1>1, AddressSpaceInvariant, PTL
-----------------------------------------------------------------------------
(* What a program sees.  Programs are mapped right when they are started,  *)
(* and what system calls map later (the page that a copy shares, the pages *)
(* of MALLOC and FREE) are pages of the heap, not of user memory, as long  *)
(* as kzalloc finds memory.                                                *)
LEMMA KeptRight ==
  ASSUME LayoutInv, NEW procs \in SUBSET Alive, AllKept(ram', procs),
         NEW p \in procs, NEW v \in UserPages
  PROVE  Right(proc[p], v, PageWord(ram', proc[p].space, v))
<1>1. Right(proc[p], v, PageWord(ram, proc[p].space, v))
  BY DEF LayoutInv
<1>2. PageWord(ram', proc[p].space, v) = PageWord(ram, proc[p].space, v)
  BY DEF AllKept, KeepsSpace, UserPages
<1> QED BY <1>1, <1>2

LEMMA AddedRight ==
  ASSUME SpaceInv, ProgramLayout, LayoutInv,
         NEW new, Started(ram, new), new.process # NoProcess,
         NEW p \in Procs \ Alive, ram' = new.ram,
         kernel_space' = kernel_space,
         proc' = [proc EXCEPT ![p] = new.process]
  PROVE  LayoutInv'
<1>1. /\ Alive' = Alive \cup {p} /\ AllKept(ram', Alive)
      /\ proc'[p] = new.process /\ \A r \in Alive : proc'[r] = proc[r]
  BY ProcessAdded
<1>2. \A v \in UserPages : Right(proc'[p], v, PageWord(ram', proc'[p].space, v))
  BY <1>1 DEF Started
<1>3. \A r \in Alive : \A v \in UserPages :
        Right(proc'[r], v, PageWord(ram', proc'[r].space, v))
  BY <1>1, KeptRight
<1> QED BY <1>1, <1>2, <1>3 DEF LayoutInv

LEMMA BootRight ==
  ASSUME SpaceInv, ProgramLayout, LayoutInv, BootShell
  PROVE  LayoutInv'
<1> DEFINE new == process_new(ram, ShellFile)
<1>1. /\ pc = "boot" /\ new.process # NoProcess
      /\ ~new.partial /\ ram' = new.ram
      /\ proc' = [proc EXCEPT ![Gshell] = new.process]
      /\ kernel_space' = kernel_space
  BY DEF BootShell
<1>2. ram \in Memories /\ Gshell \in Procs \ Alive
  BY <1>1, ShellIs DEF SpaceInv, Typed
<1>3. Started(ram, new)
  BY <1>1, <1>2, AddressSpaceAssumption, NewStarted
<1> HIDE DEF new
<1> QED BY <1>1, <1>2, <1>3, AddedRight

LEMMA ExecRight ==
  ASSUME SpaceInv, ProgramLayout, LayoutInv, ~NullPointers, NEW file \in Files,
         EXEC(file)
  PROVE  LayoutInv'
<1> DEFINE new == process_new(ram, file)
<1>1. /\ pc = "argument" /\ call.nr = "EXEC"
      /\ ~new.partial /\ ram' = new.ram /\ kernel_space' = kernel_space
  BY DEF EXEC
<1>2. ram \in Memories /\ Alive # Procs
  BY <1>1 DEF SpaceInv, Typed, CallAllowed
<1>3. Started(ram, new)
  BY <1>1, <1>2, NewStarted
<1>4. CASE new.process = NoProcess
  <2>1. proc' = proc /\ Alive' = Alive
    BY <1>4 DEF EXEC, Alive
  <2>2. AllKept(ram', Alive)
    BY <1>1, <1>3, AllGrow DEF Started
  <2>3. \A p \in Alive : \A v \in UserPages :
          Right(proc[p], v, PageWord(ram', proc[p].space, v))
    BY <2>2, KeptRight
  <2> QED BY <2>1, <2>3 DEF LayoutInv
<1>5. CASE new.process # NoProcess
  <2> DEFINE p == Min(Procs \ Alive)
  <2>1. proc' = [proc EXCEPT ![p] = new.process]
    BY <1>5 DEF EXEC
  <2>2. p \in Procs \ Alive
    BY <1>2, FreeSlot
  <2> HIDE DEF p, new
  <2> QED BY <1>1, <1>3, <1>5, <2>1, <2>2, AddedRight
<1> QED BY <1>4, <1>5

LEMMA ExitRight ==
  ASSUME SpaceInv, LayoutInv, EXIT
  PROVE  LayoutInv'
<1>1. /\ Alive' = Alive \ {current} /\ AllKept(ram', Alive')
      /\ \A p \in Alive' : proc'[p] = proc[p]
  BY ExitFacts
<1>2. \A p \in Alive' : \A v \in UserPages :
        Right(proc'[p], v, PageWord(ram', proc'[p].space, v))
  BY <1>1, KeptRight
<1> QED BY <1>2 DEF LayoutInv

(* The shared page is a frame of the heap, at its own address.             *)
LEMMA CopyRight ==
  ASSUME LayoutInv, NEW h \in HeapFrames, NEW w, OneChanges(h, w),
         proc' = proc
  PROVE  LayoutInv'
<1>1. Alive' = Alive
  BY DEF Alive
<1>2. ASSUME NEW p \in Alive, NEW v \in UserPages
      PROVE  PageWord(ram', proc[p].space, v) = PageWord(ram, proc[p].space, v)
  <2>1. v \in Pages /\ v # h
    BY DEF UserPages
  <2>2. CASE p = current
    BY <2>1, <2>2 DEF OneChanges
  <2>3. CASE p # current
    BY <2>1, <2>3 DEF OneChanges, KeepsSpace
  <2> QED BY <2>2, <2>3
<1> QED BY <1>1, <1>2 DEF LayoutInv

(* Pages of the heap, at their own addresses too.                          *)
LEMMA TradedRight ==
  ASSUME SpaceInv, LayoutInv, pc = "kernel",
         NEW z, NEW ok, Traded(z, ok), Others(proc[current], z),
         ok \subseteq Itself(HeapFrames)
  PROVE  LayoutInv'
<1> DEFINE q == proc[current]
           s == q.space
<1>1. /\ Alive' = Alive /\ proc'[current] = z /\ z.space = s
      /\ current \in Alive
      /\ \A p \in Alive : p # current =>
           proc'[p] = proc[p] /\ KeepsSpace(ram, ram', proc[p].space)
  BY CurrentWhole DEF Traded
<1>2. ASSUME NEW v \in UserPages
      PROVE  Right(z, v, PageWord(ram', s, v))
  <2> DEFINE w == PageWord(ram, s, v)
  <2>1. v \in Pages /\ v \notin HeapFrames
    BY DEF UserPages
  <2>2. PageWord(ram', s, v) = w
    <3>1. <<v, PageWord(ram', s, v)>> \notin ok
      BY <2>1 DEF Itself
    <3> QED BY <1>1, <2>1, <3>1 DEF Traded
  <2>3. Right(q, v, w)
    BY <1>1 DEF LayoutInv
  <2> HIDE DEF w
  <2>4. Right(z, v, w)
    BY <2>3 DEF Right, Others
  <2> QED BY <2>2, <2>4
<1>3. ASSUME NEW p \in Alive, NEW v \in UserPages
      PROVE  Right(proc'[p], v, PageWord(ram', proc'[p].space, v))
  <2>1. CASE p = current
    BY <1>1, <1>2, <2>1
  <2>2. CASE p # current
    <3>1. PageWord(ram', proc[p].space, v) = PageWord(ram, proc[p].space, v)
      BY <1>1, <2>2 DEF KeepsSpace, UserPages
    <3>2. Right(proc[p], v, PageWord(ram, proc[p].space, v))
      BY DEF LayoutInv
    <3> QED BY <1>1, <2>2, <3>1, <3>2
  <2> QED BY <2>1, <2>2
<1> QED BY <1>1, <1>3 DEF LayoutInv

LEMMA MallocRight ==
  ASSUME SpaceInv, LayoutInv, ~NullPointers, NEW size \in Sizes, MALLOC(size),
         ~UNCHANGED <<ram, proc>>
  PROVE  LayoutInv'
<1> DEFINE z == proc'[current]
<1>1. MallocTrades(proc[current], z) /\ pc = "kernel"
  BY MallocFacts DEF MALLOC
<1> HIDE DEF z
<1>2. Itself(Allocated(z)) \subseteq Itself(HeapFrames)
  BY <1>1 DEF MallocTrades, Traded, Itself
<1> QED BY <1>1, <1>2, TradedRight DEF MallocTrades

LEMMA FreeRight ==
  ASSUME SpaceInv, LayoutInv, NEW base \in HeapFrames, FREE(base),
         ~UNCHANGED <<ram, proc>>
  PROVE  LayoutInv'
<1> DEFINE z == proc'[current]
<1>1. FreeTrades(proc[current], z) /\ pc = "kernel"
  BY FreeTradesFacts DEF FREE
<1> HIDE DEF z
<1> QED BY <1>1, TradedRight DEF FreeTrades

LEMMA LayoutStep ==
  ASSUME SpaceInv, ProgramLayout, LayoutInv, ~NullPointers, [Next]_vars
  PROVE  LayoutInv'
<1>1. CASE UNCHANGED <<ram, proc>>
  BY <1>1 DEF LayoutInv, Alive
<1>2. CASE CopyBegin
  <2>1. /\ call'.shared \in ram.free /\ proc' = proc
        /\ OneChanges(call'.shared, Word(call'.shared, SharedFlags))
    BY <1>2, CopyBeginFacts DEF CopyBegin
  <2>2. call'.shared \in HeapFrames
    BY <2>1, MemoryTyped DEF SpaceInv, Typed
  <2> QED BY <2>1, <2>2, CopyRight
<1>3. CASE CopyEnd
  <2>1. call.shared \in HeapFrames /\ proc' = proc
    BY <1>3 DEF CopyEnd, SpaceInv, SharedApart, Copying
  <2>2. OneChanges(call.shared, call.old)
    BY <1>3, CopyEndFacts
  <2> QED BY <2>1, <2>2, CopyRight
<1>4. CASE Next
  <2>1. ASSUME \/ \E v, nr : isr_0x80_handler(nr, v)
               \/ task_access_stack \/ CopyFails \/ CopyRead \/ PRINT
               \/ OtherHandler \/ change_to_current_task_page_directory
        PROVE  UNCHANGED <<ram, proc>>
    BY <2>1 DEF isr_0x80_handler, task_access_stack, CopyFails, CopyRead,
                PRINT, OtherHandler, change_to_current_task_page_directory
  <2> QED BY <1>1, <1>2, <1>3, <1>4, <2>1, BootRight, ExecRight, ExitRight,
             MallocRight, FreeRight
      DEF Next
<1>5. CASE UNCHANGED vars
  BY <1>1, <1>5 DEF vars
<1> QED BY <1>4, <1>5

(* A byte of a segment is where its page says.                             *)
LEMMA ByteVisible ==
  ASSUME NEW vad \in Nat, NEW off \in Nat, NEW i \in Nat, NEW data \in Nat,
         NEW frame \in Nat, vad % PAGE_SIZE = off % PAGE_SIZE,
         frame + PageOf(vad) = data + PageOf(off) + PageOf(vad + i)
  PROVE  Address(frame) + ((vad + i) % PAGE_SIZE) = Address(data) + off + i
<1> DEFINE V == PageOf(vad)
           o == PageOf(off)
           u == PageOf(vad + i)
           r == off % PAGE_SIZE
           t == (vad + i) % PAGE_SIZE
<1>1. V \in Nat /\ o \in Nat /\ u \in Nat /\ r \in Nat /\ t \in Nat
      /\ vad = Address(V) + r /\ off = Address(o) + r
      /\ vad + i = Address(u) + t
  <2>1. vad + i \in Nat
    OBVIOUS
  <2>2. V \in Nat /\ r \in 0 .. (PAGE_SIZE - 1) /\ vad = Address(V) + r
    BY PageSplit
  <2>3. o \in Nat /\ off = Address(o) + r
    BY PageSplit
  <2>4. u \in Nat /\ t \in 0 .. (PAGE_SIZE - 1) /\ vad + i = Address(u) + t
    BY <2>1, PageSplit
  <2> HIDE DEF V, o, u, r, t
  <2> QED BY <2>2, <2>3, <2>4, EntrySizes
<1>2. frame + V = data + o + u
  OBVIOUS
<1> HIDE DEF V, o, u, r, t
<1>3. Address(frame) + Address(V) = Address(data) + Address(o) + Address(u)
      /\ Address(frame) \in Nat /\ Address(V) \in Nat
      /\ Address(data) \in Nat /\ Address(o) \in Nat /\ Address(u) \in Nat
  <2>1. /\ Address(frame + V) = Address(frame) + Address(V)
        /\ Address(data + o) = Address(data) + Address(o)
    BY <1>1, AddressLinear
  <2> DEFINE d == data + o
  <2>2. d \in Nat
    BY <1>1
  <2> HIDE DEF d
  <2>3. Address(d + u) = Address(d) + Address(u)
    BY <1>1, <2>2, AddressLinear
  <2>4. Address(frame) \in Nat /\ Address(V) \in Nat /\ Address(data) \in Nat
        /\ Address(o) \in Nat /\ Address(u) \in Nat
    BY <1>1, AddressLinear
  <2> QED BY <1>2, <2>1, <2>3, <2>4 DEF d
<1>4. Address(frame) + t = Address(data) + off + i
  BY <1>1, <1>3
<1> QED BY <1>4 DEF t

(* The pages of the bytes of a range.                                      *)
LEMMA ByteInPages ==
  ASSUME NEW vad \in Nat, NEW size \in Nat, NEW j \in 0 .. (size - 1)
  PROVE  PageOf(vad + j) \in PageOf(vad) .. (Blocks(vad + size) - 1)
<1> DEFINE V == PageOf(vad)
           a == vad + j
           b == vad + size
           u == PageOf(a)
           B == Blocks(b)
<1>1. a \in Nat /\ b \in Nat /\ vad <= a /\ a < b
  OBVIOUS
<1> HIDE DEF a, b
<1>2. V \in Nat /\ vad % PAGE_SIZE \in 0 .. (PAGE_SIZE - 1)
      /\ vad = Address(V) + (vad % PAGE_SIZE)
  BY PageSplit
<1>3. u \in Nat /\ a % PAGE_SIZE \in 0 .. (PAGE_SIZE - 1)
      /\ a = Address(u) + (a % PAGE_SIZE)
  BY <1>1, PageSplit
<1>4. B \in Nat /\ b <= Address(B)
  BY <1>1, Ceil
<1> HIDE DEF V, u, B
<1>5. Address(V) \in Nat /\ Address(u) \in Nat /\ Address(B) \in Nat
      /\ PAGE_SIZE \in Nat
  BY <1>2, <1>3, <1>4, AddressLinear, EntrySizes
<1>6. V <= u
  <2>1. u < V => Address(u) + PAGE_SIZE <= Address(V)
    BY <1>2, <1>3, AddressLinear
  <2> QED BY <1>1, <1>2, <1>3, <1>5, <2>1
<1>7. u < B
  <2>1. B <= u => Address(B) <= Address(u)
    BY <1>3, <1>4, AddressLinear
  <2> QED BY <1>1, <1>3, <1>4, <1>5, <2>1
<1>8. u \in V .. (B - 1)
  BY <1>2, <1>3, <1>4, <1>6, <1>7
<1> QED BY <1>8 DEF V, u, B, a, b

LEMMA BlocksOffset ==
  ASSUME NEW x \in Nat, NEW size \in Nat
  PROVE  Blocks(Address(x) + size) = x + Blocks(size)
<1> DEFINE a == Address(x) + size
           k == x + Blocks(size)
<1>1. /\ Blocks(size) \in Nat /\ size <= Address(Blocks(size))
      /\ Address(Blocks(size)) < size + PAGE_SIZE
  BY Ceil
<1>2. /\ Address(x) \in Nat /\ Address(Blocks(size)) \in Nat
      /\ Address(k) = Address(x) + Address(Blocks(size)) /\ PAGE_SIZE \in Nat
  BY <1>1, AddressLinear, EntrySizes
<1>3. a \in Nat /\ k \in Nat /\ a <= Address(k) /\ Address(k) < a + PAGE_SIZE
  <2> HIDE DEF k
  <2>1. k \in Nat
    BY <1>1 DEF k
  <2> QED BY <1>1, <1>2, <2>1
<1> HIDE DEF a, k
<1>4. Blocks(a) = k
  BY <1>3, CeilUnique
<1> QED BY <1>4 DEF a, k

LEMMA LayoutVisible ==
  ASSUME SpaceInv, ProgramLayout, LayoutInv PROVE ProgramVisible
<1> SUFFICES ASSUME NEW p \in Alive
             PROVE  /\ proc[p].type = "PROCESS_ELF_FILE" =>
                         \A i \in DOMAIN proc[p].file.phdrs :
                           SegmentVisible(p, proc[p].file.phdrs[i])
                    /\ proc[p].type = "PROCESS_BIN_FILE" =>
                         \A i \in 0 .. (proc[p].file.size - 1) :
                           Shows(p, TASK_DEFAULT_START + i, i)
                    /\ \A i \in 0 .. (Blocks(TASK_STACK_SIZE) - 1) :
                         Entry(p, PageOf(TASK_DEFAULT_STACK_END) + i)
                           = Word(proc[p].stack + i, TaskFlags \cup {"WRITE"})
  BY DEF ProgramVisible
<1> DEFINE q == proc[p]
           s == q.space
<1>1. q \in Processes /\ Space(ram, s) /\ ram \in Memories
  BY ApartFrames DEF SpaceInv, SpacesApart, Typed
<1>2. \A v : Entry(p, v) = PageWord(ram, s, v)
  BY DEF Entry, SpaceOf, PageWord
<1>3. \A v \in UserPages : Right(q, v, PageWord(ram, s, v))
  BY DEF LayoutInv
<1>4. q.file \in Files /\ q.data \in Nat /\ q.file.size \in Nat
  BY <1>1, PagesAre, AddressSpaceAssumption DEF Processes
<1>5. \A v \in Pages : PageWord(ram, s, v).frame \in Nat
  BY <1>1, PageWordTyped DEF Words
<1>6. ASSUME NEW vad \in Nat, NEW off \in Nat, NEW j \in Nat,
             vad % PAGE_SIZE = off % PAGE_SIZE,
             PageOf(vad + j) \in Pages,
             PageWord(ram, s, PageOf(vad + j)).frame + PageOf(vad)
               = q.data + PageOf(off) + PageOf(vad + j)
      PROVE  Shows(p, vad + j, off + j)
  <2> DEFINE w == PageWord(ram, s, PageOf(vad + j)).frame
             d == q.data
  <2>1. w \in Nat /\ d \in Nat /\ w + PageOf(vad) = d + PageOf(off) + PageOf(vad + j)
    BY <1>4, <1>5, <1>6
  <2> HIDE DEF w, d
  <2>2. Address(w) + ((vad + j) % PAGE_SIZE) = Address(d) + off + j
    BY <1>6, <2>1, ByteVisible
  <2>3. Address(d) + off + j = Address(d) + (off + j)
    BY <2>1, AddressLinear
  <2> QED BY <1>2, <2>2, <2>3 DEF Shows, w, d
<1>7. ASSUME q.type = "PROCESS_ELF_FILE", NEW i \in DOMAIN q.file.phdrs
      PROVE  SegmentVisible(p, q.file.phdrs[i])
  <2> DEFINE h == q.file.phdrs[i]
  <2>1. h.p_vaddr \in Nat /\ h.p_offset \in Nat /\ h.p_memsz \in Nat
    <3>1. q.file.phdrs \in Seq(Phdrs)
      BY <1>4, AddressSpaceAssumption
    <3>2. h \in Phdrs
      BY <3>1
    <3> QED BY <3>2 DEF Phdrs
  <2>2. SegmentInUserMemory(q.file, h)
    BY <1>4 DEF ProgramLayout, UserMemory
  <2>3. ASSUME NEW j \in 0 .. (h.p_memsz - 1)
        PROVE  Shows(p, h.p_vaddr + j, h.p_offset + j)
    <3> DEFINE u == PageOf(h.p_vaddr + j)
    <3>1. u \in SegmentPages(h)
      BY <2>1, ByteInPages DEF SegmentPages
    <3>2. u \in UserPages /\ u \in Pages
      BY <2>2, <3>1 DEF SegmentInUserMemory, SegmentPages, UserPages
    <3>3. PageWord(ram, s, u).frame + PageOf(h.p_vaddr)
            = q.data + PageOf(h.p_offset) + u
      BY <1>3, <1>7, <3>1, <3>2 DEF Right
    <3>4. h.p_vaddr % PAGE_SIZE = h.p_offset % PAGE_SIZE /\ j \in Nat
      BY <2>2 DEF SegmentInUserMemory
    <3> HIDE DEF h
    <3> QED BY <1>6, <2>1, <3>2, <3>3, <3>4
  <2> QED BY <2>3 DEF SegmentVisible
<1>8. ASSUME q.type = "PROCESS_BIN_FILE", NEW j \in 0 .. (q.file.size - 1)
      PROVE  Shows(p, TASK_DEFAULT_START + j, j)
  <2> DEFINE vad == TASK_DEFAULT_START
             V == PageOf(vad)
             u == PageOf(vad + j)
  <2>1. vad \in Nat /\ V \in Nat /\ vad % PAGE_SIZE = 0 /\ vad = Address(V)
    <3>1. vad \in Nat /\ vad % PAGE_SIZE = 0
      BY AddressSpaceAssumption DEF ProgramLayout, address_page_aligned
    <3>2. V \in Nat /\ vad = Address(V) + (vad % PAGE_SIZE)
      BY <3>1, PageSplit
    <3> QED BY <3>1, <3>2, AddressLinear
  <2>2. u \in BinaryPages(q.file)
    <3>1. u \in V .. (Blocks(vad + q.file.size) - 1)
      BY <1>4, <2>1, ByteInPages
    <3>2. Blocks(Address(V) + q.file.size) = V + Blocks(q.file.size)
      BY <1>4, <2>1, BlocksOffset
    <3>3. Blocks(vad + q.file.size) = V + Blocks(q.file.size)
      BY <2>1, <3>2
    <3>4. V \in Nat /\ Blocks(q.file.size) \in Nat
      BY <1>4, <2>1, Ceil
    <3> HIDE DEF V, u, vad
    <3>5. u \in V .. (V + Blocks(q.file.size) - 1)
      BY <3>1, <3>3, <3>4
    <3> QED BY <3>5 DEF BinaryPages, PagesFrom, V, vad
  <2>3. u \in UserPages /\ u \in Pages
    BY <1>4, <2>2 DEF BinaryPages, ProgramLayout, UserMemory, UserPages
  <2>4. PageWord(ram, s, u).frame + V = q.data + u
    BY <1>3, <1>8, <2>2, <2>3 DEF Right
  <2>5. 0 % PAGE_SIZE = 0 /\ PageOf(0) = 0 /\ j \in Nat
    BY <1>4, PageOfAddress, AddressLinear DEF address_page_aligned
  <2>6. q.data + PageOf(0) + u = q.data + u
    BY <1>4, <2>5
  <2>7. Shows(p, vad + j, 0 + j)
    <3>1. vad % PAGE_SIZE = 0 % PAGE_SIZE /\ 0 \in Nat
      BY <2>1, <2>5
    <3>2. PageWord(ram, s, u).frame + V = q.data + PageOf(0) + u
      BY <2>4, <2>6
    <3> HIDE DEF vad
    <3> QED BY <1>6, <2>1, <2>3, <2>5, <3>1, <3>2
  <2> QED BY <2>5, <2>7
<1>9. ASSUME NEW i \in 0 .. (Blocks(TASK_STACK_SIZE) - 1)
      PROVE  Entry(p, PageOf(TASK_DEFAULT_STACK_END) + i)
               = Word(q.stack + i, TaskFlags \cup {"WRITE"})
  <2> DEFINE V == PageOf(TASK_DEFAULT_STACK_END)
             u == V + i
  <2>1. V \in Nat /\ Blocks(TASK_STACK_SIZE) \in Nat
    BY StackFits, PageSplit, Ceil
  <2>2. u \in StackPages /\ u - V = i
    BY <2>1 DEF StackPages, PagesFrom
  <2>3. u \in UserPages
    BY <2>2 DEF StackPages, ProgramLayout, UserMemory
  <2>4. PageWord(ram, s, u) = Word(q.stack + (u - V), TaskFlags \cup {"WRITE"})
    BY <1>3, <2>2, <2>3 DEF Right
  <2> QED BY <1>2, <2>2, <2>4
<1> QED BY <1>7, <1>8, <1>9

(* Every byte of a segment, its .bss included, is seen at its virtual      *)
(* address, a raw binary from TASK_DEFAULT_START on, and the stack where   *)
(* the stack pointer will be: process_map_elf, process_map_binary and the  *)
(* mapping of the stack put the frames there, and no later system call,    *)
(* MALLOC and FREE included, maps a user page of any process again while   *)
(* kzalloc finds memory.  (When it does not, MALLOC maps the pages from 0  *)
(* on, user pages among them: ~NullPointers excludes that.)  Segments      *)
(* cover neither each other nor the stack (ProgramLayout).                 *)
THEOREM SpaceProgramVisible ==
  ASSUME ~NullPointers, ProgramLayout
  PROVE  Spec => []ProgramVisible
<1>1. Init => LayoutInv
  BY DEF Init, LayoutInv, Alive
<1>2. AddressSpaceInv /\ LayoutInv /\ [Next]_vars => LayoutInv'
  BY LayoutStep DEF AddressSpaceInv
<1>3. AddressSpaceInv /\ LayoutInv => ProgramVisible
  BY LayoutVisible DEF AddressSpaceInv
<1>4. Spec => []AddressSpaceInv
  BY AddressSpaceInvariant
<1> QED BY <1>1, <1>2, <1>3, <1>4, PTL DEF Spec
=============================================================================
