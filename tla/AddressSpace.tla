---------------------------- MODULE AddressSpace ----------------------------
(***************************************************************************)
(* The address spaces of programs: how a file becomes a process with its   *)
(* memory mapped (process_new, gloader_load_elf, process_map_memory), how  *)
(* system calls switch page directories, how the kernel reads the memory   *)
(* of a task (copy_data_from_task_to_kernel), what MALLOC and FREE map,    *)
(* and how a process is taken down again.                                  *)
(* (kernel/task, kernel/idt, g-loader, over mm/paging)                     *)
(*                                                                         *)
(* A system call is split where cr3 changes or memory is written under     *)
(* another directory, because the processor caches translations: tlb is    *)
(* what it may have cached since cr3 was loaded.  The current task, its    *)
(* process and what the table and the list say about them are in Process;  *)
(* here a process is the memory it owns.  A string is named by the frames  *)
(* it lies in: it begins in the page of the argument and may run into the  *)
(* next one; 0 stands for a part that has been overwritten with zeroes.    *)
(***************************************************************************)
EXTENDS Paging

CONSTANTS
  PROCESS_MAX_PROCESSES,
  ShellFile,
  Files,                \* what can be started
  StackBlocks,          \* PROCESS_MAX_PROCESS_STACK_SIZE, in blocks
  TASK_STACK_SIZE,
  TASK_DEFAULT_START,
  TASK_DEFAULT_STACK_END,
  KernelPages,          \* kernel code and data, and the stack of the TSS
  TakenSets,            \* frames that other parts of the kernel hold
  Strings,              \* pages of the strings passed to system calls
  PROCESS_MAX_PROCESS_MEM_ALLOCATIONS,
  Sizes,                \* the sizes that programs ask for
  NullPointers          \* follow a null result of kzalloc that is not tested?

Phdrs == [p_vaddr : Nat, p_offset : Nat, p_filesz : Nat, p_memsz : Nat,
          write : BOOLEAN]

(* The kernel's own address space fits into the heap.                      *)
ASSUME AddressSpaceAssumption ==
  /\ PROCESS_MAX_PROCESSES \in Nat \ {0}
  /\ ShellFile \in Files
  /\ \A f \in Files : f.size \in Nat /\ f.phdrs \in Seq(Phdrs)
  /\ {StackBlocks, TASK_STACK_SIZE, TASK_DEFAULT_START,
      TASK_DEFAULT_STACK_END,
      PROCESS_MAX_PROCESS_MEM_ALLOCATIONS} \subseteq Nat
  /\ Sizes \subseteq Nat
  /\ StackBlocks * PAGE_SIZE >= TASK_STACK_SIZE
  /\ KernelPages \subseteq Pages \ HeapFrames
  /\ \A t \in TakenSets :
       /\ t \subseteq HeapFrames
       /\ Cardinality(HeapFrames \ t) >= PAGE_DIR_ENTRIES + 3
  /\ \A v \in Strings : {v, v + 1} \subseteq Pages
  /\ NullPointers \in BOOLEAN

VARIABLES
  ram,             \* the frames of the machine
  kernel_space,    \* the kernel's vaddr_space
  cr3,             \* the frame of the loaded directory
  tlb,             \* the translations of that directory when it was loaded
  proc,            \* the memory of each process, or NoProcess
  current,         \* current_process
  pc,              \* where the kernel is
  call             \* the system call that it serves

vars == <<ram, kernel_space, cr3, tlb, proc, current, pc, call>>
-----------------------------------------------------------------------------
Procs == 0 .. (PROCESS_MAX_PROCESSES - 1)       \* process_list
Gshell == 0
NoProcess == [type |-> "none"]
Alive == {p \in Procs : proc[p] # NoProcess}
Blocks(size) == (size + PAGE_SIZE - 1) \div PAGE_SIZE

(* mem_allocations and mem_allocations_size; base 0: the slot is free.     *)
Slots == 0 .. (PROCESS_MAX_PROCESS_MEM_ALLOCATIONS - 1)
Allocation(base, size) == [base |-> base, size |-> size]
NoAllocations == [s \in Slots |-> Allocation(0, 0)]

TaskFlags == {"PRESENT", "USER"}
KernelFlags == TaskFlags \cup {"WRITE"}
SharedFlags == TaskFlags \cup {"WRITE"}

(* A file passes the tests of elf.c or not.                                *)
ElfTests == {"signature", "class32", "executable", "little_endian",
             "Phdr", "Shdr"}
IsElf(file) == file.passes = ElfTests

(* The tests are evaluated and their result is dropped: SUCCESS, always.   *)
ELF_validate_elf_file(file) == 0

(* gloader_load_elf and process_load_elf: the memory afterwards, and what  *)
(* the process gets.  Every failure frees what was allocated.              *)
gloader_load_elf(m, file) ==
  LET e == Alloc(m, 1)
      d == Alloc(e.ram, Blocks(file.size))
  IN  IF e.at = 0 \/ d.at = 0 \/ ELF_validate_elf_file(file) < 0
      THEN [ram |-> IF e.at = 0 THEN m ELSE kfree(kfree(d.ram, e.at), d.at),
            type |-> "none", elf |-> 0, data |-> 0]
      ELSE [ram |-> d.ram, type |-> "PROCESS_ELF_FILE",
            elf |-> e.at, data |-> d.at]

process_load_binary(m, file) ==
  LET d == Alloc(m, Blocks(file.size))
  IN  [ram |-> d.ram,
       type |-> IF d.at = 0 THEN "none" ELSE "PROCESS_BIN_FILE",
       elf |-> 0, data |-> d.at]

process_load_data(m, file) ==
  LET l == gloader_load_elf(m, file)
  IN  IF l.type = "none" THEN process_load_binary(l.ram, file) ELSE l
-----------------------------------------------------------------------------
(* The three addresses that process_map_elf passes for a program header.   *)
SegmentStart(q, h) == (Address(q.data) + h.p_offset) % MemoryEnd
MapVaddr(h) == paging_align_to_page_lower(h.p_vaddr)
MapPaddr(q, h) == paging_align_to_page_lower(SegmentStart(q, h))

MapEndOfFile(q, h) ==                  \* variant: without the .bss
  paging_align_to_page_upper((SegmentStart(q, h) + h.p_filesz) % MemoryEnd)

MapEnd(q, h) ==
  paging_align_to_page_upper((SegmentStart(q, h) + h.p_memsz) % MemoryEnd)
MapFlags(h) == TaskFlags \cup (IF h.write THEN {"WRITE"} ELSE {})

(* Every program header is mapped, whatever its type.                      *)
process_map_elf(m, q) ==
  LET phdrs == q.file.phdrs
      mapped[i \in 0 .. Len(phdrs)] ==           \* after i headers
        IF i = 0 THEN m
        ELSE LET h == phdrs[i]
             IN  paging_map_range(mapped[i - 1], q.space, MapVaddr(h),
                                  MapPaddr(q, h), MapEnd(q, h), MapFlags(h))
  IN  mapped[Len(phdrs)]

BinaryEnd(q) ==
  paging_align_to_page_upper((Address(q.data) + q.file.size) % MemoryEnd)
StackEnd(q) ==
  paging_align_to_page_upper((Address(q.stack) + TASK_STACK_SIZE) % MemoryEnd)

process_map_binary(m, q) ==
  paging_map_range(m, q.space, TASK_DEFAULT_START, Address(q.data),
                   BinaryEnd(q), TaskFlags \cup {"WRITE"})

MapStack(m, q) ==
  paging_map_range(m, q.space, TASK_DEFAULT_STACK_END, Address(q.stack),
                   StackEnd(q), TaskFlags \cup {"WRITE"})

process_map_memory(m, q) ==
  MapStack(IF q.type = "PROCESS_ELF_FILE" THEN process_map_elf(m, q)
                                          ELSE process_map_binary(m, q), q)

MapMemoryFails(q) ==
  \/ /\ q.type = "PROCESS_ELF_FILE"
     /\ \E i \in DOMAIN q.file.phdrs :
          LET h == q.file.phdrs[i]
          IN  MapRangeFails(MapVaddr(h), MapPaddr(q, h), MapEnd(q, h))
  \/ /\ q.type = "PROCESS_BIN_FILE"
     /\ MapRangeFails(TASK_DEFAULT_START, Address(q.data), BinaryEnd(q))
  \/ MapRangeFails(TASK_DEFAULT_STACK_END, Address(q.stack), StackEnd(q))

(* close_task and task_kill: the task is freed twice in a row.             *)
close_task(m, q) ==
  kfree(kfree(destroy_virtual_address_space(m, q.space), q.task), q.task)

(* process_new, step by step.  The result: the memory, the process         *)
(* (NoProcess for 0), and whether the memory for the page tables ran out   *)
(* on the way.  When a step fails, stack and process are freed.  freed is  *)
(* history: has FREE changed the tables of the process?                    *)
Fails(m, s, p) ==
  [ram |-> kfree(kfree(m, s), p), process |-> NoProcess, partial |-> FALSE]

(* process_map_memory for a process q that has everything else.            *)
Mapped(m, q, partial) ==
  IF MapMemoryFails(q)
  THEN [Fails(close_task(m, q), q.stack, q.struct) EXCEPT !.partial = partial]
  ELSE [ram |-> process_map_memory(m, q), process |-> q, partial |-> partial]

(* task_new and init_task                                                  *)
WithSpace(m, q) ==
  LET v == create_virtual_address_space(m, TaskFlags)
  IN  IF v.at = 0 THEN Fails(v.ram, q.stack, q.struct)
      ELSE Mapped(v.ram, [q EXCEPT !.space = v.at],
                  Cardinality(m.free) < PAGE_DIR_ENTRIES + 3)

WithTask(m, q) ==
  LET t == Alloc(m, 1)
  IN  IF t.at = 0 THEN Fails(m, q.stack, q.struct)
      ELSE WithSpace(t.ram, [q EXCEPT !.task = t.at])

WithData(l, file, p, s) ==
  IF l.type = "none" THEN Fails(l.ram, s, p)
  ELSE WithTask(l.ram, [type |-> l.type, file |-> file, struct |-> p,
                        stack |-> s, elf |-> l.elf, data |-> l.data,
                        task |-> 0, space |-> 0,
                        mem_allocations |-> NoAllocations, freed |-> FALSE])

WithStack(m, file, p) ==
  LET s == Alloc(m, StackBlocks)
  IN  IF s.at = 0 THEN Fails(m, 0, p)
      ELSE WithData(process_load_data(s.ram, file), file, p, s.at)

process_new(m, file) ==
  LET p == Alloc(m, 1)
  IN  IF p.at = 0 THEN Fails(m, 0, 0) ELSE WithStack(p.ram, file, p.at)

process_kill(m, q) ==
  LET m1 == kfree(m, q.stack)
      m2 == kfree(kfree(m1, q.data), q.elf)
  IN  kfree(close_task(m2, q), q.struct)
-----------------------------------------------------------------------------
(* load_page_directory; the processor drops its translations (external).   *)
load_page_directory(m, space) ==
  /\ cr3' = Directory(m, space)
  /\ tlb' = [v \in Pages |-> Translate(m, Directory(m, space), v)]

change_to_kernel_page_directory == load_page_directory(ram, kernel_space)

NoCall == [nr |-> "none"]

(* The slots of the current process with this base.                        *)
SlotsWith(base) ==
  {s \in Slots : proc[current].mem_allocations[s].base = base}

MayMalloc(size) ==
  NullPointers \/ size = 0 \/ SlotsWith(0) = {} \/ Fit(ram, Blocks(size)) # 0

(* Bounds: the shell does not exit, no more programs than Procs, and, with *)
(* ~NullPointers, no program whose tables would run out of memory and no   *)
(* MALLOC that would.                                                      *)
MayCall(nr) ==
  /\ nr = "EXIT" => current # Gshell
  /\ nr = "MALLOC" => \E size \in Sizes : MayMalloc(size)
  /\ nr = "EXEC" =>
       /\ Alive # Procs
       /\ NullPointers \/ \E f \in Files : ~process_new(ram, f).partial

SpaceOf(p) == proc[p].space
Entry(p, v) == Translate(ram, Directory(ram, SpaceOf(p)), v)

(* The frames in which the current task sees a string, and the page of its *)
(* stack where it pushed the address of the string.                        *)
Seen(v) == <<tlb[v].frame, tlb[v + 1].frame>>
StackTop == PageOf(TASK_DEFAULT_STACK_END + TASK_STACK_SIZE) - 1

NewCall(nr, v) ==
  [nr |-> nr, arg |-> v, pushed |-> tlb[StackTop].frame, seen |-> Seen(v),
   shared |-> 0, old |-> Word(0, {}), got |-> <<>>]

(* isr_0x80_handler and general_interrupt_handler, up to the call of the   *)
(* handler.                                                                *)
isr_0x80_handler(nr, v) ==
  /\ pc = "user"
  /\ MayCall(nr)
  /\ pc' = "kernel"
  /\ change_to_kernel_page_directory
  /\ call' = NewCall(nr, v)
  /\ UNCHANGED <<ram, kernel_space, proc, current>>

(* The argument is read with the task's directory loaded, from the frame   *)
(* behind the top of its stack; the kernel's is loaded again.              *)
task_access_stack ==
  /\ pc = "kernel"
  /\ call.nr \in {"PRINT", "EXEC"}
  /\ change_to_kernel_page_directory
  /\ pc' = "called"
  /\ call' = [call EXCEPT !.arg =
                IF Entry(current, StackTop).frame = call.pushed THEN @ ELSE 0]
  /\ UNCHANGED <<ram, kernel_space, proc, current>>

CopyWithoutLoad ==                     \* variant: the kernel's view is read
  LET space  == proc[current].space
      shared == Fit(ram, 1)
      m      == kzalloc(ram, 1)
  IN  /\ pc = "called"
      /\ shared # 0
      /\ ram' = map_vaddr_to_val(m, pd_of(m, space), Address(shared),
                                 Word(shared, SharedFlags))
      /\ pc' = "copying"
      /\ call' = [call EXCEPT !.shared = shared,
                    !.old = paging_virt_to_phy(m, space, Address(shared))]
      /\ UNCHANGED <<kernel_space, cr3, tlb, proc, current>>

(* copy_data_from_task_to_kernel: a cleared page that kernel and task      *)
(* share ...                                                               *)
CopyBegin ==
  LET space  == proc[current].space
      shared == Fit(ram, 1)
      m      == kzalloc(ram, 1)
  IN  /\ pc = "called"
      /\ shared # 0
      /\ ram' = map_vaddr_to_val(m, pd_of(m, space), Address(shared),
                                 Word(shared, SharedFlags))
      /\ load_page_directory(ram', space)
      /\ pc' = "copying"
      /\ call' = [call EXCEPT !.shared = shared,
                    !.old = paging_virt_to_phy(m, space, Address(shared))]
      /\ UNCHANGED <<kernel_space, proc, current>>

(* ... which there may be no memory for: the error is ignored, and the     *)
(* callers use their buffer as it is.                                      *)
CopyFails ==
  /\ pc = "called"
  /\ Fit(ram, 1) = 0
  /\ pc' = "argument"
  /\ UNCHANGED <<ram, kernel_space, cr3, tlb, proc, current, call>>

(* ... is filled through the task's directory: a part of the string that   *)
(* lies in the shared page itself has been cleared ...                     *)
Read(frame) == IF frame = call.shared THEN 0 ELSE frame

CopyRead ==
  /\ pc = "copying"
  /\ pc' = "copied"
  /\ call' = [call EXCEPT !.got =
                IF tlb[call.shared] = Word(call.shared, SharedFlags)
                THEN <<Read(Seen(call.arg)[1]), Read(Seen(call.arg)[2])>>
                ELSE <<>>]
  /\ UNCHANGED <<ram, kernel_space, cr3, tlb, proc, current>>

CopyEndKeepingMapping ==               \* variant: the entry stays
  /\ pc = "copied"
  /\ change_to_kernel_page_directory
  /\ ram' = kfree(ram, call.shared)
  /\ pc' = "argument"
  /\ UNCHANGED <<kernel_space, proc, current, call>>

RestoreOnTaskDirectory ==              \* variant: cr3 is not changed
  /\ pc = "copied"
  /\ ram' = kfree(map_vaddr_to_val(ram, pd_of(ram, proc[current].space),
                    Address(call.shared), call.old), call.shared)
  /\ pc' = "argument"
  /\ UNCHANGED <<kernel_space, cr3, tlb, proc, current, call>>

(* ... and copied from there; the task's table gets its old entry back.    *)
CopyEnd ==
  /\ pc = "copied"
  /\ change_to_kernel_page_directory
  /\ ram' = kfree(map_vaddr_to_val(ram, pd_of(ram, proc[current].space),
                    Address(call.shared), call.old), call.shared)
  /\ pc' = "argument"
  /\ UNCHANGED <<kernel_space, proc, current, call>>

(* kputs prints what was copied.                                           *)
PRINT ==
  /\ pc = "argument"
  /\ call.nr = "PRINT"
  /\ pc' = "done"
  /\ UNCHANGED <<ram, kernel_space, cr3, tlb, proc, current, call>>

(* The name leads to a file, and process_new succeeds or returns 0.        *)
EXEC(file) ==
  LET new == process_new(ram, file)
  IN  /\ pc = "argument"
      /\ call.nr = "EXEC"
      /\ NullPointers \/ ~new.partial
      /\ ram' = new.ram
      /\ \/ /\ new.process = NoProcess
            /\ UNCHANGED <<proc, current>>
         \/ /\ new.process # NoProcess
            /\ current' = Min(Procs \ Alive)
            /\ proc' = [proc EXCEPT ![current'] = new.process]
      /\ pc' = "done"
      /\ UNCHANGED <<kernel_space, cr3, tlb, call>>

KillDestroysHead ==                    \* variant: the wrong task's space
  /\ pc = "kernel"
  /\ call.nr = "EXIT"
  /\ ram' = process_kill(ram, [proc[current] EXCEPT !.space =
                                 proc[Gshell].space])
  /\ proc' = [proc EXCEPT ![current] = NoProcess]
  /\ current' = Gshell
  /\ pc' = "done"
  /\ UNCHANGED <<kernel_space, cr3, tlb, call>>

(* process_kill, process_back_to_gshell                                    *)
EXIT ==
  /\ pc = "kernel"
  /\ call.nr = "EXIT"
  /\ ram' = process_kill(ram, proc[current])
  /\ proc' = [proc EXCEPT ![current] = NoProcess]
  /\ current' = Gshell
  /\ pc' = "done"
  /\ UNCHANGED <<kernel_space, cr3, tlb, call>>

(* process_malloc: the slot is filled and the range is mapped whether or   *)
(* not kzalloc found memory.  (The argument is read as for the other       *)
(* calls, which leaves no trace.)                                          *)
MALLOC(size) ==
  LET a == Alloc(ram, Blocks(size))
  IN  /\ pc = "kernel"
      /\ call.nr = "MALLOC"
      /\ MayMalloc(size)
      /\ \/ /\ SlotsWith(0) = {}
            /\ UNCHANGED <<ram, proc>>
         \/ /\ SlotsWith(0) # {}
            /\ ram' = paging_map_range(a.ram, SpaceOf(current), Address(a.at),
                        Address(a.at),
                        Address(a.at + Blocks(size)) % MemoryEnd, SharedFlags)
            /\ proc' = [proc EXCEPT ![current].mem_allocations =
                          [@ EXCEPT ![Min(SlotsWith(0))] =
                             Allocation(a.at, size)]]
      /\ pc' = "done"
      /\ UNCHANGED <<kernel_space, cr3, tlb, current, call>>

(* process_free for a base that is not null (ProcMem has the null one):    *)
(* the range is mapped writable again, as many pages as the page size      *)
(* divided by the size of the allocation, and its first block is freed.    *)
PagesToFree(size) == (size + PAGE_SIZE - 1) \div size

FreeUnmaps(base) ==                    \* variant: the page is unmapped
  /\ pc = "kernel"
  /\ call.nr = "FREE"
  /\ ram' = IF SlotsWith(base) = {} THEN ram
            ELSE paging_map_range(ram, SpaceOf(current), Address(base), 0,
                                  PAGE_SIZE, TaskFlags)
  /\ pc' = "done"
  /\ UNCHANGED <<kernel_space, cr3, tlb, proc, current, call>>

FREE(base) ==
  LET s == Min(SlotsWith(base))
      n == PagesToFree(proc[current].mem_allocations[s].size)
  IN  /\ pc = "kernel"
      /\ call.nr = "FREE"
      /\ \/ /\ SlotsWith(base) = {}
            /\ UNCHANGED <<ram, proc>>
         \/ /\ SlotsWith(base) # {}
            /\ ram' = kfree(paging_map_range(ram, SpaceOf(current),
                        Address(base), Address(base),
                        Address(base + n) % MemoryEnd, SharedFlags), base)
            /\ proc' = [proc EXCEPT ![current] =
                          [@ EXCEPT !.mem_allocations[s] = Allocation(0, 0),
                                    !.freed = TRUE]]
      /\ pc' = "done"
      /\ UNCHANGED <<kernel_space, cr3, tlb, current, call>>

(* PUTCH, GETCH and numbers without a handler leave memory alone.          *)
OtherHandler ==
  /\ pc = "kernel"
  /\ call.nr = "other"
  /\ pc' = "done"
  /\ UNCHANGED <<ram, kernel_space, cr3, tlb, proc, current, call>>

(* change_to_current_task_page_directory at the end of the handlers, and   *)
(* task_switch in EXEC, EXIT and gammaos_first_ever_task.                  *)
change_to_current_task_page_directory ==
  /\ pc = "done"
  /\ load_page_directory(ram, proc[current].space)
  /\ pc' = "user"
  /\ call' = NoCall
  /\ UNCHANGED <<ram, kernel_space, proc, current>>

(* kernel_start: the shell is created with the kernel's directory loaded.  *)
BootShell ==
  LET new == process_new(ram, ShellFile)
  IN  /\ pc = "boot"
      /\ new.process # NoProcess
      /\ ~new.partial
      /\ ram' = new.ram
      /\ proc' = [proc EXCEPT ![Gshell] = new.process]
      /\ pc' = "done"
      /\ UNCHANGED <<kernel_space, cr3, tlb, current, call>>

Init ==
  \E taken \in TakenSets :
    LET made == create_virtual_address_space(
                  [free |-> HeapFrames \ taken,
                   word |-> [f \in Pages |-> ZeroFrame]], KernelFlags)
    IN  /\ kernel_space = made.at
        /\ ram = made.ram
        /\ cr3 = Directory(ram, kernel_space)
        /\ tlb = [v \in Pages |-> Translate(ram, cr3, v)]
        /\ proc = [p \in Procs |-> NoProcess]
        /\ current = Gshell
        /\ pc = "boot"
        /\ call = NoCall

Next ==
  \/ BootShell
  \/ \E v \in Strings, nr \in {"PRINT", "EXEC"} : isr_0x80_handler(nr, v)
  \/ \E nr \in {"EXIT", "MALLOC", "FREE", "other"} : isr_0x80_handler(nr, 0)
  \/ task_access_stack
  \/ CopyBegin
  \/ CopyFails
  \/ CopyRead
  \/ CopyEnd
  \/ PRINT
  \/ \E file \in Files : EXEC(file)
  \/ EXIT
  \/ \E size \in Sizes : MALLOC(size)
  \/ \E base \in HeapFrames : FREE(base)
  \/ OtherHandler
  \/ change_to_current_task_page_directory

Spec == Init /\ [][Next]_vars
-----------------------------------------------------------------------------
(* The frames that a process may write: its stack, its program and what it *)
(* has allocated.                                                          *)
Allocated(q) ==
  UNION {Segment(q.mem_allocations[s].base, Blocks(q.mem_allocations[s].size)) :
           s \in {t \in Slots : q.mem_allocations[t].base # 0}}

Own(p) == Segment(proc[p].stack, StackBlocks)
            \cup Segment(proc[p].data, Blocks(proc[p].file.size))
            \cup Allocated(proc[p])

SpaceFrames(s) ==
  {s, pd_of(ram, s), Directory(ram, s)} \cup Tables(ram, s)

(* The structures of two address spaces share no frame, have none that is  *)
(* free or null, and belong to no program: nothing that is allocated for   *)
(* one task can change the translations of another, after any sequence of  *)
(* programs started, ended and failed, with the frames that                *)
(* destroy_virtual_address_space frees and forgets.                        *)
SpacesOwnTables ==
  LET spaces == {kernel_space} \cup {SpaceOf(p) : p \in Alive}
  IN  /\ Cardinality(spaces) = Cardinality(Alive) + 1
      /\ \A s \in spaces :
           /\ Cardinality(SpaceFrames(s)) = PAGE_DIR_ENTRIES + 3
           /\ SpaceFrames(s) \cap (ram.free \cup {0}) = {}
           /\ \A r \in spaces \ {s} : SpaceFrames(s) \cap SpaceFrames(r) = {}
           /\ \A p \in Alive : SpaceFrames(s) \cap Own(p) = {}

(* The program runs as its file says: every byte of a segment is seen at   *)
(* its virtual address, whatever the alignment of the segment in the file, *)
(* and what a segment has in memory but not in the file (its .bss) is seen *)
(* behind those bytes; a raw binary is seen from TASK_DEFAULT_START on; and *)
(* the stack of the process is where its stack pointer will be.  No system *)
(* call of any program, MALLOC and FREE included, changes that, as long as *)
(* the heap has the memory that MALLOC is asked for.                       *)
Shows(p, vaddr, offset) ==
  Address(Entry(p, PageOf(vaddr)).frame) + (vaddr % PAGE_SIZE)
    = Address(proc[p].data) + offset

SegmentVisible(p, h) ==
  \A i \in 0 .. (h.p_memsz - 1) : Shows(p, h.p_vaddr + i, h.p_offset + i)

ProgramVisible ==
  \A p \in Alive :
    /\ proc[p].type = "PROCESS_ELF_FILE" =>
         \A i \in DOMAIN proc[p].file.phdrs :
           SegmentVisible(p, proc[p].file.phdrs[i])
    /\ proc[p].type = "PROCESS_BIN_FILE" =>
         \A i \in 0 .. (proc[p].file.size - 1) :
           Shows(p, TASK_DEFAULT_START + i, i)
    /\ \A i \in 0 .. (Blocks(TASK_STACK_SIZE) - 1) :
         Entry(p, PageOf(TASK_DEFAULT_STACK_END) + i)
           = Word(proc[p].stack + i, TaskFlags \cup {"WRITE"})

(* While a program runs, it can write to no frame but its own: the page    *)
(* shared for a system call has been taken back, and no mapping reaches    *)
(* beyond the program, its stack and its allocations.  Two things in the   *)
(* code do break this, and are left to WritableAlwaysOwn: process_free     *)
(* maps what it frees writable, and process_map_elf maps the .bss of a     *)
(* segment behind the blocks of the file.                                  *)
SegmentsInFile(file) ==
  \A i \in DOMAIN file.phdrs :
    file.phdrs[i].write =>
      file.phdrs[i].p_offset + file.phdrs[i].p_memsz
        <= Blocks(file.size) * PAGE_SIZE

WritesOwn(p) ==
  \A v \in Pages :
    "WRITE" \in Entry(p, v).flags => Entry(p, v).frame \in Own(p)

WritableIsOwn ==
  pc = "user" => \A p \in Alive :
    (~proc[p].freed /\ SegmentsInFile(proc[p].file)) => WritesOwn(p)

(* Interrupt stubs, task_access_stack and the copy loop run kernel code on *)
(* the directory of the task: the kernel, the stack of the TSS and the     *)
(* heap are at their own addresses in every space.                         *)
KernelIdentity ==
  \A p \in Alive : \A v \in KernelPages \cup HeapFrames :
    Entry(p, v).frame = v

(* No table is changed while the processor may have cached its entries.    *)
TlbFresh == \A v \in Pages : tlb[v] = Translate(ram, cr3, v)

(* What a system call copies is the memory that the task saw when it       *)
(* called: a string in memory that somebody owns arrives whole.  (One that *)
(* lies in a free frame of the heap, after FREE for example, may be        *)
(* cleared by the kzalloc of the shared page: StringArrives.)              *)
CopyDelivers ==
  (pc = "argument" /\ call.shared # 0
     /\ {call.seen[1], call.seen[2]} \cap ram.free = {}) =>
    call.got = call.seen

(* task.c:173 "this function can move the data from the process' address   *)
(* space to the kernel address space": any string that the task can read.  *)
StringArrives == (pc = "argument" /\ call.shared # 0) => call.got = call.seen

(* process.c:288 "we need to make the block available for future           *)
(* allocation", process.c:147 "write access not given": no program can     *)
(* write to a frame that is not its own, after FREE and with a .bss too.   *)
WritableAlwaysOwn == pc = "user" => \A p \in Alive : WritesOwn(p)

(* g-loader.c:87 "checking elf signatures, and other flags...", elf.c:31   *)
(* "wont allow program to be loaded anywhere below 0x400000": what runs as *)
(* an ELF file has passed the tests.                                       *)
InvalidElfRejected ==
  \A p \in Alive : proc[p].type = "PROCESS_ELF_FILE" => IsElf(proc[p].file)

(* process.c:117 "if it is, then we load it and leave. otherwise, we treat *)
(* it as a raw binary": only a file that is no ELF file is run as it is.   *)
ElfRunsAsElf ==
  \A p \in Alive : IsElf(proc[p].file) => proc[p].type = "PROCESS_ELF_FILE"

(* paging.c:150 "free every page table one by one", paging.c:157 "free     *)
(* page directory": a space that is destroyed leaves nothing behind.       *)
SpaceIsFreed ==
  [][\A p \in Procs : (p \in Alive /\ proc'[p] = NoProcess) =>
       SpaceFrames(SpaceOf(p)) \subseteq ram'.free]_vars
=============================================================================
