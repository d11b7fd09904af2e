# A verification project for the gamma kernel

gamma (gammaOS) is a small 32-bit x86 kernel: a boot loader, a heap, paging,
interrupts, a PS/2 keyboard, a VGA text display, a FAT16 file system on an ATA
disk, an ELF loader, processes and a shell. This directory holds TLA+ models
of the parts that keep state, TLC configurations that check them on small
instances, and TLAPS proofs of what matters most. `PROJECT.json` maps every
definition to the lines of C or assembly that it models.

## 1. The system

### Components, their state and their operations

| component | code | state | operations |
|---|---|---|---|
| kernel heap | `mm/heap` | a table of one byte of flags per 4 KB block | `kmalloc`, `kzalloc`, `kfree` |
| paging | `mm/paging` | page directories and tables, `cr3` | create and destroy a space, map a range, translate |
| tasks | `kernel/task/task.c`, `task.s` | `task_list_head`, `task_list_tail`, `cur_task`, links and saved registers of each task | new, close, kill, switch, save, enter |
| processes | `kernel/task/process` | `process_list[16]`, `current_process`, the process structures | `process_new`, `process_kill`, `process_malloc`, `process_free`, back to the shell |
| interrupts, system calls | `kernel/idt` | constant handler tables | general handler, `isr_0x80`, seven system calls |
| keyboard | `drivers/keyboard` | `caps_lock`, a ring buffer in each process | PS/2 interrupt, put, get |
| display | `drivers/display/vga` | cursor, screen memory | put characters, clear, backspace |
| disk | `drivers/disk` | disk table, position of a stream | seek, read |
| VFS, paths | `fs/vfs`, `fs/parser` | `fd_list[1024]`, `fs_list[16]` | fopen, fread, fstat, fseek, fclose |
| FAT16 | `fs/fat16` | header, root directory, streams, file positions | resolve, open, read, stat, seek, close |
| ELF loader | `g-loader` | a loaded file | load, validate, close |
| boot | `boot`, `kernel/kernel.c`, `kernel/gdt` | processor tables | once, at start |
| user space | `usrspc` | programs | `getch`, `gets`, `printf`, `exec`, `malloc`, the shell |

### How they interact

`EXEC` runs through most of the system: the system call enters with
interrupts disabled, saves the registers of the current task, switches to the
kernel's page directory, loads a file through ELF loader, VFS, FAT16 and disk,
takes some thousand heap blocks for the process, its stack, its task and its
page tables, links the task, and enters the new program. `EXIT` undoes the
process and always returns to the shell in slot 0 of the process table, also
when another program had started the one that ends. There is no preemption:
the timer has no handler. A key is put into the buffer of the process that is
current when it is struck; programs poll for it with `GETCH`.

### What is hard about it

* Every gate is an interrupt gate, so handlers do not interleave with each
  other, but they do interleave with user code, and, between `__enable_irq`
  and the first task, with the kernel itself.
* Pointers to freed structures: a task is freed twice, list links and current
  pointers name freed memory for part of a system call.
* `process_new` has six ways to fail, each of which undoes a different part.
* Kernel code runs on page directories of tasks, reads their memory through
  mappings that exist for the time of a copy, and frees page tables near the
  moment at which the processor stops using them.
* Three layouts of the same registers (the processor's frame and `pushad`,
  two C structures, the offsets in `task.s`) must agree.
* Unsigned arithmetic on sizes, block numbers, process ids and file offsets.
* Resources with a fixed limit: heap blocks, process ids, descriptors,
  allocation slots, keyboard cells.
* A program that polls must get its key.

`PROJECT.json` lists these hazards one by one, each at its line, with the
properties that cover it.

### What makes each component correct

* Heap: segments of different clients are disjoint, lie in the heap and are as
  large as asked for; the first fit is found whenever one exists.
* Keyboard: one queue per process; nothing is lost, repeated or reordered.
* Tasks: the list holds exactly the tasks that exist; a task resumes where it
  left.
* Processes: the table, the task list, `current_process`, `cur_task` and
  `cr3` agree whenever user code runs, and the shell can always be found.
* Process memory: slots own disjoint segments, mapped writable.
* Address spaces: no two of them share a table; a program sees its file where
  it was linked, writes to nothing but its own frames, and no translation is
  used after it was changed.
* Interrupts: the interrupted program does not notice; a system call changes
  `eax` alone; a task is resumed with all its registers.
* Display: the screen shows what was printed and typed, in order.
* Disk: a read delivers the bytes behind the position, whatever sectors it
  crosses.
* FAT16: the bytes of a file are those of its chain of clusters; a path finds
  the entry that it names and no other.
* VFS: descriptors are independent of each other; a failing call changes
  nothing.

## 2. Modules

| module | models | used by |
|---|---|---|
| `Allocator` | what the heap promises: an abstract specification | `Heap` refines it, `ProcMem` uses its `Malloc` |
| `Heap` | the block table, `kmalloc`, `kzalloc`, `kfree` | `MCHeap`, `HeapScan`, `HeapProofs` |
| `HeapScan` | the loop of `find_free_entry`, an action per iteration | `HeapProofs` |
| `KeyFifo` | one unbounded queue per process: an abstract specification | `Keyboard` refines it |
| `Keyboard` | PS/2 handler, ring buffers, `GETCH`, and `EXEC`/`EXIT` as far as buffers go | `MCKeyboard`, `KeyboardProofs` |
| `TaskList` | the doubly linked list, as operators and as a component | `Process` |
| `Process` | boot, interrupts, `EXEC`, `EXIT`, the process table, contexts, `cr3` | `MCProcess`, `ProcessProofs` |
| `ProcMem` | `MALLOC`, `FREE`, the slots and page mappings of a process | `MCProcMem`, `ProcMemProofs` |
| `DiskStream` | the recursion of `disk_stream_read`, an action per sector | `MCDiskStream`, `Fat16Proofs` |
| `Fat16Read` | FAT entries, the walk along a chain, `fat16_read_from_disk` | `MCFat16Read`, `Fat16Proofs` |
| `Paging` | page directories and tables, as operators on the memory that holds them | `AddressSpace` |
| `AddressSpace` | the loaders, `process_map_memory`, the directory switches of system calls, `copy_data_from_task_to_kernel`, the mappings of `MALLOC` and `FREE`, the end of a process | `MCAddressSpace`, `AddressSpaceProofs` |
| `Interrupt` | the stubs of `idt.S`, the handlers, `save`, `enter_task`, word by word | `MCInterrupt`, `InterruptProofs` |
| `Console` | the VGA driver, `PUTCH` and the echo of `GETCH`, `printf`, `gets`, the loop of the shell | `MCConsole`, `KeyboardProofs` |
| `Parser` | `parse_path`, an action per unit | `Fat16Dir`, `Fat16Proofs` |
| `Fat16Dir` | counting and searching directories, `fat16_get_unit`, for the units that `Parser` makes of a path | `MCFat16Dir`, `Fat16Proofs` |
| `FileTable` | a table of independent open files: an abstract specification | `Vfs` refines it |
| `Vfs` | `fd_list`, fopen, fread, fstat, fseek, fclose down to the descriptors of FAT16 | `MCVfs`, `VfsProofs` |
| `*Proofs` | invariants, lemmas and theorems about the modules that name them in this column (section 4) | |

Definitions keep the names of the code: `find_free_entry`, `task_list_delete`,
`process_kill`, `ps2_interrupt_handler`. A system call is written in capitals
(`EXEC`, `EXIT`, `GETCH`). A definition with the comment `variant:` is not part
of the model: it is a plausible mistake in the definition that follows it, and
shows that a property would notice the mistake.

### Correspondence of state

* `Heap.entries` is `_heap->entry_table->entries`; a byte of flags is the set
  of its flags. `live` and `freed` are history: who owns what, and the segment
  that may legitimately be freed a second time.
* `TaskList.tl` is the record of the three global pointers and of the two link
  fields of every task; a link of a freed task keeps its value, as in memory.
* `Process`: `process_list`, `current_process`, `proc` (the `pid` and `task`
  fields), `registers` (in each task), `cr3`, `cpu` (the context on the
  processor), `open_fds` (used entries of `fd_list`), and the history `left`,
  the context in which a task last left the processor. `phase` is the position
  of `kernel_start`, then `"user"`.
* `Keyboard`: `keyboard_buf`, `caps_lock`, `current_process`.
* `ProcMem`: `mem_allocations`, `mem_allocations_size`, the pages `writable`
  in each space, `live` heap segments, and `hung`: the kernel repeats a
  division by zero for ever, since the handler of exception 0 returns to it.

* `DiskStream`: `streamer_pos`, and the arguments of the innermost call
  (`bytes_to_read`, what has gone to `read_buffer`). `from`, `size` and
  `sectors` are history.
* `Fat16Read`: the disk (`chain`, `file_size`, `filler`) never changes;
  `offset`, `size` and `out` are the arguments of the recursion.
* `Parser`: `path` is the argument, `__path` the rest of it, `units` the list
  that grows, `parsing` the position in `parse_path`.
* `Fat16Dir`: `root` and `sub` are the directories on the disk;
  `current_unit` and `next_path_unit` are the variables of `fat16_get_unit`.
  `no_memory` says that an allocation for the entry at hand has failed: there
  is no unit, or its directory or file is null.
* `AddressSpace`: `ram` is the memory (`ram.free`: frames of the heap that are
  not allocated, `ram.word`: the contents of each frame, with the directory
  entries, table entries and pointers that the code stores there), `cr3` the
  frame of the loaded directory, `tlb` the translations that the processor may
  have cached since it was loaded, `proc` the frames of each process with its
  slots of allocations, `call` the system call in progress with what it has
  read so far. `freed` of a process is history: it has called `FREE`.
* `Interrupt`: `cpu` are the registers of the processor, `kstack` the kernel
  stack from its top, `registers` the words of `struct reg` of each task.
  `before` and `left` are history: the registers that an interrupt met, and
  those with which a task left the processor.
* `Console`: `display` is the text buffer with `VGA_BASE`, `cursor_x` and
  `cursor_y`; `out` what `printf` still has to write, `command` what `gets`
  has stored. `pc = "overrun"`: a key was stored behind the end of the array
  `command`, and nothing is said about what follows. `text` and `astray` are
  history: what the screen should show, and whether one of the two known
  deviations of the cursor has happened.
* `Vfs`: `fd_list` and the segments of the heap that hold the two levels of
  descriptors. A `file_descriptor` that fclose forgets stays in the heap.
  `wild` says that a function of a null file system has been called; nothing
  is said about what follows.

### Abstractions

* A byte of the disk is named by its address, so a read returns addresses and
  is right if they are the ones of the file. `Fat16Read` uses of the stream
  what `DiskStream` shows of it: it delivers the bytes behind its position.
* A volume in `Fat16Read` holds one file; a word outside of the file
  allocation table has one of a few values (`FillerWords`). A volume in
  `Fat16Dir` has a root and one subdirectory, without "." and "..".
* A path in `Vfs` is what it leads to: a unit, nothing, a drive without a file
  system, or no drive. `Fat16Dir` says when a path leads to a unit.

* In `Process` a processor context is a token; `Interrupt` opens it: a value
  there is the name of a register and of the moment at which user code set it.
  A scancode is one of the seven classes that the handler tells apart; an
  address in `ProcMem` is a page number.
* `kzalloc` may fail at every call in `Process` and `ProcMem`. Blocks that a
  failing or incomplete free leaves behind are not tracked there; all that is
  left of them is that later calls may fail. `ProcMem` frees the whole of a
  segment, where the code frees its first block only: every reuse that the
  code can make is still possible.
* `head` and `tail` of a keyboard buffer are kept modulo its size; the code
  reduces them at each use (they would overflow after 2^31 keys).
* In `Process` a failed allocation in `create_virtual_address_space` fails
  cleanly. `AddressSpace` follows the code: with `NullPointers = TRUE` the
  tables of a task, and what `MALLOC` maps, lie at address 0 when the heap is
  exhausted.
* In `AddressSpace` a page is a heap block, and a structure is one block. A
  byte of a program is named by its address in the buffer of the file, a
  string by the two frames it may lie in, or by 0 where the `memset` of
  `kzalloc` has erased it. The sizes of `MALLOC` do not wrap there (they do in
  `Heap`), `FREE` of a null pointer is in `ProcMem`, and `FREE` gives back one
  block, as `kfree` does. A file is its size and its program
  headers; whether it passes the six tests of `elf.c` is a set of tests. The
  caller of `EXEC` may be any program in the shell's place: the name that the
  shell itself passes always ends in a newline (`TypedProgramStarts`), so with
  the shell alone no other program would ever start.
* Names in `Parser` and `Fat16Dir` have one character, and upper and lower
  case (`tolower` in `strncmp`) are not told apart.
* A cell in `Console` has no colour; the welcome and the error message are one
  character and a new line. The keyboard buffer there is the queue of
  `KeyFifo`, which `Keyboard` refines.

## 3. Runs

| run | what it shows | bounds |
|---|---|---|
| `heap` | the table keeps segments apart and implements `Allocator` | 6 blocks of 4 bytes, a word of 64; sizes of 0, 1, 2, 3, 4 blocks and one whose round-up wraps |
| `heap_scan` | the scan loop ends and computes the first fit | every table of 6 blocks, every request of 0 to 7 blocks |
| `keyboard` | the ring buffers are queues; keys are delivered | 2 processes, 2 cells, every class of scancodes, no key into a full buffer (`MaxUnread`) |
| `process` | the views of what runs agree; contexts are resumed | 3 processes, 4 task structures, 2 user contexts, 2 descriptors |
| `proc_mem` | slots own segments and are writable | 2 processes, 2 slots, 3 heap blocks, sizes of 0, 1, 2 pages |
| `disk_stream` | reads deliver the right bytes and return | sectors of 4 bytes, reads of 0 to 13 bytes from positions up to 20 |
| `fat_read` | a read fills its buffer and ends; files of one cluster are right | 4 clusters of 4 bytes, files of 1 to 10 bytes, every placement, 4 filler words |
| `fat_dir` | a path is split at its slashes; the search ends and never finds the wrong entry | every pair of directories of up to 2 entries with 2 names, paths with and without a drive and up to 5 characters behind it, any allocation failing |
| `vfs` | the descriptors implement `FileTable` | 2 descriptors, 5 heap segments, a file of 2 bytes, a directory, words of 3 values |
| `address_space` | spaces share no table, programs see their file and their `.bss` and write their own memory, through `MALLOC` and `FREE`; strings arrive, no stale translation | 44 pages of 2 bytes, 2 tables per directory, 2 processes with 1 slot, allocations of one and of two pages, 3 programs (two segments; unaligned with a `.bss` behind the file; wrapping), 2 states of the heap, strings on the stack, in the program, in the kernel and in an allocated page |
| `interrupt` | registers survive interrupts, calls and switches | 3 tasks, 2 codes, exceptions, timer and keyboard, system call numbers -1 to 8 |
| `console` | the screen shows what was printed and typed; what the user reads is the command with its backspaces carried out | 5 columns, 5 visible rows, a command of 8 bytes, 6 keys of which 2 may be struck ahead |

Why the bounds are enough: six blocks hold a first fit with a too short run
before it and an allocated segment behind it; a two-cell ring wraps; four
tasks have a head, a tail and two in the middle, and the fourth lets freed
memory be reused or left alone; three processes are a shell, a program that it
started and one that the program started; two descriptors run out. A read of
13 bytes from any offset touches four sectors and one of 4 the end of one; a
file of 10 bytes has a first, a middle and a last cluster; two entries have
a deleted one before or behind the other; five characters hold two units with
a doubled or a trailing slash; five segments run out after three opened and
closed files. In the fragmented heap of `address_space` an ELF file does not
fit where the same file as a raw binary does; a program leaves three frames of
the other heap, so that the next one reuses the freed frames for its tables and
its stack; the theorems of section 4 cover any number of processes. Three tasks are left and entered
in every order. Five columns break the longest line of the user, and the
prompts of six keys reach the last row; the sixth key of a line overruns the
eight bytes, as the 28th does the thirty of the code, whose longest command
fits into a row of eighty columns. In `address_space` one slot is enough for an
allocation to be freed and made again, at the frame that was freed and mapped
before; an allocation of one byte is one for which `FREE` maps two pages.
`Segments` of `vfs` are symmetric: no
formula tells them apart.

### Known deviations

What follows are statements that the code makes about itself and that TLC
finds violated; each turns into a passing one when the code is corrected. Where
the configuration is that of a run, take its constants and put the property in
the place of the ones it lists; the others are kept beside the runs. With
several properties, `tlc -continue` reports them all. `MCTaskList.cfg` passes:
it exercises the operators of `TaskList` on their own, with deletions in any
order, which `process` does not need.

| configuration, module | property | the code says | what happens |
|---|---|---|---|
| `MCHeap.cfg`, `MCHeap` | `FreeReleasesSegment` | `free` deallocates the segment (heap.c:57) | only its first block is freed |
| `KeyboardOverrun.cfg`, `MCKeyboard` | `KeysDelivered` | `getch` takes one character (stdio.s:63) | after an overrun, keys wait behind an empty cell |
| `MCProcMem.cfg`, `MCProcMem` | `FreeReturns` | `process_free` returns NULL (process.c:305) | it divides by zero |
| `MCProcMem.cfg`, `MCProcMem` | `KillFreesAllocations` | `process_kill` frees all data (process.c:319) | it frees none |
| `MCDiskStream.cfg`, `MCDiskStream` | `NoExtraSector` | the next sector is read if the read leaves the current one (disk.c:80) | also if it ends with it |
| `MCFat16Read.cfg`, `MCFat16Read` | `FileRead` | the cluster is the one of the offset (fat16.c:233, 246) | the table is read at a product, and the offset counts twice |
| `MCFat16Dir.cfg`, `MCFat16Dir` | `EveryFileFound` | the count is that of the files (fat16.c:141) | it is used as the number of entries: the last files are not found |
| `MCFat16Dir.cfg`, `MCFat16Dir` | `FoundHasItsFile` | a unit for a file has a copy of it (fat16.c:428) | without memory the copy is null, and the unit is returned |
| `MCVfs.cfg`, `MCVfs` | `PositionInFile` | a seek out of the file is refused (fat16.c:619) | a relative one is not |
| `MCVfs.cfg`, `MCVfs` | `DirectoryReadFails` | a directory cannot be read (fat16.c:557) | fread reports success |
| `MCVfs.cfg`, `MCVfs` | `BadPathNotRead` | 0 means that a path could not be parsed (parser.c:74) | fopen reads through it |
| `ProcessDeviations.cfg`, `MCProcess` | `NoSlotBeyondTable` | `process_new` fails without a pid (process.c:205) | the error value, truncated to 16 bits, is used as an index |
| `ProcessDeviations.cfg`, `MCProcess` | `SwitchRestoresContext` | the first task runs the shell (kernel.c:132) | a key during boot replaces the shell's context by the kernel's |
| `SpaceDeviations.cfg`, `MCAddressSpace` | `InvalidElfRejected` | signatures and flags are checked (g-loader.c:87, elf.c:31) | the result of the tests is dropped |
| `MCAddressSpace.cfg`, `MCAddressSpace` | `ElfRunsAsElf` | what is no ELF file is a raw binary (process.c:117) | an ELF file for which memory is short is run as one, from its headers on |
| `SpaceDeviations.cfg`, `MCAddressSpace` | `StringArrives` | the data of the task are moved to the kernel (task.c:173) | a string in a freed allocation is erased with the shared page |
| `SpaceDeviations.cfg`, `MCAddressSpace` | `WritableAlwaysOwn` | freed blocks are available again (process.c:288), write access is given to segments (process.c:147) | the program keeps, and gets, the freed pages writable; so is a `.bss` behind the file, in memory of others |
| `SpaceNoMemory.cfg`, `MCAddressSpace` | `SpacesOwnTables` | a task without a space is not created (task.c:57) | tables that do not fit lie at address 0 |
| `SpaceNoMemory.cfg`, `MCAddressSpace` | `ProgramVisible`, `WritableIsOwn` | `process_malloc` returns NULL if it found no allocation (process.c:275) | a failed `kzalloc` maps the pages from 0 on to themselves, writable: kernel and program |
| `SpaceDeviations.cfg`, `MCAddressSpace` | `SpaceIsFreed` | tables and directory are freed (paging.c:150, 157) | the array of the directory's entries is not |
| `ErrorCode.cfg`, `MCInterrupt` | `ExceptionReturns` | undefined interrupts do no harm (idt.c:64) | `iret` takes the error code for the return address |
| `MCConsole.cfg`, `MCConsole` | `BootScreenIsClear` | the screen is cleared (kernel.c:49) | `VGA_BASE` is still 0: the blanks go to address 0 |
| `MCConsole.cfg`, `MCConsole` | `CursorOnScreen` | characters go to the screen (vga.c:57) | below the last row they do not |
| `MCConsole.cfg`, `MCConsole` | `BackspaceGoesBack` | the cursor is the position on the screen (vga.c:19) | a backspace at column 0 moves it forward |
| `MCConsole.cfg`, `MCConsole` | `TypedProgramStarts` | the command is executed (main.c:16) | `gets` keeps the newline: no program has that name |
| `MCConsole.cfg`, `MCConsole` | `ReadIsExecuted` | what was typed is executed (main.c:32) | erased keys and the backspaces stay in the command |
| `MCConsole.cfg`, `MCConsole` | `CommandFits` | a command has 30 bytes (main.c:29) | `gets` knows no limit and writes on behind them |
| `MCTaskList.cfg`, `TaskList` | `ListHoldsTheTasks`, `PrevInvertsNext` | | holds |

`process` excludes what `ProcessDeviations.cfg` shows: no key before the shell
runs (`KeyDuringBoot = FALSE`), no more programs than pids
(`MaxLive`). `keyboard` excludes the overrun (`MaxUnread`) of
`KeyboardOverrun.cfg`; `address_space` programs whose tables
would run out of memory and allocations that fail (`NullPointers = FALSE`);
`interrupt` the exceptions with an error code (`Vectors`). In `console` the
invariants say nothing after a backspace over the start of a row (`astray`), of
the rows below the screen, and after an overrun of `command`. `WritableIsOwn`
says nothing of a program that has called `FREE` or has a writable `.bss`
behind its file, and `CopyDelivers` nothing of a string in a free frame.

### Fairness

* `Keyboard`: weak fairness of `GETCH`, which `wait_for_key_press` repeats
  while it returns 0. Nothing is assumed of keys or of `EXEC` and `EXIT`.
* `HeapScan`, `DiskStream`, `Fat16Read`, `Fat16Dir`: weak fairness of the
  loop or recursion; it runs with interrupts disabled. In `DiskStream` nothing
  is assumed of the callers.

`heap_scan`, `fat_read` and `fat_dir` turn deadlock checking off, because the
modelled function returns and the model ends with it; so does `console`, whose
user stops after `MaxKeys` keys. In `vfs` and `proc_mem` a kernel that has
stopped (`wild`, `hung`) repeats its state.

## 4. Proofs

`HeapProofs` proves, for every number and size of blocks, base address, width
of the word and set of sizes that satisfy `HeapAssumption` (the block size
divides base and word, the heap lies in the word):

* `HeapTypeSafety`, `HeapNoOverlap`, `HeapLiveMarked`: `Spec => []...`;
* `HeapImplementsAllocator`: `Spec => AllocatorSpec`.

The inductive invariant is `TypeOK /\ NoOverlap /\ LiveMarked /\ FreedNotLive`.
`NoOverlap` alone is not inductive: that a new segment meets no owned one
follows from the table only if owned segments are marked in it (`LiveMarked`),
and they stay marked under a second `kfree` only if the segment freed twice
begins in no owned one (`FreedNotLive`). The arithmetic is in lemmas of its
own: `AddressBlock` (an address in the first block of a segment divides back
to that block), `NullOutside` (the null pointer divides to a block beyond the
table), `RoundUp` (a nonzero rounded size holds the size).

It also proves `ScanComputesFirstFit`: for every table and request
the loop of `find_free_entry` returns what `Heap` assumes of it. The loop
invariant `ScanLoopInv` says that the current run is maximal to the left and
that no fit ends before the current block.

`Fat16Proofs` proves `DiskTypeSafety`, `DiskPrefixRead` and
`DiskReadDelivers` for every sector size and every set of positions and
lengths. The invariant is `TypeOK /\ PrefixRead`: `ReadDelivers` speaks of
calls that have returned only, so it needs what holds between the levels of
the recursion. The lemmas are one per idea of the code: `SectorFacts` (sector
and offset locate the position), `TakenFacts` (a level takes what the sector
has left), `CopiedFacts` (which bytes those are), `AppendBytes` (they continue
what is in the buffer).

The second part of that module is about the file above the stream,
`Fat16Read`: `FileBufferFilled` and `FileOneClusterRead`, for every geometry of
the volume, every file and every order of its clusters. The invariant `FileInv`
adds that the offset is 0, or a cluster or more, or nothing is left to read:
a file of one cluster is read in one level, at offset 0, where the walk does
not look at the table (`FirstCluster`) and the address does not wrap
(`AddressFacts`). `FileBufferFilled` uses nothing of what the walk returns.

Its third part is about names, for every alphabet, every directory and paths
of every length:

* `UnitsAreTheSplitHolds`: the units of a parsed path are the text behind the
  drive, cut at its slashes. The invariant of the loop of `parse_path`,
  `ParseInv`, says that the units taken so far, joined by slashes, and the
  rest are the text (`Splits`), and that no unit holds a slash.
* `NeverTheWrongFileHolds` and `FoundWithoutDeletionsHolds`: what
  `fat16_get_unit` returns is the entry that the path names, whichever
  allocation fails, and it is found if no entry was deleted and none fails. `SearchInv` says of the walk along the units that
  every unit before `next_path_unit` was found and is a directory, but for the
  last, which is the entry at hand, or nothing for want of memory. A path without doubled or trailing slashes
  is compared with the names that a user means by it (`NamesIn`); `ParseInv`
  therefore carries how far the parser is in such a text.

`Joined` and `NamesIn` are recursive functions, of which the lemmas say what a
unit more does to them (`JoinedAppend`, `NamesInAppend`).

`KeyboardProofs` proves `KeyboardTypeSafety` without any assumption, and,
as long as no buffer is overrun (`NoOverrun`: `MaxUnread` is at most the size
of a buffer), `KeyboardContiguous` and the refinement `KeyboardImplementsFifo`
for every buffer size and number of processes. Emptiness is known to the code
from one cell only, so the invariant (`Rings`) says for each process where the
unread characters lie: a number n of them, from `head` to `tail` around the
ring, and every other cell is empty. The refinement maps that stretch of the
ring to a sequence; a push appends to it and a pop takes its head because both
move one end by one cell modulo the size. What happens without `NoOverrun` is
the deviation of `KeyboardOverrun.cfg`.

The second half of that module is about `Console`: `ScreenShowsTextHolds` and
`CommandIsReadHolds`, for every size of the screen, every alphabet, every set
of programs and any number of keys, struck at any time.

* `ScreenInv` says that the cursor stands where the text ends and, once the
  shell runs, that every cell of the screen is that of the page on which the
  text is set out. `ScreenShowsText` is inductive only with the type of the
  display, with the cursor at 0 until `vga_init`, and with a `VGA_BASE` that
  is set before the first character. The lemma about a character,
  `KputcharPage`, has the three cases of `kputchar`. For a backspace the page
  of the shorter text must be known to be blank behind its end (`Pages`), and
  the erased character not to be a new line, since the cursor is not in the
  first column.
* `LineInv` is for the command: what `printf` has still to write ends with the
  prompt in a row of its own, the row of the cursor holds the written part of
  the prompt and then what `gets` has stored, with its backspaces carried out
  (`Edited`, `TypedLine`), and the return key leaves that line in the row
  above. A key struck ahead is echoed only when `gets` takes it, so it cannot
  come before the prompt.

`PageOf`, `kputs` and `Edited` are recursive functions (`PageAppend`,
`KputsTwo`, `EditedAppend`). Both theorems say nothing of a cursor that has gone
astray, as the properties do, and the second nothing of a command that overran
its array: the shell never executes it in the model.

`ProcessProofs` proves, for any number of processes, tasks and contexts:
`ProcessTypeSafety`, `ProcessRunningAgrees`, `ProcessShellInSlot0`,
`ProcessRunningIsShellOrTail` and `ProcessListMatches` without further
assumptions, hence also with a full process table and with keys during boot;
`ProcessTableMatches` if there are never more processes than entries of
`process_list`; and the action property `ProcessSwitchRestores` if no key is
struck before the shell runs. The last two hypotheses exclude exactly what
`ProcessDeviations.cfg` shows. The core of the invariant (`CoreInv`) is
`TasksChained`: the live tasks, numbered from the head, are linked forwards
and backwards, the stale links of freed and deleted ones left out. It makes
`task_list_delete` of the tail computable, which is all that `EXIT` ever
does, because what runs is the shell or the tail. `ListMatches` is stated with
the walk along `next`, a recursive function; the proof shows by induction on
its steps that it visits the numbers in order.

`ProcMemProofs` proves `MemTypeSafety`, `MemSlotsOwnSegments`,
`MemAllocationsWritable` and the action property `MemOthersKeepSegments` for
every heap, page size, number of slots and set of sizes. The invariant
(`MemInv`) adds to the two state properties that the segments of the heap
begin at different pages (`LiveApart`): a base names one segment, so that
`process_free` gives back the one whose slot it clears.

`VfsProofs` proves `VfsTypeSafety`, `VfsDescriptorsOwnFiles`, the action
property `VfsOnlyFailedOpenLoses` and the refinement `VfsImplementsFileTable`
for any number of descriptors and segments. `TypeOK /\ DescriptorsOwnFiles` is
inductive as it stands; what remains is that each call touches one descriptor
(`OpensAt`, `SeeksAt`, `ClosesAt`), from which the refinement follows call by
call.

`InterruptProofs` proves the three action properties of `Interrupt`,
`IntTransparent`, `IntSyscallReturns` and `IntSwitchResumes`, for any tasks,
codes and vectors that push no error code (`NoErrorCode`; the others are the
deviation of `ErrorCode.cfg`). They speak of the moment at which a stub
returns or a task is entered; the invariant `IntInv` says in between which
word of the stack and of each `struct reg` holds which register.

`AddressSpaceProofs` is about page tables in the memory that holds them, for
every size of pages, tables and memory, every set of files and every set of
frames that others hold. Its inductive invariant is in three parts.

* `SpaceInv` needs one hypothesis, `~NullPointers`: no program is started whose
  tables would run out of memory, and no `MALLOC` fails (the deviations of
  `SpaceNoMemory.cfg`). It says that each address space consists of
  `PAGE_DIR_ENTRIES + 3` distinct frames of the heap, that spaces, programs with
  their allocations, free frames and the page shared during a copy are disjoint
  (`SpacesApart`, `SharedApart`), and what `cr3` and the cached translations are
  (`Loaded`). From it follow `SpaceOwnTables` and `SpaceTlbFresh`.
  `SpacesOwnTables` is not inductive without the frames that a process holds
  beside its space: `process_kill` frees those as well; and `FREE` leaves the
  frames of the other slots alone only because no slot begins in the segment of
  another (`SlotsApart`).
* `UserInv` needs `UserMemory` too: segments with their `.bss`, raw programs and
  the stack are linked to pages that are neither the kernel's nor the heap's,
  and segments begin in the blocks of their file, at addresses congruent to
  their offsets. `process_map_elf` tests none of this. A `.bss` may reach behind
  the file, as the linker script lets it, as long as it belongs to a segment
  that begins in it. `UserInv` says that every entry of every table leaves the
  kernel in its place and, in a program that has not called `FREE` and whose
  writable segments end in its file (`Contained`), is writable only for a frame
  of that program or of its allocations, except the entry of the shared page
  while a copy is in progress, whose saved value is such an entry
  (`EntriesFine`), and what the call in progress has read (`CopyFaithful`). What
  `MALLOC` and `FREE` change is one process and entries of heap pages in its own
  space, mapped to themselves (`Traded`). From `UserInv` follow
  `SpaceKernelIdentity`, `SpaceWritableIsOwn` and `SpaceCopyDelivers`. In the
  run the programs with two segments and with a `.bss` satisfy `UserMemory`; the
  one that wraps does not, and is TLC's alone.
* `LayoutInv` needs `ProgramLayout`: `UserMemory`, and that nothing is mapped
  over a program. The stack lies elsewhere, two segments that meet in a page
  have the same part of the file there, and raw programs begin on a page.
  Without it `process_map_elf` and the mapping of the stack overwrite what was
  mapped before. It says of each page of a segment, its `.bss` included, and of
  a raw program which frame behind the data of the file, and of each page of the
  stack which frame of the stack its entry has (`Right`). A program is mapped so
  when it is started; what is mapped later are pages of the heap, by
  `copy_data_from_task_to_kernel`, `MALLOC` and `FREE`. This is where
  `~NullPointers` is needed once more: a `MALLOC` that fails maps user pages.
  From it follows `SpaceProgramVisible`. It states `ProgramVisible` for the
  processes that exist: a file with a segment whose mapping fails never becomes
  one. `ProgramLayout` holds of the programs named above and of the raw one.

The bulk of the module are lemmas about the operators of `Paging`:
`CreateFacts` (a new space takes free frames and maps every page to itself),
`MapOne` and `MapRange` (a mapping changes the entries of its pages in the
tables of one space), `MapRangeAll` and `MapElfAll` (every page of a range and
of every segment is mapped, whatever is mapped after it), `AlignLower` and `AlignUpper` (rounding of addresses,
wrapped at the end of memory), `NewStarted` (what `process_new` uses and
returns on each of its paths), `KillFacts` (what `process_kill` frees).

What these proofs assume is the named `ASSUME` of each module, which TLC
evaluates on every run, and the hypotheses named above. `HeapTypeSafety`,
`DiskPrefixRead`, `ProcessShellInSlot0` and the type theorems other than
`DiskTypeSafety` state parts of the invariants that no run checks on its own;
the other theorems state properties of the runs.

Loops and recursive functions are reasoned about by induction on naturals. The
induction rules of the library have an operator as a parameter, which the
provers cannot instantiate; the proofs use instead that a nonempty set of
naturals has a least element (`LeastNatural`, from the well-foundedness of <),
with the predicate given as a set (`UpTo`), and that a function defined by
recursion exists (`RecursionExists`).

Every invariant of the runs is stated by a theorem. Only model-checked is
liveness (`ScanReturns`, `KeysDelivered`, `ReadReturns`, `ReadEnds`,
`LookupEnds`), which is out of the prover's reach.

## 5. Plan

1. Done: heap, keyboard, tasks, processes, process memory, disk streams, FAT16
   reads and directories, descriptors; page tables, address spaces and the ELF
   loader; interrupt frames and register layouts; the path parser; the display
   and the dialogue of the shell.
2. Proofs. Done: the modules of section 4, with every invariant of the runs.
3. Composition: what a loader gets from `fread` over `Vfs` and `Fat16Read`.

### Not modelled

* The boot sector and the assembly entry, GDT and TSS, the interrupt tables:
  constant tables and processor setup, written once, without alternatives.
* `fat16_resolve`, `vfs_attach`, `vfs_resolve`, `disk_init`: they run once at
  boot, for one disk and one file system.
* Port I/O and the ATA protocol: pure I/O; a sector arrives in one step.
* String and memory routines, of the kernel and of the user library: stateless
  loops over bytes. What their callers rely on is part of the callers' modules
  (`strncpy` in `CopyRead`, `strcpy` and `strlen` in `Parser`).
* `kprint_int`, `kprintf_wc`, `keyboard_backspace`, `next_task` and the section
  headers of ELF files: never called or used.
* The memory that `parse_path` and the directory search lose (the units of a
  path, the directory of fat16.c:382 whose entries do not fit): no statement of
  the code is about it, and `Process` lets every allocation fail. The
  allocations of the search itself fail in `Fat16Dir`; those of the parser
  succeed in `Parser`.
* The contents of memory that the code reads uninitialised: the stack buffer
  behind a string that `strncpy` did not terminate, and after a copy that
  failed.
