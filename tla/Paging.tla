------------------------------- MODULE Paging -------------------------------
(***************************************************************************)
(* Page directories and page tables: mm/paging/paging.c, as operators on   *)
(* the physical memory that holds them.                                    *)
(*                                                                         *)
(* Memory is a record m: m.free are the frames of the kernel heap that are *)
(* not allocated, m.word the contents of each frame.  A word is what the   *)
(* code stores in directories, tables and the two structures above them:   *)
(* a frame number and flags (an address with its low 12 bits), or, with no *)
(* flags, a pointer to a frame.  Page 0 is memory as well: it is where the *)
(* code writes when it uses a null pointer.                                *)
(*                                                                         *)
(* kzalloc is the first fit that Heap promises, and kfree frees the first  *)
(* block of a segment only, as Heap shows.  A page is a heap block.        *)
(***************************************************************************)
EXTENDS Integers, Sequences, FiniteSets, FiniteSetsExt

CONSTANTS
  PAGE_SIZE,
  PAGE_DIR_ENTRIES,
  PAGE_TABLE_ENTRIES,
  HeapPage               \* the first page of the kernel heap

ASSUME PagingAssumption ==
  /\ PAGE_SIZE \in Nat \ {0}
  /\ PAGE_DIR_ENTRIES \in Nat \ {0}
  /\ PAGE_TABLE_ENTRIES \in Nat \ {0}
  /\ PAGE_DIR_ENTRIES <= PAGE_TABLE_ENTRIES   \* both fill a page of the code
  /\ HeapPage \in Nat \ {0}
  /\ HeapPage < PAGE_DIR_ENTRIES * PAGE_TABLE_ENTRIES

Pages == 0 .. (PAGE_DIR_ENTRIES * PAGE_TABLE_ENTRIES - 1)
HeapFrames == {f \in Pages : f >= HeapPage}
MemoryEnd == PAGE_SIZE * PAGE_DIR_ENTRIES * PAGE_TABLE_ENTRIES
Address(page) == page * PAGE_SIZE
PageOf(address) == address \div PAGE_SIZE

Word(frame, flags) == [frame |-> frame, flags |-> flags]
ZeroFrame == [i \in 0 .. (PAGE_TABLE_ENTRIES - 1) |-> Word(0, {})]
-----------------------------------------------------------------------------
Segment(f, n) == f .. (f + n - 1)

(* The frame that the next kzalloc of n blocks returns, 0 if it fails.     *)
Fit(m, n) ==
  LET fits == {f \in m.free : Segment(f, n) \subseteq m.free}
  IN  IF n = 0 \/ fits = {} THEN 0 ELSE Min(fits)

kzalloc(m, n) ==
  LET f == Fit(m, n)
  IN  IF f = 0 THEN m
      ELSE [free |-> m.free \ Segment(f, n),
            word |-> [g \in Pages |-> IF g \in Segment(f, n) THEN ZeroFrame
                                                             ELSE m.word[g]]]

(* An allocation: its result, and the memory afterwards.                   *)
Alloc(m, n) == [at |-> Fit(m, n), ram |-> kzalloc(m, n)]

kfree(m, f) == [m EXCEPT !.free = @ \cup ({f} \cap HeapFrames)]

address_page_aligned(address) == address % PAGE_SIZE = 0

paging_align_to_page_upper(address) ==
  IF address_page_aligned(address) THEN address
  ELSE (address - (address % PAGE_SIZE) + PAGE_SIZE) % MemoryEnd

paging_align_to_page_lower(address) ==
  IF address_page_aligned(address) THEN address
  ELSE address - (address % PAGE_SIZE)
-----------------------------------------------------------------------------
(* get_page_indices *)
pd_index(vaddr) == vaddr \div (PAGE_SIZE * PAGE_TABLE_ENTRIES)
pt_index(vaddr) == (vaddr % (PAGE_TABLE_ENTRIES * PAGE_SIZE)) \div PAGE_SIZE

(* _vspace->pd, and pd->page_directory_entries                             *)
pd_of(m, space) == m.word[space][0].frame
page_directory_entries(m, pd) == m.word[pd][0].frame
Directory(m, space) == page_directory_entries(m, pd_of(m, space))

map_vaddr_to_val(m, pd, vaddr, val) ==
  IF ~address_page_aligned(vaddr) THEN m
  ELSE LET pt == m.word[page_directory_entries(m, pd)][pd_index(vaddr)].frame
       IN  [m EXCEPT !.word[pt][pt_index(vaddr)] = val]

paging_virt_to_phy(m, space, vaddr) ==
  LET pt == m.word[Directory(m, space)][pd_index(vaddr)].frame
  IN  m.word[pt][pt_index(vaddr)]

(* paging_map_range returns an error ...                                   *)
MapRangeFails(vaddr, paddr, endaddr) ==
  \/ \E a \in {vaddr, paddr, endaddr} : ~address_page_aligned(a)
  \/ endaddr < paddr

(* ... or maps the pages one by one.                                       *)
paging_map_range(m, space, vaddr, paddr, endaddr, flags) ==
  LET total_pages == (endaddr - paddr) \div PAGE_SIZE
      mapped[i \in 0 .. total_pages] ==          \* after i pages
        IF i = 0 THEN m
        ELSE map_vaddr_to_val(mapped[i - 1], pd_of(mapped[i - 1], space),
                              (vaddr + (i - 1) * PAGE_SIZE) % MemoryEnd,
                              Word(PageOf(paddr) + i - 1, flags))
  IN  IF MapRangeFails(vaddr, paddr, endaddr) THEN m ELSE mapped[total_pages]
-----------------------------------------------------------------------------
(* One round of the loop of new_page_directory: a table that maps its      *)
(* pages to themselves.                                                    *)
NewPageTable(m, d, i, flags) ==
  LET t == Fit(m, 1)
      n == [kzalloc(m, 1) EXCEPT !.word[t] =
              [j \in 0 .. (PAGE_TABLE_ENTRIES - 1) |->
                 Word(i * PAGE_TABLE_ENTRIES + j, flags)]]
  IN  [n EXCEPT !.word[d][i] = Word(t, flags \cup {"WRITE"})]

(* The memory with all tables in the entries at d.                         *)
NewPageTables(m, d, flags) ==
  LET made[i \in 0 .. PAGE_DIR_ENTRIES] ==       \* after i tables
        IF i = 0 THEN m ELSE NewPageTable(made[i - 1], d, i - 1, flags)
  IN  made[PAGE_DIR_ENTRIES]

(* No result of kzalloc is tested, here and in the next definition.        *)
new_page_directory(m, flags) ==
  LET d == Alloc(m, 1)
      p == Alloc(NewPageTables(d.ram, d.at, flags), 1)
  IN  [p EXCEPT !.ram.word[p.at][0] = Word(d.at, {})]

create_virtual_address_space(m, flags) ==
  LET s  == Alloc(m, 1)
      pd == new_page_directory(s.ram, flags)
  IN  [at |-> s.at, ram |-> [pd.ram EXCEPT !.word[s.at][0] = Word(pd.at, {})]]

Tables(m, space) ==
  {m.word[Directory(m, space)][i].frame : i \in 0 .. (PAGE_DIR_ENTRIES - 1)}

(* The tables, the page_directory and the vaddr_space are freed; the array *)
(* of the directory's entries is not.                                      *)
destroy_virtual_address_space(m, space) ==
  LET n == [m EXCEPT !.free = @ \cup (Tables(m, space) \cap HeapFrames)]
  IN  kfree(kfree(n, pd_of(m, space)), space)

(* What the processor reads from the tables (external).                    *)
Translate(m, directory, page) ==
  m.word[m.word[directory][page \div PAGE_TABLE_ENTRIES].frame]
    [page % PAGE_TABLE_ENTRIES]
=============================================================================
