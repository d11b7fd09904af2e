--------------------------- MODULE MCAddressSpace ---------------------------
(* The instance of AddressSpace for TLC.  Pages of 2 bytes; page 1 is the  *)
(* kernel, 2 and 3 the user stack, 5 and 6 programs, 7 the stack of the    *)
(* TSS, and the heap begins at page 8.                                     *)
EXTENDS AddressSpace

Phdr(vaddr, offset, filesz, memsz, write) ==
  [p_vaddr |-> vaddr, p_offset |-> offset, p_filesz |-> filesz,
   p_memsz |-> memsz, write |-> write]

Elf(size, phdrs) == [size |-> size, phdrs |-> phdrs, passes |-> ElfTests]

(* Two segments, as the linker script of the programs lays them out.       *)
TwoSegments == Elf(4, <<Phdr(10, 0, 2, 2, FALSE), Phdr(12, 2, 1, 2, TRUE)>>)
(* A segment that begins inside a page and runs into the next one, with a  *)
(* .bss that is there, behind the file.                                    *)
UnalignedBss == Elf(2, <<Phdr(11, 1, 1, 2, TRUE)>>)
(* The end of the segment wraps around.                                    *)
Wraps == Elf(2, <<Phdr(10, 0, 2, 70, FALSE)>>)
(* A raw binary, the first bytes of which are taken for an ELF header.     *)
Raw == [size |-> 2, phdrs |-> <<>>, passes |-> {}]

MCFiles == {TwoSegments, UnalignedBss, Wraps}
MCRawFiles == {TwoSegments, UnalignedBss, Raw}
MCKernelPages == {1, 7}

(* Room for the kernel, the shell, a program and three frames more; or,    *)
(* behind what the kernel and the shell get, two pairs of frames and       *)
(* single ones: behind a stack and an ELF structure, a file of two blocks  *)
(* does not fit, without the ELF structure it does.                        *)
Fragmented == {26, 29} \cup {32 + 2 * i : i \in 0 .. 5}
MCTakenSets == {40 .. 43, Fragmented}

(* Strings on the stack, in the program, in the kernel's memory, and in    *)
(* the page that the shell's first MALLOC gets.                            *)
MCStrings == {2, 5, 20, 25}
(* Less than a page, for which FREE maps two; and two pages.               *)
MCSizes == {1, 3}
(* More than the heap has left: from page 0 on, it covers the program.     *)
MCLargeSizes == {1, 13}
=============================================================================
