----------------------------- MODULE Allocator -----------------------------
(***************************************************************************)
(* What the kernel heap promises to its clients, independently of how the  *)
(* block table implements it: kmalloc either fails or hands out a segment  *)
(* of whole blocks that lies in the heap, holds the requested number of    *)
(* bytes and overlaps no segment a client still owns; kfree takes one      *)
(* segment back.  The modules above the heap (Process, ProcMem) use        *)
(* exactly this contract.                                                  *)
(***************************************************************************)
EXTENDS Integers

CONSTANTS
  NumBlocks,       \* the number of blocks of the heap
  Sizes,           \* the sizes, in bytes, that clients ask for
  BlockSize        \* bytes per block

VARIABLE live      \* the segments that clients own

Blocks == 0 .. (NumBlocks - 1)

Span(a) == a.start .. (a.start + a.len - 1)

Segments == [start : Blocks, len : 1 .. NumBlocks, size : Sizes]

Malloc(a) ==
  /\ Span(a) \subseteq Blocks
  /\ a.size <= a.len * BlockSize
  /\ \A b \in live : Span(a) \cap Span(b) = {}
  /\ live' = live \cup {a}

Free(a) == live' = live \ {a}

Init == live = {}

Next == \/ \E a \in Segments : Malloc(a)
        \/ \E a \in live : Free(a)

Spec == Init /\ [][Next]_live
=============================================================================
