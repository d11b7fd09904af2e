------------------------------- MODULE MCHeap -------------------------------
(* Six blocks of four bytes; the word is small enough that the round-up of *)
(* the largest size wraps.                                                 *)
EXTENDS Heap

MCSizes == {0, 1, 4, 5, 9, 16, 62}
=============================================================================
