---------------------------- MODULE MCDiskStream ----------------------------
(* Sectors of four bytes; reads that begin and end at, before and behind   *)
(* the bounds of sectors, and span up to four of them.                     *)
EXTENDS DiskStream

MCPositions == 0 .. 9
MCReadSizes == 0 .. 13
=============================================================================
