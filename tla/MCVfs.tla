------------------------------- MODULE MCVfs -------------------------------
(* Two descriptors; a heap of five segments, which the descriptors lost by *)
(* fclose exhaust; a file of two bytes and a directory.                    *)
EXTENDS Vfs, TLC

CONSTANTS file, dir

MCFiles == {file}
MCDirectories == {dir}
MCsize == file :> 2
SegmentSymmetry == Permutations(Segments)
=============================================================================
