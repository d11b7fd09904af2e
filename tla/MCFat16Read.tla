---------------------------- MODULE MCFat16Read ----------------------------
(* Sectors of two bytes, four clusters of four bytes; the table lies in    *)
(* sectors 2 to 7, the root directory in sectors 8 and 9.  Files of up to  *)
(* three clusters, in every order of clusters.                             *)
EXTENDS Fat16Read

MCFileSizes == 1 .. 10
MCFillerWords == {0, 3, 4095, 65535}
=============================================================================
