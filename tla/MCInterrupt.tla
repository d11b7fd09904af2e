----------------------------- MODULE MCInterrupt -----------------------------
(* The instance of Interrupt for TLC: the seven system calls, a number     *)
(* without function, and one on each side of the table.                    *)
EXTENDS Interrupt

MCCommands == -1 .. 8
=============================================================================
