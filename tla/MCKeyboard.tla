----------------------------- MODULE MCKeyboard -----------------------------
(* The shell and one program, every class of scancodes.  The user strikes  *)
(* no key while the buffer is full.                                        *)
EXTENDS Keyboard

MCProcesses == {"gshell", "program"}
=============================================================================
