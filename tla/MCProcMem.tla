------------------------------ MODULE MCProcMem ------------------------------
(* The shell and one program, two slots each, three heap blocks; sizes of  *)
(* no, one and two pages.                                                  *)
EXTENDS ProcMem

MCProcesses == {"gshell", "program"}
MCSizes == {0, 3, 5}
=============================================================================
