----------------------------- MODULE FileTable -----------------------------
(***************************************************************************)
(* What fopen and its companions promise to the loaders: a table of open   *)
(* files.  A descriptor belongs to one open file until it is closed, and   *)
(* a call on a descriptor has no effect on any other.                      *)
(***************************************************************************)
EXTENDS Integers

CONSTANTS Fds, Units, Positions, Closed, Error, SUCCESS

VARIABLES
  table,      \* the file behind each descriptor, and the position in it
  result      \* what the last call returned

vars == <<table, result>>

Open(fd, u) ==
  /\ table[fd] = Closed
  /\ table' = [table EXCEPT ![fd] = [unit |-> u, file_position |-> 0]]
  /\ result' = fd

(* Reading a file and asking for its size leave it where it is.            *)
Use(fd) ==
  /\ table[fd] # Closed
  /\ result' = SUCCESS
  /\ UNCHANGED table

Seek(fd, position) ==
  /\ table[fd] # Closed
  /\ table' = [table EXCEPT ![fd].file_position = position]
  /\ result' = SUCCESS

Close(fd) ==
  /\ table[fd] # Closed
  /\ table' = [table EXCEPT ![fd] = Closed]
  /\ result' = SUCCESS

(* A call that fails changes nothing.                                      *)
Fail ==
  /\ result' = Error
  /\ UNCHANGED table

Init ==
  /\ table = [fd \in Fds |-> Closed]
  /\ result = SUCCESS

Next ==
  \/ \E fd \in Fds :
       \/ \E u \in Units : Open(fd, u)
       \/ Use(fd)
       \/ \E position \in Positions : Seek(fd, position)
       \/ Close(fd)
  \/ Fail

Spec == Init /\ [][Next]_vars
=============================================================================
