------------------------------ MODULE KeyFifo ------------------------------
(***************************************************************************)
(* What the keyboard path promises to user programs: each process has an   *)
(* unbounded first-in first-out queue of characters, a key goes to the     *)
(* process that is current when it is struck, and getch takes the oldest   *)
(* character of the caller, or 0 when there is none.                       *)
(***************************************************************************)
EXTENDS Sequences

CONSTANTS Processes, Gshell, Chars, Nothing

VARIABLES
  queue,      \* the unread characters of each process
  running,    \* the current process
  got         \* what the last getch returned

vars == <<queue, running, got>>

Strike(ch) ==
  /\ queue' = [queue EXCEPT ![running] = Append(@, ch)]
  /\ UNCHANGED <<running, got>>

Getch ==
  /\ \/ /\ queue[running] = <<>>
        /\ got' = Nothing
        /\ UNCHANGED queue
     \/ /\ queue[running] # <<>>
        /\ got' = Head(queue[running])
        /\ queue' = [queue EXCEPT ![running] = Tail(@)]
  /\ UNCHANGED running

(* A program is started on an empty queue, whatever the queue of a former  *)
(* program of that name held.                                              *)
Start(p) ==
  /\ running' = p
  /\ queue' = [queue EXCEPT ![p] = <<>>]
  /\ UNCHANGED got

(* A program that ends takes its unread characters with it.                *)
End ==
  /\ queue' = [queue EXCEPT ![running] = <<>>]
  /\ running' = Gshell
  /\ UNCHANGED got

Init ==
  /\ queue = [p \in Processes |-> <<>>]
  /\ running = Gshell
  /\ got = Nothing

Next ==
  \/ \E ch \in Chars : Strike(ch)
  \/ Getch
  \/ \E p \in Processes \ {Gshell} : Start(p)
  \/ running # Gshell /\ End

Spec == Init /\ [][Next]_vars
=============================================================================
