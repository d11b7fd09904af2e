------------------------------ MODULE Keyboard ------------------------------
(***************************************************************************)
(* The path of a key: the PS/2 interrupt handler, the keyboard buffer of   *)
(* the current process, and the GETCH system call that user programs poll. *)
(* (drivers/keyboard, kernel/idt/__0x80/io/io.c, usrspc/lib/stdio)         *)
(*                                                                         *)
(* Handlers and system calls run through interrupt gates, with interrupts  *)
(* disabled, so each one is one action.  head and tail of a buffer are     *)
(* used only modulo its size, and are kept modulo it here.  A scancode is  *)
(* a member of one class per way the handler can treat it.                 *)
(***************************************************************************)
EXTENDS Integers, Sequences

CONSTANTS
  PROCESS_MAX_KEYBOARD_BUFFER_SIZE,
  Processes,       \* process structures
  Gshell,          \* the shell, process_list[0]
  Scancodes,       \* the classes of scancodes that the user produces
  MaxUnread        \* no key is struck when this many cells are unread

AllScancodes == {"released", "caps", "return", "letter", "digit",
                 "unmapped", "beyond_table"}

ASSUME KeyboardAssumption ==
  /\ PROCESS_MAX_KEYBOARD_BUFFER_SIZE \in Nat \ {0}
  /\ Gshell \in Processes
  /\ Scancodes \subseteq AllScancodes
  /\ MaxUnread \in Nat

VARIABLES
  keyboard_buf,      \* the keyboard_buf of every process structure
  current_process,
  caps_lock,         \* ps2.caps_lock
  alive,             \* the process structures in use
  got                \* the value that the last GETCH returned

vars == <<keyboard_buf, current_process, caps_lock, alive, got>>
-----------------------------------------------------------------------------
Cells == 0 .. (PROCESS_MAX_KEYBOARD_BUFFER_SIZE - 1)
NUL == "0"                                     \* an empty cell, no key
Chars == {"A", "a", "1", "newline", "-ERR_INVARG"}

EmptyBuf == [buffer |-> [i \in Cells |-> NUL], head |-> 0, tail |-> 0]

Advance(i) == (i + 1) % PROCESS_MAX_KEYBOARD_BUFFER_SIZE

PopWithoutClearing(kb) ==              \* variant: the cell is not cleared
  IF kb.buffer[kb.head] = NUL THEN kb ELSE [kb EXCEPT !.head = Advance(@)]

(* What keyboard_pop_from_buffer leaves behind, and what it returns.       *)
keyboard_pop_from_buffer(kb) ==
  IF kb.buffer[kb.head] = NUL
  THEN kb
  ELSE [kb EXCEPT !.buffer[kb.head] = NUL, !.head = Advance(@)]

PopResult(kb) == kb.buffer[kb.head]

PushAnything(kb, ch) ==                \* variant: no test of ch
  [kb EXCEPT !.buffer[kb.tail] = ch, !.tail = Advance(@)]

(* There is no test for a full buffer.                                     *)
keyboard_push_to_buffer(kb, ch) ==
  IF ch = NUL
  THEN kb
  ELSE [kb EXCEPT !.buffer[kb.tail] = ch, !.tail = Advance(@)]

(* The number of unread characters in front of head.                       *)
UnreadCount(kb) ==
  CHOOSE n \in 0 .. PROCESS_MAX_KEYBOARD_BUFFER_SIZE :
    /\ \A i \in 0 .. (n - 1) :
         kb.buffer[(kb.head + i) % PROCESS_MAX_KEYBOARD_BUFFER_SIZE] # NUL
    /\ n < PROCESS_MAX_KEYBOARD_BUFFER_SIZE =>
         kb.buffer[(kb.head + n) % PROCESS_MAX_KEYBOARD_BUFFER_SIZE] = NUL

Unread(kb) ==
  [i \in 1 .. UnreadCount(kb) |->
     kb.buffer[(kb.head + i - 1) % PROCESS_MAX_KEYBOARD_BUFFER_SIZE]]
-----------------------------------------------------------------------------
ps2_scancode_to_char(scancode) ==
  CASE scancode = "letter" -> "A"
    [] scancode = "digit" -> "1"            \* and every other printed key
    [] scancode \in {"caps", "unmapped"} -> NUL
    [] scancode = "beyond_table" -> "-ERR_INVARG"

(* The character handed to keyboard_put, given the new state of caps_lock. *)
InputChar(scancode, caps) ==
  IF scancode = "return" THEN "newline"
  ELSE LET ch == ps2_scancode_to_char(scancode)
       IN  IF ~caps /\ ch = "A" THEN "a" ELSE ch

(* The interrupt 0x21: scancode & PS2_KEY_RELEASED returns early.          *)
ps2_interrupt_handler(scancode) ==
  /\ \/ /\ scancode = "released"
        /\ UNCHANGED <<caps_lock, keyboard_buf>>
     \/ /\ scancode # "released"
        /\ caps_lock' = IF scancode = "caps" THEN ~caps_lock ELSE caps_lock
        /\ keyboard_buf' =
             [keyboard_buf EXCEPT ![current_process] =
                keyboard_push_to_buffer(@, InputChar(scancode, caps_lock'))]
  /\ UNCHANGED <<current_process, alive, got>>

GetchForShellOnly ==                   \* variant: others get no answer
  /\ current_process = Gshell
  /\ got' = PopResult(keyboard_buf[Gshell])
  /\ keyboard_buf' = [keyboard_buf EXCEPT ![Gshell] =
                        keyboard_pop_from_buffer(@)]
  /\ UNCHANGED <<current_process, caps_lock, alive>>

(* System call 1, which getch repeats until it returns a character.        *)
GETCH ==
  LET kb == keyboard_buf[current_process]
  IN  /\ got' = PopResult(kb)
      /\ keyboard_buf' = [keyboard_buf EXCEPT ![current_process] =
                            keyboard_pop_from_buffer(kb)]
      /\ UNCHANGED <<current_process, caps_lock, alive>>

ExecOnOldBuffer(p) ==                  \* variant: kmalloc for kzalloc
  /\ p \notin alive
  /\ alive' = alive \cup {p}
  /\ current_process' = p
  /\ UNCHANGED <<keyboard_buf, caps_lock, got>>

(* EXEC succeeds: the structure of the new process comes from kzalloc.     *)
EXEC(p) ==
  /\ p \notin alive
  /\ alive' = alive \cup {p}
  /\ keyboard_buf' = [keyboard_buf EXCEPT ![p] = EmptyBuf]
  /\ current_process' = p
  /\ UNCHANGED <<caps_lock, got>>

(* EXIT: the process is freed and the shell is current again, with the     *)
(* keys that it had not read.                                              *)
EXIT ==
  /\ current_process # Gshell
  /\ alive' = alive \ {current_process}
  /\ current_process' = Gshell
  /\ UNCHANGED <<keyboard_buf, caps_lock, got>>

Init ==
  /\ keyboard_buf = [p \in Processes |-> EmptyBuf]
  /\ current_process = Gshell
  /\ caps_lock = FALSE
  /\ alive = {Gshell}
  /\ got = NUL

Next ==
  \/ /\ UnreadCount(keyboard_buf[current_process]) < MaxUnread
     /\ \E scancode \in Scancodes : ps2_interrupt_handler(scancode)
  \/ GETCH
  \/ \E p \in Processes : EXEC(p)
  \/ EXIT

Spec == Init /\ [][Next]_vars

(* wait_for_key_press repeats GETCH while it returns 0.                    *)
FairSpec == Spec /\ WF_vars(GETCH)
-----------------------------------------------------------------------------
(* Buffers hold characters and the indices stay inside the buffer.         *)
TypeOK ==
  /\ keyboard_buf \in
       [Processes -> [buffer : [Cells -> Chars \cup {NUL}],
                      head : Cells, tail : Cells]]
  /\ current_process \in alive
  /\ caps_lock \in BOOLEAN
  /\ alive \subseteq Processes
  /\ got \in Chars \cup {NUL}

(* The cells that hold a character are exactly those from head up to tail: *)
(* no unread character lies where keyboard_pop_from_buffer stops short of  *)
(* it, which it does at the first empty cell.                              *)
UnreadIsContiguous ==
  \A p \in alive :
    LET kb == keyboard_buf[p]
        n  == UnreadCount(kb)
    IN  /\ kb.tail = (kb.head + n) % PROCESS_MAX_KEYBOARD_BUFFER_SIZE
        /\ \A i \in n .. (PROCESS_MAX_KEYBOARD_BUFFER_SIZE - 1) :
             kb.buffer[(kb.head + i) % PROCESS_MAX_KEYBOARD_BUFFER_SIZE] = NUL

F == INSTANCE KeyFifo WITH
       queue <- [p \in Processes |->
                   IF p \in alive THEN Unread(keyboard_buf[p]) ELSE <<>>],
       running <- current_process,
       Nothing <- NUL

(* Keys reach the process that was current when they were struck, each one *)
(* once and in order, across EXEC and EXIT: the ring buffers implement a   *)
(* queue per process.                                                      *)
KeysInOrder == F!Spec

(* A program that polls GETCH receives what was typed: while a key waits   *)
(* in the buffer of the current process, the oldest one is delivered.      *)
KeyPending(p) == \E i \in Cells : keyboard_buf[p].buffer[i] # NUL

KeysDelivered ==
  \A p \in Processes : \A h \in Cells :
    (current_process = p /\ KeyPending(p) /\ keyboard_buf[p].head = h)
      ~> (current_process # p \/ keyboard_buf[p].head # h)
=============================================================================
