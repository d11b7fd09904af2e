------------------------------- MODULE Console -------------------------------
(***************************************************************************)
(* What is on the screen while the shell talks with its user: the text     *)
(* display drivers/display/vga/vga.c, the system calls PUTCH and GETCH,    *)
(* which echoes, printf and gets of the user library, and the loop of      *)
(* usrspc/gshell/main.c.                                                   *)
(*                                                                         *)
(* A cell holds a character; its colour is left out.  The prompt is "> ",  *)
(* the welcome and the message of a command that fails one character and a *)
(* new line.  The keyboard buffer of the shell is the queue that KeyFifo   *)
(* specifies.                                                              *)
(***************************************************************************)
EXTENDS Integers, Sequences, SequencesExt

CONSTANTS
  VGA_WIDTH, VGA_HEIGHT,
  Rows,               \* rows that the hardware shows; the driver has no name
  CursorModulus,      \* cursor_y is a uint8_t
  Letters,
  CommandSize,        \* the size of the array command in main
  Programs,           \* the paths of the programs on the volume
  MaxKeys,            \* bound: keys struck
  MaxAhead            \* bound: keys struck ahead

VGA_TEXT_BUFFER == 1                   \* any address but 0
BACKSPACE == "bs"
RETURN == "\n"

ASSUME ConsoleAssumption ==
  /\ VGA_WIDTH \in Nat \ {0} /\ Rows \in Nat \ {0}
  /\ {VGA_HEIGHT, CursorModulus, CommandSize} \subseteq Nat
  /\ CursorModulus > 2
  /\ Rows <= VGA_HEIGHT /\ VGA_HEIGHT <= CursorModulus
  /\ {BACKSPACE, RETURN} \cap Letters = {}
  /\ MaxKeys \in Nat /\ MaxAhead \in Nat

VARIABLES
  display,       \* the text buffer, VGA_BASE, cursor_x and cursor_y
  pc,            \* "clear", "init", "boot"; the shell: "print", "gets", "exec"
  out,           \* what printf still has to write
  command,       \* the characters that gets has stored
  shell_buf,
  struck,        \* number of keys struck
  text,          \* history: what the screen is meant to show
  astray         \* history: a backspace at the start of a row, or cursor_y
                 \* has started again at 0

console_vars == <<display, pc, out, command, shell_buf, struck, text, astray>>
-----------------------------------------------------------------------------
Keys == Letters \cup {BACKSPACE, RETURN}
Garbage == "?"
TextCells == 0 .. (CursorModulus * VGA_WIDTH - 1)

NewRow(d) == [d EXCEPT !.cursor_x = 0,
                       !.cursor_y = (@ + 1) % CursorModulus]

(* kputchar for a character that is shown.                                 *)
Put(d, c) ==
  LET written == [d EXCEPT !.cells[d.cursor_y * VGA_WIDTH + d.cursor_x] =
                    IF d.VGA_BASE = 0 THEN @ ELSE c]
  IN  IF d.cursor_x + 1 = VGA_WIDTH
      THEN NewRow(written)
      ELSE [written EXCEPT !.cursor_x = @ + 1]

Left(x) == (x - 1 + VGA_WIDTH) % VGA_WIDTH

BackspaceOnce(d) ==                    \* variant: the cursor stays behind
  IF d.cursor_x = 0 /\ d.cursor_y = 0 THEN d
  ELSE Put([d EXCEPT !.cursor_x = Left(@),
                     !.cursor_y = IF d.cursor_x = 0
                                  THEN (@ - 1) % CursorModulus ELSE @], " ")

(* Writing the blank advances the cursor again, from the last column to    *)
(* the next row.                                                           *)
kbackspace(d) ==
  IF d.cursor_x = 0 /\ d.cursor_y = 0 THEN d
  ELSE LET blanked ==
             Put([d EXCEPT !.cursor_x = Left(@),
                           !.cursor_y = IF d.cursor_x = 0
                                        THEN (@ - 1) % CursorModulus ELSE @],
                 " ")
       IN  [blanked EXCEPT !.cursor_x = Left(@)]

kputchar(d, c) ==
  CASE c = BACKSPACE -> kbackspace(d)
    [] c = RETURN -> NewRow(d)
    [] OTHER -> Put(d, c)

kputs(d, str) ==
  LET put[i \in 0 .. Len(str)] ==
        IF i = 0 THEN d ELSE kputchar(put[i - 1], str[i])
  IN  put[Len(str)]

(* With a null VGA_BASE the blanks go to address 0.                        *)
kclear_display(d) ==
  [d EXCEPT !.cursor_x = 0, !.cursor_y = 0,
            !.cells = [i \in TextCells |->
                         IF d.VGA_BASE # 0 /\ i < VGA_WIDTH * VGA_HEIGHT
                         THEN " " ELSE d.cells[i]]]

vga_init(d) == [d EXCEPT !.VGA_BASE = VGA_TEXT_BUFFER,
                         !.cursor_x = 0, !.cursor_y = 0]
-----------------------------------------------------------------------------
(* What a character does to the text that is meant to be seen.             *)
Typed(t, c) ==
  IF c # BACKSPACE THEN Append(t, c) ELSE IF t = <<>> THEN t ELSE Front(t)

(* A character reaches the display.                                        *)
Show(c) ==
  /\ display' = kputchar(display, c)
  /\ text' = Typed(text, c)
  /\ astray' = (astray \/ display'.cursor_y < display.cursor_y
                       \/ (c = BACKSPACE /\ display.cursor_x = 0
                                         /\ display.cursor_y # 0))

Welcome == <<"g", RETURN>>
Prompt == <<">", " ">>
CouldntOpen == <<"!", RETURN>>

(* kernel_start: the display is cleared before VGA_BASE is set, ...        *)
kernel_start ==
  /\ pc = "clear"
  /\ display' = kclear_display(display)
  /\ pc' = "init"
  /\ UNCHANGED <<out, command, shell_buf, struck, text, astray>>

(* ... the messages of the boot are printed, ...                           *)
BootMessages ==
  /\ pc = "init"
  /\ display' = kputs(vga_init(display), Welcome)
  /\ text' = Welcome
  /\ pc' = "boot"
  /\ UNCHANGED <<out, command, shell_buf, struck, astray>>

(* ... and cleared away for the shell, which starts with gshell_init.      *)
StartShell ==
  /\ pc = "boot"
  /\ display' = kclear_display(display)
  /\ text' = <<>>
  /\ pc' = "print"
  /\ out' = Welcome \o Prompt
  /\ UNCHANGED <<command, shell_buf, struck, astray>>

(* printf: PUTCH for one character after the other.                        *)
printf ==
  /\ pc = "print"
  /\ out # <<>>
  /\ Show(Head(out))
  /\ out' = Tail(out)
  /\ UNCHANGED <<pc, command, shell_buf, struck>>

main_gets ==
  /\ pc = "print"
  /\ out = <<>>
  /\ pc' = "gets"
  /\ command' = <<>>
  /\ UNCHANGED <<display, out, shell_buf, struck, text, astray>>

StrikeKey(c) ==
  /\ pc \in {"print", "gets", "exec"}
  /\ struck < MaxKeys
  /\ Len(shell_buf) < MaxAhead
  /\ shell_buf' = Append(shell_buf, c)
  /\ struck' = struck + 1
  /\ UNCHANGED <<display, pc, out, command, text, astray>>

(* mov [ebx], eax stores the key as four bytes.                            *)
StoreFits == Len(command) + 4 <= CommandSize

AfterKey(c) ==
  CASE ~StoreFits -> "overrun"
    [] StoreFits /\ c = RETURN -> "exec"
    [] OTHER -> "gets"

GetsWithoutEcho ==                     \* variant: PRINT_KEYBOARD_INP off
  /\ pc = "gets"
  /\ shell_buf # <<>>
  /\ command' = Append(command, Head(shell_buf))
  /\ pc' = AfterKey(Head(shell_buf))
  /\ shell_buf' = Tail(shell_buf)
  /\ UNCHANGED <<display, out, struck, text, astray>>

(* One key of gets: GETCH takes it from the buffer and echoes it, gets     *)
(* stores it whatever it is, and ends with the return key.  There is no    *)
(* test of the size of command: behind its end the store overwrites the    *)
(* stack of the shell, and nothing is said of what happens then.           *)
gets ==
  /\ pc = "gets"
  /\ shell_buf # <<>>
  /\ Show(Head(shell_buf))
  /\ command' = Append(command, Head(shell_buf))
  /\ pc' = AfterKey(Head(shell_buf))
  /\ shell_buf' = Tail(shell_buf)
  /\ UNCHANGED <<out, struck>>

(* gshell_process_command: a program that starts has the processor.        *)
gshell_process_command ==
  /\ pc = "exec"
  /\ pc' = IF command \in Programs THEN "running" ELSE "print"
  /\ out' = IF command \in Programs THEN <<>> ELSE CouldntOpen \o Prompt
  /\ UNCHANGED <<display, command, shell_buf, struck, text, astray>>

ConsoleInit ==
  /\ display = [cells |-> [i \in TextCells |-> Garbage],
                VGA_BASE |-> 0, cursor_x |-> 0, cursor_y |-> 0]
  /\ pc = "clear"
  /\ out = <<>>
  /\ command = <<>>
  /\ shell_buf = <<>>
  /\ struck = 0
  /\ text = <<>>
  /\ astray = FALSE

ConsoleNext ==
  \/ kernel_start \/ BootMessages \/ StartShell
  \/ printf \/ main_gets \/ gets \/ gshell_process_command
  \/ \E c \in Keys : StrikeKey(c)

ConsoleSpec == ConsoleInit /\ [][ConsoleNext]_console_vars
-----------------------------------------------------------------------------
(* The text set out in rows: where it ends, counted in cells, and what     *)
(* each cell of the screen shows.                                          *)
BlankPage ==
  [end |-> 0, cell |-> [i \in 0 .. (Rows * VGA_WIDTH - 1) |-> " "]]

SetOut(p, c) ==
  IF c = RETURN THEN [p EXCEPT !.end = (@ \div VGA_WIDTH + 1) * VGA_WIDTH]
  ELSE [end |-> p.end + 1,
        cell |-> [i \in DOMAIN p.cell |-> IF i = p.end THEN c ELSE p.cell[i]]]

PageOf(t) ==
  LET page[i \in 0 .. Len(t)] ==
        IF i = 0 THEN BlankPage ELSE SetOut(page[i - 1], t[i])
  IN  page[Len(t)]

Page == PageOf(text)

(* The screen shows the text that the shell printed and the user typed,    *)
(* erased characters gone, and the cursor stands behind it, until a        *)
(* backspace is taken at the start of a row or cursor_y starts again at 0. *)
ScreenShowsText ==
  ~astray =>
    /\ display.cursor_y * VGA_WIDTH + display.cursor_x = Page.end
    /\ pc \in {"print", "gets", "exec"} => \A i \in DOMAIN Page.cell :
                        display.cells[i] = Page.cell[i]

(* kernel.c:49 "clear the screen": when the messages of the boot have been *)
(* printed, the screen shows them and nothing else.                        *)
BootScreenIsClear ==
  pc = "boot" => \A i \in DOMAIN Page.cell : display.cells[i] = Page.cell[i]

(* The line of the prompt for a user who types c: backspaces erase, the    *)
(* prompt too.                                                             *)
Edited(c) ==
  LET line[i \in 0 .. Len(c)] ==
        IF i = 0 THEN Prompt ELSE Typed(line[i - 1], c[i])
  IN  line[Len(c)]

(* When the shell executes a command, the user reads it in the row of the  *)
(* prompt: the keys that gets stored, those struck ahead while the shell   *)
(* printed and no others, with the backspaces among them carried out.      *)
(* Lines of one row that fit into command.                                 *)
CommandIsRead ==
  (pc = "exec" /\ ~astray /\ Page.end < Rows * VGA_WIDTH
     /\ Len(command) + 2 <= VGA_WIDTH) =>
    LET row  == VGA_WIDTH * (display.cursor_y - 1)
        line == Edited(Front(command))
    IN  [i \in 1 .. Len(line) |-> display.cells[row + i - 1]] = line

(* main.c:29 "char command[30]": what gets stores stays in the array.      *)
CommandFits == pc # "overrun"

(* main.c:32 gshell_process_command(command), for what the user reads when *)
(* he has ended the line: no key that was erased is left in the command.   *)
ReadIsExecuted ==
  pc = "exec" => Prompt \o Front(command) = Edited(Front(command))

(* vga.c:19 "current positions on the screen": a backspace never moves the *)
(* cursor forward.                                                         *)
BackspaceGoesBack ==
  [][(pc = "gets" /\ shell_buf # <<>> /\ Head(shell_buf) = BACKSPACE
        /\ command' # command) =>
       display'.cursor_y * VGA_WIDTH + display'.cursor_x
         <= display.cursor_y * VGA_WIDTH + display.cursor_x]_console_vars

(* vga.c:57 "prints char into the screen": the cursor does not leave the   *)
(* rows that are shown, however much is printed.                           *)
CursorOnScreen == display.cursor_y < Rows

(* main.c:16 exec(command): a line that is the path of a program does not  *)
(* end in "couldnt open file".                                             *)
TypedProgramStarts ==
  [][(pc = "exec" /\ Front(command) \in Programs) => pc' = "running"]_console_vars
=============================================================================
