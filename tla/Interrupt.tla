------------------------------ MODULE Interrupt ------------------------------
(***************************************************************************)
(* Registers across interrupts, system calls and task switches: the words  *)
(* that the processor, the stubs of idt.S, the C structures interrupt_frame*)
(* and reg, and enter_task of task.s agree on, or not.                     *)
(* (kernel/idt, kernel/task/task.c, kernel/task/task.s)                    *)
(*                                                                         *)
(* A value is a pair <<register, n>>: user code number n of a task has the *)
(* value <<r, n>> in every register r, so that a register with the value   *)
(* of another one, or of another moment, is told apart.  The stack is a    *)
(* sequence, its top first; entering from ring 3 starts at esp0 of the     *)
(* TSS.  Interrupt gates keep interrupts off until iret.                   *)
(***************************************************************************)
EXTENDS Integers, Sequences

CONSTANTS
  Tasks,                     \* the first one is the shell's
  Codes,                     \* the numbers of user code
  Vectors,                   \* the interrupts that occur in user code
  Commands,                  \* the values of eax at int 0x80
  KERNEL_MAX_0x80_FUNCTIONS

ASSUME InterruptAssumption ==
  /\ Tasks # {} /\ Tasks \subseteq Nat
  /\ Codes \subseteq Nat \ {0}
  /\ Vectors \subseteq 0 .. 255
  /\ Commands \subseteq Int
  /\ KERNEL_MAX_0x80_FUNCTIONS \in Nat

VARIABLES
  cpu,            \* the registers of the processor
  kstack,         \* the kernel stack
  mode,           \* "user", "stub" (entered), "handler", "return"
  vector,         \* the interrupt being served
  cur_task,
  started,        \* the tasks that exist
  registers,      \* struct reg of each task, word by word
  before,         \* history: the registers when the interrupt came
  left            \* history: the registers with which a task left the cpu

vars == <<cpu, kstack, mode, vector, cur_task, started, registers, before,
          left>>
-----------------------------------------------------------------------------
Shell == CHOOSE t \in Tasks : \A u \in Tasks : t <= u
GPRs == {"eax", "ebx", "ecx", "edx", "esi", "edi", "ebp"}
Regs == GPRs \cup {"ip", "cs", "flags", "esp", "ss"}

User(n) == [r \in Regs |-> <<r, n>>]
KernelFlags == <<"flags", 0>>              \* of the kernel, with IF set
ErrorCode == <<"error code", 0>>

(* What C code leaves in the registers, with its result in eax.            *)
AfterCall(ret) == [r \in Regs |-> IF r = "eax" THEN <<"ret", ret>>
                                               ELSE <<"kernel", 0>>]

(* Exceptions for which the processor pushes an error code (external).     *)
ErrorCodeVectors == {8, 10, 11, 12, 13, 14, 17}

(* idt_init: the first 32 get no_int_handler, the keyboard has its own.    *)
isr_handlers == {n \in 0 .. 255 : n < 32 \/ n = 33}
-----------------------------------------------------------------------------
(* pushad and the frame of the processor, as words from the top.           *)
pushad(c) == <<c["edi"], c["esi"], c["ebp"], <<"esp", 0>>, c["ebx"],
               c["edx"], c["ecx"], c["eax"]>>
iretFrame(c) == <<c["ip"], c["cs"], c["flags"], c["esp"], c["ss"]>>

(* struct interrupt_frame and struct reg, in the order of their fields     *)
interrupt_frame ==
  <<"edi", "esi", "ebp", "useless_esp", "ebx", "edx", "ecx", "eax",
    "ip", "cs", "flags", "esp", "ss">>
reg == <<"eax", "ebx", "ecx", "edx", "esi", "edi", "esp", "ebp",
         "ip", "cs", "ss", "flags">>

IndexOf(field, layout) == CHOOSE i \in DOMAIN layout : layout[i] = field

(* iframe->field: the frame lies behind the two arguments of the handler.  *)
iframe(field) == kstack[2 + IndexOf(field, interrupt_frame)]

(* current_task_save_state *)
Saved == [registers EXCEPT ![cur_task] =
            [i \in DOMAIN reg |-> iframe(reg[i])]]

(* The word at an offset of a struct reg                                   *)
At(words, offset) == words[offset \div 4 + 1]

EnterSwapped(words) ==                 \* variant: esi and edi exchanged
  [r \in Regs |->
     CASE r = "eax" -> At(words, 0)  [] r = "ebx" -> At(words, 4)
       [] r = "ecx" -> At(words, 8)  [] r = "edx" -> At(words, 12)
       [] r = "esi" -> At(words, 20) [] r = "edi" -> At(words, 16)
       [] r = "esp" -> At(words, 24) [] r = "ebp" -> At(words, 28)
       [] r = "ip"  -> At(words, 32) [] r = "cs"  -> At(words, 36)
       [] r = "ss"  -> At(words, 40) [] r = "flags" -> KernelFlags]

(* enter_task, restore_gprs: the flags are those of the kernel.            *)
enter_task(words) ==
  [r \in Regs |->
     CASE r = "eax" -> At(words, 0)  [] r = "ebx" -> At(words, 4)
       [] r = "ecx" -> At(words, 8)  [] r = "edx" -> At(words, 12)
       [] r = "esi" -> At(words, 16) [] r = "edi" -> At(words, 20)
       [] r = "esp" -> At(words, 24) [] r = "ebp" -> At(words, 28)
       [] r = "ip"  -> At(words, 32) [] r = "cs"  -> At(words, 36)
       [] r = "ss"  -> At(words, 40) [] r = "flags" -> KernelFlags]

(* init_task: a zeroed structure with an entry point, stack and selectors. *)
init_task == [i \in DOMAIN reg |->
                IF reg[i] \in {"ip", "esp", "cs", "ss"}
                THEN <<reg[i], 1000>> ELSE <<"zero", 0>>]
NewTask == [r \in Regs |-> IF r = "flags" THEN KernelFlags
                           ELSE init_task[IndexOf(r, reg)]]
-----------------------------------------------------------------------------
(* User code goes on.                                                      *)
UserStep(n) ==
  /\ mode = "user"
  /\ cpu' = User(n)
  /\ UNCHANGED <<kstack, mode, vector, cur_task, started, registers, before,
                 left>>

(* The processor enters the gate of an interrupt (external).               *)
Enter(n, context) ==
  /\ mode = "user"
  /\ kstack' = (IF n \in ErrorCodeVectors THEN <<ErrorCode>> ELSE <<>>)
                 \o iretFrame(context)
  /\ cpu' = context
  /\ before' = context
  /\ vector' = n
  /\ mode' = "stub"
  /\ UNCHANGED <<cur_task, started, registers, left>>

interrupt(n) == Enter(n, cpu)
int_0x80(command) == Enter(128, [cpu EXCEPT !["eax"] = <<"eax", command>>])

(* The stubs, up to the call: pushad, push esp, push number or eax.        *)
isr_push ==
  /\ mode = "stub"
  /\ kstack' = <<(IF vector = 128 THEN cpu["eax"] ELSE <<"vector", vector>>),
                 <<"iframe", 0>>>> \o pushad(cpu) \o kstack
  /\ mode' = "handler"
  /\ UNCHANGED <<cpu, vector, cur_task, started, registers, before, left>>

(* The state is saved only if there is a handler; the PIC is acknowledged. *)
general_interrupt_handler ==
  /\ mode = "handler"
  /\ vector # 128
  /\ registers' = IF vector \in isr_handlers THEN Saved ELSE registers
  /\ cpu' = AfterCall(0)
  /\ mode' = "return"
  /\ UNCHANGED <<kstack, vector, cur_task, started, before, left>>

(* __0x80_init: the seven functions by number, and what they may return    *)
(* (0 stands for SUCCESS as well as for no key and a null pointer).        *)
__0x80_functions == [c \in 0 .. 6 |->
  CASE c \in {0, 2} -> {0}                  \* PRINT, PUTCH
    [] c \in {1, 3, 4} -> {0, 65}           \* GETCH, MALLOC, FREE
    [] c = 5 -> {-14}                       \* EXEC fails
    [] c = 6 -> {}]                         \* EXIT does not return

__0x80_command_handler(command) ==
  IF \/ command < 0 \/ command >= KERNEL_MAX_0x80_FUNCTIONS
     \/ command \notin DOMAIN __0x80_functions
  THEN {0} ELSE __0x80_functions[command]

Command == kstack[1][2]

(* isr_0x80_handler, when the system call returns.                         *)
isr_0x80_handler ==
  /\ mode = "handler"
  /\ vector = 128
  /\ registers' = Saved
  /\ \E ret \in __0x80_command_handler(Command) : cpu' = AfterCall(ret)
  /\ mode' = "return"
  /\ UNCHANGED <<kstack, vector, cur_task, started, before, left>>

(* enter_task leaves the handler for ever; the stack is abandoned.         *)
SwitchTo(t, words) ==
  /\ cpu' = enter_task(words)
  /\ cur_task' = t
  /\ kstack' = <<>>
  /\ mode' = "user"
  /\ UNCHANGED <<vector, before>>

(* EXEC succeeds.  A task structure that was freed may be used again.      *)
EXEC(t) ==
  /\ mode = "handler" /\ vector = 128 /\ Command = 5
  /\ t \notin started
  /\ started' = started \cup {t}
  /\ registers' = [Saved EXCEPT ![t] = init_task]
  /\ left' = [left EXCEPT ![cur_task] = before, ![t] = NewTask]
  /\ SwitchTo(t, init_task)

(* EXIT: process_back_to_gshell                                            *)
EXIT ==
  /\ mode = "handler" /\ vector = 128 /\ Command = 6
  /\ cur_task # Shell
  /\ started' = started \ {cur_task}
  /\ registers' = Saved
  /\ left' = [left EXCEPT ![cur_task] = before]
  /\ SwitchTo(Shell, registers[Shell])

Popped(words) ==
  [r \in Regs |->
     CASE r = "edi" -> words[1] [] r = "esi" -> words[2]
       [] r = "ebp" -> words[3] [] r = "ebx" -> words[5]
       [] r = "edx" -> words[6] [] r = "ecx" -> words[7]
       [] r = "eax" -> words[8] [] r = "ip"  -> words[9]
       [] r = "cs"  -> words[10] [] r = "flags" -> words[11]
       [] r = "esp" -> words[12] [] r = "ss" -> words[13]]

ReturnLosingEax ==                     \* variant: popad comes last
  /\ mode = "return"
  /\ cpu' = Popped(SubSeq(kstack, 3, Len(kstack)))
  /\ kstack' = <<>>
  /\ mode' = "user"
  /\ UNCHANGED <<vector, cur_task, started, registers, before, left>>

ReturnKeepingArgument ==               \* variant: add esp, 4
  /\ mode = "return"
  /\ cpu' = LET c == Popped(SubSeq(kstack, 2, Len(kstack)))
            IN  IF vector = 128 THEN [c EXCEPT !["eax"] = cpu["eax"]] ELSE c
  /\ kstack' = <<>>
  /\ mode' = "user"
  /\ UNCHANGED <<vector, cur_task, started, registers, before, left>>

(* The stubs behind the call: add esp 8, popad, for a system call eax from *)
(* temp_ret_val, iret.                                                     *)
isr_return ==
  /\ mode = "return"
  /\ cpu' = LET c == Popped(SubSeq(kstack, 3, Len(kstack)))
            IN  IF vector = 128 THEN [c EXCEPT !["eax"] = cpu["eax"]] ELSE c
  /\ kstack' = <<>>
  /\ mode' = "user"
  /\ UNCHANGED <<vector, cur_task, started, registers, before, left>>

(* gammaos_first_ever_task has entered the shell.                          *)
Init ==
  /\ cpu = NewTask
  /\ kstack = <<>>
  /\ mode = "user"
  /\ vector = 128
  /\ cur_task = Shell
  /\ started = {Shell}
  /\ registers = [t \in Tasks |-> init_task]
  /\ before = NewTask
  /\ left = [t \in Tasks |-> NewTask]

Next ==
  \/ \E n \in Codes : UserStep(n)
  \/ \E n \in Vectors : interrupt(n)
  \/ \E command \in Commands :
       /\ cur_task = Shell => command # 6       \* the shell never exits
       /\ int_0x80(command)
  \/ isr_push
  \/ general_interrupt_handler
  \/ isr_0x80_handler
  \/ \E t \in Tasks : EXEC(t)
  \/ EXIT
  \/ isr_return

Spec == Init /\ [][Next]_vars
-----------------------------------------------------------------------------
(* User code that is interrupted finds every register as it was, although  *)
(* a C handler has used them and the stub has pushed and popped around it. *)
InterruptTransparent ==
  [][(mode = "return" /\ vector # 128) => cpu' = before]_vars

(* A system call that returns changes eax, to the result of its function,  *)
(* or 0 for a number without function, and no other register.              *)
SyscallReturns ==
  [][(mode = "return" /\ vector = 128) =>
       cpu' = [before EXCEPT !["eax"] = cpu["eax"]]]_vars

(* A task that is entered again continues with all the registers that it   *)
(* had when it left, the flags excepted: processor frame, pushad,          *)
(* interrupt_frame, reg and the offsets of enter_task fit together.        *)
SwitchResumes ==
  [][cur_task' # cur_task =>
       \A r \in Regs \ {"flags"} : cpu'[r] = left'[cur_task'][r]]_vars

(* idt.c:64 "called when an interrupt has not been defined yet. this is    *)
(* done to avoid resetting the processor accidentally": code that raised   *)
(* an exception is returned to.                                            *)
ExceptionReturns ==
  [][(mode = "return" /\ vector < 32) => cpu'["ip"] = before["ip"]]_vars
=============================================================================
