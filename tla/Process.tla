------------------------------ MODULE Process ------------------------------
(***************************************************************************)
(* Processes and their tasks: process_new and process_kill, the system     *)
(* calls EXEC and EXIT, the interrupt entry points that save the state of  *)
(* the current task, and the boot code that starts the shell.              *)
(* (kernel/task, kernel/idt, kernel/idt/__0x80/process, g-loader,          *)
(* kernel/kernel.c)                                                        *)
(*                                                                         *)
(* Every gate of the IDT is an interrupt gate: a handler runs with         *)
(* interrupts disabled from entry to iret and is one action.  What         *)
(* happens between two actions is the user program (UserStep) or, at boot, *)
(* the code of kernel_start behind __enable_irq.                           *)
(*                                                                         *)
(* A processor context (struct reg, the interrupt frame) is a token.       *)
(* kzalloc may fail at every call.  An object that a failing path does not *)
(* free is unreachable from then on and drops out of the model; what is    *)
(* left of the leak is that later calls of kzalloc may fail.               *)
(***************************************************************************)
EXTENDS TaskList

CONSTANTS
  Procs,                       \* the memory that can hold a struct process
  PROCESS_MAX_PROCESSES,
  FS_TOTAL_FILE_DESCRIPTORS,
  UserCtx,                     \* contexts of running user code
  KeyDuringBoot,               \* may a key be struck before the shell runs?
  MaxLive                      \* programs keep at most this many processes

Entry == "entry"               \* the context that init_task prepares
KernelCtx == "kernel"          \* the processor inside kernel_start
Ctx == UserCtx \cup {Entry, KernelCtx}

ASSUME ProcessAssumption ==
  /\ NULL \notin Procs
  /\ PROCESS_MAX_PROCESSES \in Nat \ {0}
  /\ FS_TOTAL_FILE_DESCRIPTORS \in Nat
  /\ {Entry, KernelCtx} \cap UserCtx = {}
  /\ KeyDuringBoot \in BOOLEAN
  /\ MaxLive \in Nat

VARIABLES
  phase,            \* "init", "window" (interrupts on), "user", "panic"
  process_list,
  current_process,
  proc,             \* the contents of every struct process
  live,             \* the process structures that have not been freed
  registers,        \* the registers field of every task structure
  cr3,              \* "kernel", or the task whose page directory is loaded
  cpu,              \* the context of the processor
  open_fds,         \* the number of entries of fd_list in use
  left              \* history: the context in which a task left the cpu

procVars == <<process_list, current_process, proc, live>>
vars == <<phase, procVars, tl, allocated, registers, cr3, cpu, open_fds, left>>
-----------------------------------------------------------------------------
(* pid is a uint16_t: the error value -12 becomes 65524, an index beyond   *)
(* process_list, and never equals -ERR_MAX_PROCESS_LIMIT_REACHED again.    *)
Beyond == 65524
Pids == 0 .. (PROCESS_MAX_PROCESSES - 1)
Slots == Pids \cup {Beyond}

process_get_free_process_id(list) ==
  IF \E pid \in Pids : list[pid] = NULL
  THEN CHOOSE pid \in Pids : /\ list[pid] = NULL
                             /\ \A q \in Pids : list[q] = NULL => pid <= q
  ELSE Beyond

NotLoaded == [type |-> "none", fds |-> 0]

(* gloader_load_elf accepts every file that it can open and read, and      *)
(* keeps the descriptor; every failure closes it.                          *)
gloader_load_elf ==
  {NotLoaded} \cup
    IF open_fds < FS_TOTAL_FILE_DESCRIPTORS
    THEN {[type |-> "PROCESS_ELF_FILE", fds |-> 1]} ELSE {}

(* A raw binary is read into memory and its descriptor is closed.          *)
process_load_binary ==
  {NotLoaded} \cup
    IF open_fds < FS_TOTAL_FILE_DESCRIPTORS
    THEN {[type |-> "PROCESS_BIN_FILE", fds |-> 0]} ELSE {}

(* What cannot be loaded as an ELF file is loaded as a raw binary.         *)
process_load_data == (gloader_load_elf \ {NotLoaded}) \cup process_load_binary

(* process_new returns 0 before the task is in the list: no memory for the *)
(* process, the stack, the task or its space, or the file is not loaded.   *)
ProcessNewFailsEarly(load) ==
  /\ open_fds' = open_fds + load.fds
  /\ UNCHANGED <<procVars, tl, allocated>>

(* process_map_memory fails: close_task takes the new task out again.      *)
ProcessNewFailsMapping(t, load) ==
  /\ load # NotLoaded
  /\ t \notin allocated
  /\ tl' = task_list_delete(task_list_add(ZeroedLinks(tl, t), t), t)
  /\ open_fds' = open_fds + load.fds
  /\ UNCHANGED <<procVars, allocated>>

ProcessNewFails ==
  \E load \in process_load_data :
    \/ ProcessNewFailsEarly(load)
    \/ \E t \in Tasks : ProcessNewFailsMapping(t, load)

(* process_new succeeds; current is the value left in current_process, and *)
(* list the task list once the caller has switched to the task it runs.    *)
ProcessNewSucceeds(p, t, load, current, list) ==
  LET pid == process_get_free_process_id(process_list)
  IN  /\ load # NotLoaded
      /\ p \notin live
      /\ t \notin allocated
      /\ proc' = [proc EXCEPT ![p] = [pid |-> pid, task |-> t]]
      /\ live' = live \cup {p}
      /\ allocated' = allocated \cup {t}
      /\ process_list' = [process_list EXCEPT ![pid] = p]
      /\ current_process' = current
      /\ tl' = list
      /\ open_fds' = open_fds + load.fds

NotSaved == registers                  \* variant: nothing is saved

(* current_task_save_state *)
Saved == [registers EXCEPT ![tl.cur] = cpu]

(* task_switch and its kin: the address space of a task is loaded.         *)
load_page_directory(t) == cr3' = t

(* The general registers are restored and iret enters user code.           *)
enter_task(ctx) == cpu' = ctx
-----------------------------------------------------------------------------
(* kernel_start creates the shell, or panics.                              *)
BootShell(p, t) ==
  /\ phase = "init"
  /\ \E load \in process_load_data :
       ProcessNewSucceeds(p, t, load, p,
                          task_list_add(ZeroedLinks(tl, t), t))
  /\ registers' = [registers EXCEPT ![t] = Entry]
  /\ left' = [left EXCEPT ![t] = Entry]
  /\ phase' = "window"
  /\ UNCHANGED <<cr3, cpu>>

kpanic ==
  /\ phase = "init"
  /\ ProcessNewFails
  /\ phase' = "panic"
  /\ UNCHANGED <<registers, cr3, cpu, left>>

(* kpanic does not return.                                                 *)
PanicLoop == phase = "panic" /\ UNCHANGED vars

(* gammaos_first_ever_task: task_switch to the head, enter_task.           *)
gammaos_first_ever_task ==
  /\ phase = "window"
  /\ phase' = "user"
  /\ tl' = [tl EXCEPT !.cur = tl.head]
  /\ load_page_directory(tl.head)
  /\ enter_task(registers[tl.head])
  /\ UNCHANGED <<procVars, allocated, registers, open_fds, left>>

StayInKernelSpace(handled) ==          \* variant: cr3 is not restored
  /\ phase \in {"window", "user"}
  /\ cr3' = "kernel"
  /\ UNCHANGED <<phase, procVars, tl, allocated, registers, cpu, open_fds,
                 left>>

RoundRobin(handled) ==                 \* variant: the timer preempts
  LET q == process_list[1]
  IN  /\ phase = "user"
      /\ q \in live \ {current_process}
      /\ current_process' = q
      /\ tl' = [tl EXCEPT !.cur = proc[q].task]
      /\ cr3' = proc[q].task
      /\ cpu' = registers[proc[q].task]
      /\ registers' = Saved
      /\ left' = [left EXCEPT ![tl.cur] = cpu]
      /\ UNCHANGED <<phase, process_list, proc, live, allocated, open_fds>>

(* An interrupt: the state of the current task is saved only if a handler  *)
(* is installed, and the page directory of the current task is loaded.     *)
general_interrupt_handler(handled) ==
  /\ phase \in {"window", "user"}
  /\ phase = "window" /\ handled => KeyDuringBoot
  /\ registers' = IF handled THEN Saved ELSE registers
  /\ load_page_directory(tl.cur)
  /\ UNCHANGED <<phase, procVars, tl, allocated, cpu, open_fds, left>>

UserStep ==
  /\ phase = "user"
  /\ cpu' \in UserCtx
  /\ UNCHANGED <<phase, procVars, tl, allocated, registers, cr3, open_fds,
                 left>>

(* The system calls that return to their caller.                           *)
isr_0x80_returns ==
  /\ phase = "user"
  /\ registers' = Saved
  /\ load_page_directory(tl.cur)
  /\ UNCHANGED <<phase, procVars, tl, allocated, cpu, open_fds, left>>

(* EXEC: process_new, process_switch, task_switch, enter_task.             *)
EXEC(p, t) ==
  /\ phase = "user"
  /\ Cardinality(live) < MaxLive
  /\ \E load \in process_load_data :
       ProcessNewSucceeds(p, t, load, p,
         [task_list_add(ZeroedLinks(tl, t), t) EXCEPT !.cur = t])
  /\ registers' = [Saved EXCEPT ![t] = Entry]
  /\ left' = [left EXCEPT ![t] = Entry, ![tl.cur] = cpu]
  /\ load_page_directory(t)
  /\ enter_task(Entry)
  /\ UNCHANGED phase

EXEC_fails ==
  /\ phase = "user"
  /\ ProcessNewFails
  /\ registers' = Saved
  /\ load_page_directory(tl.cur)
  /\ UNCHANGED <<phase, cpu, left>>

KillKeepingPid(p) ==                   \* variant: the pid is not released
  /\ live' = live \ {p}
  /\ allocated' = allocated \ {proc[p].task}
  /\ UNCHANGED <<process_list, proc>>

(* process_kill *)
process_kill(p) ==
  /\ process_list' = [process_list EXCEPT ![proc[p].pid] = NULL]
  /\ live' = live \ {p}
  /\ allocated' = allocated \ {proc[p].task}
  /\ UNCHANGED proc

(* list is the task list that the caller has left.                         *)
process_back_to_gshell(list) ==
  LET shell == process_list[0]
  IN  /\ current_process' = shell
      /\ tl' = [list EXCEPT !.cur = proc[shell].task]
      /\ load_page_directory(proc[shell].task)
      /\ enter_task(registers[proc[shell].task])

(* EXIT: process_kill, process_back_to_gshell.  Any other ancestor of the  *)
(* process stays where its EXEC left it.  The shell does not exit: its     *)
(* main has no way out of its loop.                                        *)
EXIT ==
  LET victim == proc[current_process].task
  IN  /\ phase = "user"
      /\ current_process # process_list[0]
      /\ process_kill(current_process)
      /\ process_back_to_gshell(task_list_delete(tl, victim))
      /\ registers' = Saved
      /\ left' = [left EXCEPT ![victim] = cpu]
      /\ UNCHANGED <<phase, open_fds>>

(* process_init, and the zeroed globals of task.c and process.c            *)
Init ==
  /\ phase = "init"
  /\ process_list = [s \in Slots |-> NULL]
  /\ current_process = NULL
  /\ proc = [p \in Procs |-> [pid |-> 0, task |-> NULL]]
  /\ live = {}
  /\ TaskListInit
  /\ registers = [t \in Tasks |-> Entry]
  /\ cr3 = "kernel"
  /\ cpu = KernelCtx
  /\ open_fds = 0
  /\ left = [t \in Tasks |-> Entry]

Next ==
  \/ \E p \in Procs, t \in Tasks : BootShell(p, t)
  \/ kpanic
  \/ PanicLoop
  \/ gammaos_first_ever_task
  \/ \E handled \in BOOLEAN : general_interrupt_handler(handled)
  \/ UserStep
  \/ isr_0x80_returns
  \/ \E p \in Procs, t \in Tasks : EXEC(p, t)
  \/ EXEC_fails
  \/ EXIT

Spec == Init /\ [][Next]_vars
-----------------------------------------------------------------------------
TypeOK ==
  /\ phase \in {"init", "window", "user", "panic"}
  /\ process_list \in [Slots -> Procs \cup {NULL}]
  /\ current_process \in Procs \cup {NULL}
  /\ proc \in [Procs -> [pid : Slots, task : Tasks \cup {NULL}]]
  /\ live \subseteq Procs
  /\ TaskListTypeOK
  /\ registers \in [Tasks -> Ctx]
  /\ cr3 \in Tasks \cup {"kernel"}
  /\ cpu \in Ctx
  /\ open_fds \in 0 .. FS_TOTAL_FILE_DESCRIPTORS
  /\ left \in [Tasks -> Ctx]

(* While user code runs, the three notions of what is running agree and    *)
(* name structures that have not been freed: current_process, cur_task and *)
(* the page directory in cr3.  The drivers rely on it (keyboard_put uses   *)
(* the first, the system calls the second, user code the third).           *)
RunningAgrees ==
  phase = "user" =>
    /\ current_process \in live
    /\ tl.cur = proc[current_process].task
    /\ tl.cur \in allocated
    /\ cr3 = tl.cur

(* process_list is the index of the live processes by pid, every one has a *)
(* task of its own, and no task outlives its process.                      *)
TableMatches ==
  /\ \A s \in Slots : process_list[s] # NULL =>
       process_list[s] \in live /\ proc[process_list[s]].pid = s
  /\ \A p \in live : process_list[proc[p].pid] = p
  /\ \A p, q \in live : proc[p].task = proc[q].task => p = q
  /\ phase # "panic" => allocated = {proc[p].task : p \in live}

(* process_back_to_gshell finds the shell: slot 0 is never empty once the  *)
(* shell runs, and the shell's task is the head of the list.               *)
ShellInSlot0 ==
  phase \in {"window", "user"} =>
    /\ process_list[0] \in live
    /\ proc[process_list[0]].task = tl.head

(* The running task is the shell's or the last of the list, so that EXIT   *)
(* always deletes the tail: ancestors left behind by nested EXECs are      *)
(* never in the way.                                                       *)
RunningIsShellOrTail ==
  phase = "user" => tl.cur \in {tl.head, tl.tail}

(* The task list holds the live tasks also when task_list_add and          *)
(* task_list_delete follow each other in one failed EXEC.                  *)
ListMatches == phase # "panic" => ListHoldsTheTasks

(* A task that is given the processor by EXIT or at boot continues in the  *)
(* context in which it left it, a new one at its entry point.              *)
SwitchRestoresContext ==
  [][(phase' = "user" /\ (phase # "user" \/ tl'.cur # tl.cur)) =>
       cpu' = left'[tl'.cur]]_vars

(* process.c:205 makes process_new fail when no pid is free: nothing is    *)
(* ever written beyond process_list.                                       *)
NoSlotBeyondTable == process_list[Beyond] = NULL
=============================================================================
