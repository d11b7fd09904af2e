--------------------------- MODULE InterruptProofs ---------------------------
(***************************************************************************)
(* Proofs about Interrupt: registers survive interrupts, system calls and  *)
(* task switches, for every set of tasks, of user code, of vectors without *)
(* error code and of commands.                                             *)
(***************************************************************************)
EXTENDS Interrupt, TLAPS, WellFoundedInduction

(* The hypothesis of the theorems: the processor pushes no error code, and *)
(* 0x80 is the vector of system calls alone.                               *)
NoErrorCode == Vectors \cap (ErrorCodeVectors \cup {128}) = {}

IsContext(c) == c = [r \in Regs |-> c[r]]

(* pushad and the frame of the processor for the registers c.              *)
Stacked(c) == <<c["edi"], c["esi"], c["ebp"], <<"esp", 0>>, c["ebx"],
                c["edx"], c["ecx"], c["eax"],
                c["ip"], c["cs"], c["flags"], c["esp"], c["ss"]>>

(* struct reg as current_task_save_state fills it for the registers c.     *)
SavedWords(c) == [i \in DOMAIN reg |-> c[reg[i]]]

(* The words of a struct reg take a task back to the registers c.          *)
Resumes(words, c) == \A r \in Regs \ {"flags"} : enter_task(words)[r] = c[r]
-----------------------------------------------------------------------------
LEMMA FieldIndex ==
  /\ DOMAIN reg = 1 .. 12
  /\ reg[1] = "eax" /\ reg[2] = "ebx" /\ reg[3] = "ecx" /\ reg[4] = "edx"
  /\ reg[5] = "esi" /\ reg[6] = "edi" /\ reg[7] = "esp" /\ reg[8] = "ebp"
  /\ reg[9] = "ip" /\ reg[10] = "cs" /\ reg[11] = "ss" /\ reg[12] = "flags"
  BY DEF reg

(* enter_task reads every field of struct reg at its offset.               *)
LEMMA EnterTaskReads ==
  ASSUME NEW words
  PROVE  LET c == enter_task(words)
         IN  /\ c["eax"] = words[1] /\ c["ebx"] = words[2]
             /\ c["ecx"] = words[3] /\ c["edx"] = words[4]
             /\ c["esi"] = words[5] /\ c["edi"] = words[6]
             /\ c["esp"] = words[7] /\ c["ebp"] = words[8]
             /\ c["ip"] = words[9] /\ c["cs"] = words[10]
             /\ c["ss"] = words[11]
             /\ IsContext(c)
<1>1. /\ 0 \div 4 + 1 = 1 /\ 4 \div 4 + 1 = 2 /\ 8 \div 4 + 1 = 3
      /\ 12 \div 4 + 1 = 4 /\ 16 \div 4 + 1 = 5 /\ 20 \div 4 + 1 = 6
      /\ 24 \div 4 + 1 = 7 /\ 28 \div 4 + 1 = 8 /\ 32 \div 4 + 1 = 9
      /\ 36 \div 4 + 1 = 10 /\ 40 \div 4 + 1 = 11
  BY SMT
<1> DEFINE c == enter_task(words)
<1>2. /\ c["eax"] = At(words, 0) /\ c["ebx"] = At(words, 4)
      /\ c["ecx"] = At(words, 8) /\ c["edx"] = At(words, 12)
      /\ c["esi"] = At(words, 16) /\ c["edi"] = At(words, 20)
      /\ c["esp"] = At(words, 24) /\ c["ebp"] = At(words, 28)
      /\ c["ip"] = At(words, 32) /\ c["cs"] = At(words, 36)
      /\ c["ss"] = At(words, 40)
  BY DEF enter_task, Regs, GPRs
<1>3. IsContext(c)
  BY DEF enter_task, IsContext, Regs, GPRs
<1> QED BY <1>1, <1>2, <1>3 DEF At

LEMMA PoppedReads ==
  ASSUME NEW words
  PROVE  LET c == Popped(words)
         IN  /\ c["edi"] = words[1] /\ c["esi"] = words[2]
             /\ c["ebp"] = words[3] /\ c["ebx"] = words[5]
             /\ c["edx"] = words[6] /\ c["ecx"] = words[7]
             /\ c["eax"] = words[8] /\ c["ip"] = words[9]
             /\ c["cs"] = words[10] /\ c["flags"] = words[11]
             /\ c["esp"] = words[12] /\ c["ss"] = words[13]
             /\ IsContext(c)
  BY DEF Popped, Regs, GPRs, IsContext

(* popad and iret take the words of a frame back to their registers.       *)
LEMMA PoppedStacked ==
  ASSUME NEW c, IsContext(c), NEW w,
         \A i \in 1 .. 13 : w[i] = Stacked(c)[i]
  PROVE  Popped(w) = c
<1>1. /\ w[1] = c["edi"] /\ w[2] = c["esi"] /\ w[3] = c["ebp"]
      /\ w[5] = c["ebx"] /\ w[6] = c["edx"] /\ w[7] = c["ecx"]
      /\ w[8] = c["eax"] /\ w[9] = c["ip"] /\ w[10] = c["cs"]
      /\ w[11] = c["flags"] /\ w[12] = c["esp"] /\ w[13] = c["ss"]
  BY DEF Stacked
<1>2. \A r \in Regs : Popped(w)[r] = c[r]
  BY <1>1, PoppedReads DEF Regs, GPRs
<1>3. IsContext(Popped(w))
  BY PoppedReads
<1> QED BY <1>2, <1>3 DEF IsContext

(* The saved words take the task back to its registers.                    *)
LEMMA SavedResumes == ASSUME NEW c PROVE Resumes(SavedWords(c), c)
<1>1. \A i \in 1 .. 12 : SavedWords(c)[i] = c[reg[i]]
  BY FieldIndex DEF SavedWords
<1>2. /\ SavedWords(c)[1] = c["eax"] /\ SavedWords(c)[2] = c["ebx"]
      /\ SavedWords(c)[3] = c["ecx"] /\ SavedWords(c)[4] = c["edx"]
      /\ SavedWords(c)[5] = c["esi"] /\ SavedWords(c)[6] = c["edi"]
      /\ SavedWords(c)[7] = c["esp"] /\ SavedWords(c)[8] = c["ebp"]
      /\ SavedWords(c)[9] = c["ip"] /\ SavedWords(c)[10] = c["cs"]
      /\ SavedWords(c)[11] = c["ss"]
  BY <1>1, FieldIndex
<1> QED BY <1>2, EnterTaskReads DEF Resumes, Regs, GPRs

(* A new task starts with the registers of init_task.                      *)
LEMMA NewTaskResumes == Resumes(init_task, NewTask)
<1>1. ASSUME NEW r, NEW i \in 1 .. 12, reg[i] = r
      PROVE  IndexOf(r, reg) = i
  <2>1. /\ IndexOf(r, reg) \in 1 .. 12 /\ reg[IndexOf(r, reg)] = r
    BY <1>1, FieldIndex DEF IndexOf
  <2>2. \A j \in 1 .. 12 : reg[j] = reg[i] => j = i
    BY FieldIndex
  <2> QED BY <1>1, <2>1, <2>2
<1>2. ASSUME NEW i \in 1 .. 11
      PROVE  NewTask[reg[i]] = init_task[i]
  <2>1. reg[i] \in Regs /\ reg[i] # "flags"
    BY FieldIndex DEF Regs, GPRs
  <2>2. NewTask[reg[i]] = init_task[IndexOf(reg[i], reg)]
    BY <2>1 DEF NewTask
  <2>3. i \in 1 .. 12
    OBVIOUS
  <2> QED BY <1>1, <2>2, <2>3
<1>3. /\ NewTask["eax"] = init_task[1] /\ NewTask["ebx"] = init_task[2]
      /\ NewTask["ecx"] = init_task[3] /\ NewTask["edx"] = init_task[4]
      /\ NewTask["esi"] = init_task[5] /\ NewTask["edi"] = init_task[6]
      /\ NewTask["esp"] = init_task[7] /\ NewTask["ebp"] = init_task[8]
      /\ NewTask["ip"] = init_task[9] /\ NewTask["cs"] = init_task[10]
      /\ NewTask["ss"] = init_task[11]
  BY <1>2, FieldIndex
<1> QED BY <1>3, EnterTaskReads DEF Resumes, Regs, GPRs
-----------------------------------------------------------------------------
LEMMA FrameIndex ==
  /\ IndexOf("edi", interrupt_frame) = 1 /\ IndexOf("esi", interrupt_frame) = 2
  /\ IndexOf("ebp", interrupt_frame) = 3 /\ IndexOf("ebx", interrupt_frame) = 5
  /\ IndexOf("edx", interrupt_frame) = 6 /\ IndexOf("ecx", interrupt_frame) = 7
  /\ IndexOf("eax", interrupt_frame) = 8 /\ IndexOf("ip", interrupt_frame) = 9
  /\ IndexOf("cs", interrupt_frame) = 10
  /\ IndexOf("flags", interrupt_frame) = 11
  /\ IndexOf("esp", interrupt_frame) = 12
  /\ IndexOf("ss", interrupt_frame) = 13
<1> DEFINE f == interrupt_frame
<1>0. /\ DOMAIN f = 1 .. 13
      /\ f[1] = "edi" /\ f[2] = "esi" /\ f[3] = "ebp" /\ f[4] = "useless_esp"
      /\ f[5] = "ebx" /\ f[6] = "edx" /\ f[7] = "ecx" /\ f[8] = "eax"
      /\ f[9] = "ip" /\ f[10] = "cs" /\ f[11] = "flags" /\ f[12] = "esp"
      /\ f[13] = "ss"
  BY DEF interrupt_frame
<1> HIDE DEF f
<1>1. ASSUME NEW i \in 1 .. 13 PROVE IndexOf(f[i], f) = i
  <2>1. IndexOf(f[i], f) \in 1 .. 13 /\ f[IndexOf(f[i], f)] = f[i]
    BY <1>0 DEF IndexOf
  <2>2. \A j \in 1 .. 13 : f[j] = f[i] => j = i
    BY <1>0
  <2> QED BY <2>1, <2>2
<1>2. /\ IndexOf(f[1], f) = 1 /\ IndexOf(f[2], f) = 2
      /\ IndexOf(f[3], f) = 3 /\ IndexOf(f[5], f) = 5
      /\ IndexOf(f[6], f) = 6 /\ IndexOf(f[7], f) = 7
      /\ IndexOf(f[8], f) = 8 /\ IndexOf(f[9], f) = 9
      /\ IndexOf(f[10], f) = 10 /\ IndexOf(f[11], f) = 11
      /\ IndexOf(f[12], f) = 12 /\ IndexOf(f[13], f) = 13
  BY <1>1
<1> QED BY <1>0, <1>2 DEF f

(* The kernel stack while the handler runs: two arguments and the frame.   *)
Framed(stack, c) ==
  /\ stack \in Seq({stack[i] : i \in 1 .. 15})
  /\ Len(stack) = 15
  /\ \A i \in 1 .. 13 : stack[2 + i] = Stacked(c)[i]

(* The fields of the frame are the registers of the interrupted code.      *)
LEMMA FrameReads ==
  ASSUME NEW c, Framed(kstack, c), NEW r \in Regs
  PROVE  iframe(r) = c[r]
<1>1. /\ kstack[2 + 1] = c["edi"] /\ kstack[2 + 2] = c["esi"]
      /\ kstack[2 + 3] = c["ebp"] /\ kstack[2 + 5] = c["ebx"]
      /\ kstack[2 + 6] = c["edx"] /\ kstack[2 + 7] = c["ecx"]
      /\ kstack[2 + 8] = c["eax"] /\ kstack[2 + 9] = c["ip"]
      /\ kstack[2 + 10] = c["cs"] /\ kstack[2 + 11] = c["flags"]
      /\ kstack[2 + 12] = c["esp"] /\ kstack[2 + 13] = c["ss"]
  BY DEF Framed, Stacked
<1> QED BY <1>1, FrameIndex DEF Regs, GPRs, iframe

LEMMA SavedIs ==
  ASSUME NEW c, Framed(kstack, c)
  PROVE  Saved = [registers EXCEPT ![cur_task] = SavedWords(c)]
<1>1. \A i \in DOMAIN reg : iframe(reg[i]) = c[reg[i]]
  <2> SUFFICES ASSUME NEW i \in 1 .. 12 PROVE iframe(reg[i]) = c[reg[i]]
    BY FieldIndex
  <2>1. reg[i] \in Regs
    BY FieldIndex DEF Regs, GPRs
  <2> QED BY <2>1, FrameReads
<1>2. [i \in DOMAIN reg |-> iframe(reg[i])] = SavedWords(c)
  BY <1>1 DEF SavedWords
<1> QED BY <1>2 DEF Saved

(* add esp, 8 leaves the frame.                                            *)
LEMMA FramePopped ==
  ASSUME NEW c, Framed(kstack, c), IsContext(c)
  PROVE  Popped(SubSeq(kstack, 3, Len(kstack))) = c
<1> DEFINE w == SubSeq(kstack, 3, Len(kstack))
<1>1. \A i \in 1 .. 13 : w[i] = Stacked(c)[i]
  <2>1. w = [i \in 1 .. 13 |-> kstack[3 + i - 1]]
    BY DEF Framed
  <2>2. \A i \in 1 .. 13 : 3 + i - 1 = 2 + i
    OBVIOUS
  <2> QED BY <2>1, <2>2 DEF Framed
<1> QED BY <1>1, PoppedStacked

(* The stub pushes what the frame promises.                                *)
LEMMA PushFrames ==
  ASSUME NEW c, NEW x, NEW y
  PROVE  Framed(<<x, y>> \o pushad(c) \o iretFrame(c), c)
<1> DEFINE a == <<x, y>>
           b == pushad(c)
           d == iretFrame(c)
           ab == a \o b
           all == ab \o d
           All == {all[i] : i \in 1 .. 15}
<1>1. /\ Len(a) = 2 /\ a = [i \in 1 .. 2 |-> a[i]]
      /\ Len(b) = 8 /\ b = [i \in 1 .. 8 |-> b[i]]
      /\ Len(d) = 5 /\ d = [i \in 1 .. 5 |-> d[i]]
  BY DEF pushad, iretFrame
<1>2. /\ b[1] = c["edi"] /\ b[2] = c["esi"] /\ b[3] = c["ebp"]
      /\ b[4] = <<"esp", 0>> /\ b[5] = c["ebx"] /\ b[6] = c["edx"]
      /\ b[7] = c["ecx"] /\ b[8] = c["eax"]
      /\ d[1] = c["ip"] /\ d[2] = c["cs"] /\ d[3] = c["flags"]
      /\ d[4] = c["esp"] /\ d[5] = c["ss"]
  BY DEF pushad, iretFrame
<1> HIDE DEF a, b, d
<1>3. ab = [i \in 1 .. 10 |-> IF i <= 2 THEN a[i] ELSE b[i - 2]]
  BY <1>1
<1> HIDE DEF ab
<1>4. Len(ab) = 10 /\ ab = [i \in 1 .. 10 |-> ab[i]]
  BY <1>3
<1>5. all = [i \in 1 .. 15 |-> IF i <= 10 THEN ab[i] ELSE d[i - 10]]
  BY <1>1, <1>4
<1> HIDE DEF all
<1>6. Len(all) = 15 /\ all \in Seq(All)
  BY <1>5
<1>7. /\ all[3] = b[1] /\ all[4] = b[2] /\ all[5] = b[3] /\ all[6] = b[4]
      /\ all[7] = b[5] /\ all[8] = b[6] /\ all[9] = b[7] /\ all[10] = b[8]
      /\ all[11] = d[1] /\ all[12] = d[2] /\ all[13] = d[3]
      /\ all[14] = d[4] /\ all[15] = d[5]
  BY <1>3, <1>5
<1>8. ASSUME NEW i \in 1 .. 13 PROVE all[2 + i] = Stacked(c)[i]
  BY <1>2, <1>7 DEF Stacked
<1>9. Framed(all, c)
  BY <1>6, <1>8 DEF Framed
<1> QED BY <1>9 DEF all, ab, a, b, d
-----------------------------------------------------------------------------
(* Every nonempty set of naturals has a least element.                     *)
LEMMA LeastNatural ==
  ASSUME NEW T, T \subseteq Nat, T # {}
  PROVE  \E x \in T : \A y \in T : x <= y
<1> DEFINE R == {ss \in Nat \X Nat : ss[1] < ss[2]}
<1>1. IsWellFoundedOn(R, Nat)
  BY NatLessThanWellFounded DEF OpToRel
<1>2. PICK x \in T : \A y \in T : ~ (<<y, x>> \in R)
  <2> HIDE DEF R
  <2> QED BY <1>1, WFMin
<1>3. ASSUME NEW y \in T PROVE x <= y
  <2>1. ~ (<<y, x>> \in R)
    BY <1>2
  <2>2. y < x => <<y, x>> \in R
    OBVIOUS
  <2> QED BY <2>1, <2>2
<1> QED BY <1>2, <1>3

LEMMA ShellIsTask == Shell \in Tasks
  BY LeastNatural, InterruptAssumption DEF Shell

(* The inductive invariant.                                                *)
Tables ==
  /\ Shell \in started /\ started \subseteq Tasks /\ cur_task \in started
  /\ registers = [t \in Tasks |-> registers[t]]
  /\ left = [t \in Tasks |-> left[t]]

StackMatches ==
  /\ IsContext(cpu) /\ IsContext(before)
  /\ mode = "stub" => kstack = iretFrame(before) /\ cpu = before
  /\ mode \in {"handler", "return"} => Framed(kstack, before)

(* A task that is not running has in its struct reg what it left with.     *)
SuspendedMatch ==
  \A t \in started \ {cur_task} : Resumes(registers[t], left[t])

IntInv == Tables /\ StackMatches /\ SuspendedMatch

LEMMA IntInvInit == Init => IntInv
<1> SUFFICES ASSUME Init PROVE IntInv
  OBVIOUS
<1>1. Tables
  BY ShellIsTask DEF Init, Tables
<1>2. IsContext(NewTask)
  BY DEF IsContext, NewTask
<1>3. StackMatches
  BY <1>2 DEF Init, StackMatches
<1>4. SuspendedMatch
  BY DEF Init, SuspendedMatch
<1> QED BY <1>1, <1>3, <1>4 DEF IntInv

LEMMA EnterStep ==
  ASSUME IntInv, NEW n, n \notin ErrorCodeVectors, NEW c, IsContext(c),
         Enter(n, c)
  PROVE  IntInv'
<1>1. <<>> \o iretFrame(c) = iretFrame(c)
  <2> DEFINE d == iretFrame(c)
  <2>1. Len(d) = 5 /\ d = [i \in 1 .. 5 |-> d[i]]
    BY DEF iretFrame
  <2> HIDE DEF d
  <2>2. <<>> \o d = [i \in 1 .. 5 |-> d[i]]
    BY <2>1
  <2> QED BY <2>1, <2>2 DEF d
<1>2. kstack' = iretFrame(c) /\ cpu' = c /\ before' = c /\ mode' = "stub"
  BY <1>1 DEF Enter
<1>3. StackMatches'
  BY <1>2 DEF StackMatches
<1> QED BY <1>3 DEF IntInv, Enter, Tables, SuspendedMatch

(* The state of the running task is saved, which no other task sees.       *)
LEMMA SaveStep ==
  ASSUME IntInv, mode \in {"handler", "return"}
  PROVE  /\ Saved = [t \in Tasks |-> Saved[t]]
         /\ Saved[cur_task] = SavedWords(before)
         /\ \A t \in Tasks \ {cur_task} : Saved[t] = registers[t]
<1>1. Saved = [registers EXCEPT ![cur_task] = SavedWords(before)]
  BY SavedIs DEF IntInv, StackMatches
<1> QED BY <1>1 DEF IntInv, Tables

(* A handler that returns.                                                 *)
LEMMA HandlerStep ==
  ASSUME IntInv, mode = "handler", mode' = "return",
         registers' \in {Saved, registers}, IsContext(cpu'),
         UNCHANGED <<kstack, cur_task, started, before, left>>
  PROVE  IntInv'
<1>1. registers' = [t \in Tasks |-> registers'[t]]
  BY SaveStep DEF IntInv, Tables
<1>2. \A t \in Tasks \ {cur_task} : registers'[t] = registers[t]
  BY SaveStep
<1>3. Tables'
  BY <1>1 DEF IntInv, Tables
<1>4. StackMatches'
  BY DEF IntInv, StackMatches
<1>5. SuspendedMatch'
  BY <1>2 DEF IntInv, Tables, SuspendedMatch
<1> QED BY <1>3, <1>4, <1>5 DEF IntInv

LEMMA ExecStep ==
  ASSUME IntInv, NEW t \in Tasks, EXEC(t) PROVE IntInv'
<1>1. /\ mode = "handler" /\ t \notin started
      /\ started' = started \cup {t} /\ cur_task' = t
      /\ registers' = [Saved EXCEPT ![t] = init_task]
      /\ left' = [left EXCEPT ![cur_task] = before, ![t] = NewTask]
      /\ cpu' = enter_task(init_task) /\ mode' = "user"
      /\ before' = before
  BY DEF EXEC, SwitchTo
<1>2. t # cur_task /\ cur_task \in Tasks
  BY <1>1 DEF IntInv, Tables
<1>3. Tables'
  BY <1>1, <1>2, SaveStep DEF IntInv, Tables
<1>4. StackMatches'
  BY <1>1, EnterTaskReads DEF IntInv, StackMatches
<1>5. ASSUME NEW u \in started PROVE Resumes(registers'[u], left'[u])
  <2>1. u \in Tasks /\ u # t
    BY <1>1 DEF IntInv, Tables
  <2>2. registers'[u] = Saved[u]
    BY <1>1, <2>1, SaveStep
  <2>3. CASE u = cur_task
    <3>1. registers'[u] = SavedWords(before)
      BY <1>1, <2>2, <2>3, SaveStep
    <3>2. left'[u] = before
      BY <1>1, <2>1, <2>3 DEF IntInv, Tables
    <3> QED BY <3>1, <3>2, SavedResumes
  <2>4. CASE u # cur_task
    <3>1. registers'[u] = registers[u]
      BY <1>1, <2>1, <2>2, <2>4, SaveStep
    <3>2. left'[u] = left[u]
      BY <1>1, <2>1, <2>4 DEF IntInv, Tables
    <3> QED BY <2>4, <3>1, <3>2 DEF IntInv, SuspendedMatch
  <2> QED BY <2>3, <2>4
<1>6. SuspendedMatch'
  BY <1>1, <1>5 DEF SuspendedMatch
<1> QED BY <1>3, <1>4, <1>6 DEF IntInv

LEMMA ExitStep == ASSUME IntInv, EXIT PROVE IntInv'
<1>1. /\ mode = "handler" /\ cur_task # Shell
      /\ started' = started \ {cur_task} /\ cur_task' = Shell
      /\ registers' = Saved
      /\ left' = [left EXCEPT ![cur_task] = before]
      /\ cpu' = enter_task(registers[Shell]) /\ mode' = "user"
      /\ before' = before
  BY DEF EXIT, SwitchTo
<1>2. Tables'
  BY <1>1, SaveStep DEF IntInv, Tables
<1>3. StackMatches'
  BY <1>1, EnterTaskReads DEF IntInv, StackMatches
<1>4. ASSUME NEW u \in started \ {cur_task}
      PROVE  Resumes(registers'[u], left'[u])
  <2>1. u \in Tasks
    BY DEF IntInv, Tables
  <2>2. registers'[u] = registers[u]
    BY <1>1, <2>1, SaveStep
  <2>3. left'[u] = left[u]
    BY <1>1, <2>1 DEF IntInv, Tables
  <2> QED BY <2>2, <2>3 DEF IntInv, SuspendedMatch
<1>5. SuspendedMatch'
  BY <1>1, <1>4 DEF SuspendedMatch
<1> QED BY <1>2, <1>3, <1>5 DEF IntInv

LEMMA ReturnStep ==
  ASSUME IntInv, isr_return
  PROVE  /\ IntInv'
         /\ vector # 128 => cpu' = before
         /\ vector = 128 => cpu' = [before EXCEPT !["eax"] = cpu["eax"]]
<1>1. Popped(SubSeq(kstack, 3, Len(kstack))) = before
  BY FramePopped DEF IntInv, StackMatches, isr_return
<1>2. cpu' = IF vector = 128 THEN [before EXCEPT !["eax"] = cpu["eax"]]
             ELSE before
  BY <1>1 DEF isr_return
<1>3. IsContext(cpu')
  BY <1>2 DEF IntInv, StackMatches, IsContext
<1>4. StackMatches'
  BY <1>3 DEF IntInv, StackMatches, isr_return
<1>5. IntInv'
  BY <1>4 DEF IntInv, Tables, SuspendedMatch, isr_return
<1> QED BY <1>2, <1>5

LEMMA IntInvNext ==
  ASSUME NoErrorCode, IntInv, [Next]_vars PROVE IntInv'
<1>0. IsContext(cpu)
  BY DEF IntInv, StackMatches
<1>1. CASE UNCHANGED vars
  BY <1>1 DEF IntInv, Tables, StackMatches, SuspendedMatch, vars, iframe
<1>2. ASSUME NEW n \in Codes, UserStep(n) PROVE IntInv'
  <2>1. IsContext(User(n))
    BY DEF IsContext, User
  <2>2. StackMatches'
    BY <1>2, <2>1 DEF IntInv, StackMatches, UserStep
  <2> QED BY <1>2, <2>2 DEF IntInv, Tables, SuspendedMatch, UserStep
<1>3. ASSUME NEW n \in Vectors, interrupt(n) PROVE IntInv'
  <2>1. n \notin ErrorCodeVectors
    BY DEF NoErrorCode
  <2> QED BY <1>0, <1>3, <2>1, EnterStep DEF interrupt
<1>4. ASSUME NEW command \in Commands, int_0x80(command) PROVE IntInv'
  <2>1. IsContext([cpu EXCEPT !["eax"] = <<"eax", command>>])
    BY <1>0 DEF IsContext
  <2>2. 128 \notin ErrorCodeVectors
    BY DEF ErrorCodeVectors
  <2> QED BY <1>4, <2>1, <2>2, EnterStep DEF int_0x80
<1>5. CASE isr_push
  <2> DEFINE x == IF vector = 128 THEN cpu["eax"] ELSE <<"vector", vector>>
             y == <<"iframe", 0>>
  <2>1. kstack = iretFrame(before) /\ cpu = before
    BY <1>5 DEF isr_push, IntInv, StackMatches
  <2>2. kstack' = <<x, y>> \o pushad(before) \o iretFrame(before)
    BY <1>5, <2>1 DEF isr_push
  <2> HIDE DEF x, y
  <2>3. Framed(kstack', before)
    BY <2>2, PushFrames
  <2>4. StackMatches'
    BY <1>5, <2>3 DEF isr_push, IntInv, StackMatches
  <2> QED BY <1>5, <2>4 DEF isr_push, IntInv, Tables, SuspendedMatch
<1>6. CASE general_interrupt_handler \/ isr_0x80_handler
  <2>1. ASSUME NEW ret PROVE IsContext(AfterCall(ret))
    BY DEF IsContext, AfterCall
  <2>2. IsContext(cpu')
    BY <1>6, <2>1 DEF general_interrupt_handler, isr_0x80_handler
  <2>3. /\ mode = "handler" /\ mode' = "return"
        /\ registers' \in {Saved, registers}
        /\ UNCHANGED <<kstack, cur_task, started, before, left>>
    BY <1>6 DEF general_interrupt_handler, isr_0x80_handler
  <2> QED BY <2>2, <2>3, HandlerStep
<1>7. ASSUME NEW t \in Tasks, EXEC(t) PROVE IntInv'
  BY <1>7, ExecStep
<1>8. CASE EXIT
  BY <1>8, ExitStep
<1>9. CASE isr_return
  BY <1>9, ReturnStep
<1> QED
  BY <1>1, <1>2, <1>3, <1>4, <1>5, <1>6, <1>7, <1>8, <1>9 DEF Next

LEMMA IntInvariant == ASSUME NoErrorCode PROVE Spec => []IntInv
<1>1. IntInv /\ [Next]_vars => IntInv'
  BY IntInvNext
<1> QED BY <1>1, IntInvInit, PTL DEF Spec

(* The only step of a stub that returns.                                   *)
LEMMA OnlyReturn ==
  ASSUME Next, mode = "return" PROVE isr_return
  BY DEF Next, UserStep, interrupt, int_0x80, Enter, isr_push,
         general_interrupt_handler, isr_0x80_handler, EXEC, EXIT

(* Interrupted user code finds every register as it was.                   *)
THEOREM IntTransparent == ASSUME NoErrorCode PROVE Spec => InterruptTransparent
<1>1. IntInv /\ [Next]_vars =>
        [(mode = "return" /\ vector # 128) => cpu' = before]_vars
  BY OnlyReturn, ReturnStep
<1> QED BY <1>1, IntInvariant, PTL DEF Spec, InterruptTransparent

(* A system call that returns changes eax and no other register.           *)
THEOREM IntSyscallReturns == ASSUME NoErrorCode PROVE Spec => SyscallReturns
<1>1. IntInv /\ [Next]_vars =>
        [(mode = "return" /\ vector = 128) =>
           cpu' = [before EXCEPT !["eax"] = cpu["eax"]]]_vars
  BY OnlyReturn, ReturnStep
<1> QED BY <1>1, IntInvariant, PTL DEF Spec, SyscallReturns

(* A task that is entered again continues with the registers that it had,  *)
(* the flags excepted.                                                     *)
THEOREM IntSwitchResumes == ASSUME NoErrorCode PROVE Spec => SwitchResumes
<1>1. ASSUME IntInv, Next, cur_task' # cur_task
      PROVE  \A r \in Regs \ {"flags"} : cpu'[r] = left'[cur_task'][r]
  <2>1. ASSUME NEW t \in Tasks, EXEC(t)
        PROVE  \A r \in Regs \ {"flags"} : cpu'[r] = left'[cur_task'][r]
    <3>1. left'[t] = NewTask
      BY <2>1, <1>1 DEF EXEC, IntInv, Tables
    <3> QED BY <2>1, <3>1, NewTaskResumes DEF EXEC, SwitchTo, Resumes
  <2>2. CASE EXIT
    <3>1. left'[Shell] = left[Shell]
      BY <2>2, <1>1, ShellIsTask DEF EXIT, IntInv, Tables
    <3>2. Resumes(registers[Shell], left[Shell])
      BY <2>2, <1>1 DEF EXIT, IntInv, Tables, SuspendedMatch
    <3> QED BY <2>2, <3>1, <3>2 DEF EXIT, SwitchTo, Resumes
  <2> QED BY <1>1, <2>1, <2>2
          DEF Next, UserStep, interrupt, int_0x80, Enter, isr_push,
              general_interrupt_handler, isr_0x80_handler, isr_return
<1>2. IntInv /\ [Next]_vars =>
        [cur_task' # cur_task =>
           \A r \in Regs \ {"flags"} : cpu'[r] = left'[cur_task'][r]]_vars
  BY <1>1
<1> QED BY <1>2, IntInvariant, PTL DEF Spec, SwitchResumes
==============================================================================
