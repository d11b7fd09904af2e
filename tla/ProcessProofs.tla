--------------------------- MODULE ProcessProofs ---------------------------
(***************************************************************************)
(* Proofs about Process, for every number of processes, tasks, contexts    *)
(* and descriptors: what is running is one live process, the list of tasks *)
(* holds exactly the live tasks, the table of processes is an index of     *)
(* them, and a task continues where it was interrupted.                    *)
(***************************************************************************)
EXTENDS Process, FiniteSetTheorems, WellFoundedInduction, TLAPS

(* Every set of natural numbers that is not empty has a least member.      *)
LEMMA LeastNatural ==
  ASSUME NEW T, T \subseteq Nat, T # {}
  PROVE  \E x \in T : \A y \in T : x <= y
<1> DEFINE R == {ss \in Nat \X Nat : ss[1] < ss[2]}
<1>1. IsWellFoundedOn(R, Nat)
  BY NatLessThanWellFounded DEF OpToRel
<1>2. PICK x \in T : \A y \in T : ~ (<<y, x>> \in R)
  <2> HIDE DEF R
  <2> QED BY <1>1, WFMin
<1>3. ASSUME NEW y \in T PROVE x <= y
  <2>1. ~ (<<y, x>> \in R)
    BY <1>2
  <2>2. y < x => <<y, x>> \in R
    OBVIOUS
  <2> QED BY <2>1, <2>2
<1> QED BY <1>2, <1>3
-----------------------------------------------------------------------------
(* The operations of the list, field by field.                             *)
Refs == Tasks \cup {NULL}
Lists == [head : Refs, tail : Refs, cur : Refs,
          next : [Tasks -> Refs], prev : [Tasks -> Refs]]

LEMMA FirstAdded ==
  ASSUME NEW t \in Tasks
  PROVE  LET l == task_list_add(ZeroedLinks(EmptyList, t), t)
         IN  l \in Lists /\ l.head = t /\ l.tail = t /\ l.cur = t
  BY DEF task_list_add, ZeroedLinks, EmptyList, NoLinks, Lists, Refs

LEMMA Added ==
  ASSUME NEW l \in Lists, NEW t \in Tasks, l.head # NULL, l.tail \in Tasks \ {t}
  PROVE  LET m == task_list_add(ZeroedLinks(l, t), t)
         IN  /\ m \in Lists
             /\ m.head = l.head /\ m.tail = t /\ m.cur = l.cur
             /\ m.next[l.tail] = t /\ m.prev[t] = l.tail
             /\ \A u \in Tasks \ {l.tail, t} : m.next[u] = l.next[u]
             /\ \A u \in Tasks \ {t} : m.prev[u] = l.prev[u]
<1> DEFINE z == ZeroedLinks(l, t)
           m == task_list_add(z, t)
<1>1. /\ z \in Lists /\ z.head = l.head /\ z.tail = l.tail /\ z.cur = l.cur
      /\ \A u \in Tasks \ {t} : z.next[u] = l.next[u] /\ z.prev[u] = l.prev[u]
  BY DEF ZeroedLinks, Lists, Refs
<1> HIDE DEF z
<1>2. m = [z EXCEPT !.next[z.tail] = t, !.prev[t] = z.tail, !.tail = t]
  BY <1>1 DEF task_list_add
<1>3. z.next \in [Tasks -> Refs] /\ z.prev \in [Tasks -> Refs]
  BY <1>1 DEF Lists
<1>4. /\ m.head = z.head /\ m.tail = t /\ m.cur = z.cur
      /\ m.next = [z.next EXCEPT ![z.tail] = t]
      /\ m.prev = [z.prev EXCEPT ![t] = z.tail]
  BY <1>1, <1>2 DEF Lists
<1>5. m = [head |-> m.head, tail |-> m.tail, cur |-> m.cur,
           next |-> m.next, prev |-> m.prev]
  BY <1>1, <1>2 DEF Lists
<1> HIDE DEF m
<1>6. m.next \in [Tasks -> Refs] /\ m.prev \in [Tasks -> Refs]
  BY <1>1, <1>3, <1>4 DEF Refs
<1>7. m \in Lists
  BY <1>1, <1>4, <1>5, <1>6 DEF Lists, Refs
<1>8. /\ m.next[l.tail] = t /\ m.prev[t] = l.tail
      /\ \A u \in Tasks \ {l.tail, t} : m.next[u] = l.next[u]
      /\ \A u \in Tasks \ {t} : m.prev[u] = l.prev[u]
  BY <1>1, <1>3, <1>4
<1> QED BY <1>1, <1>4, <1>7, <1>8 DEF m, z

LEMMA TailDeleted ==
  ASSUME NEW l \in Lists, l.tail \in Tasks, l.tail # l.head
  PROVE  LET m == task_list_delete(l, l.tail)
         IN  /\ m \in Lists
             /\ m.head = l.head /\ m.tail = l.prev[l.tail]
             /\ m.next = l.next /\ m.prev = l.prev
             /\ l.cur # l.tail => m.cur = l.cur
<1>1. task_list_delete(l, l.tail) =
        [DeleteTail(l) EXCEPT !.cur = IF l.tail = l.cur THEN l.next[l.tail] ELSE @]
  BY DEF task_list_delete
<1>2. DeleteTail(l) = [l EXCEPT !.tail = l.prev[l.tail]]
  BY DEF DeleteTail
<1> QED BY <1>1, <1>2 DEF Lists, Refs
-----------------------------------------------------------------------------
(* f enumerates the tasks S in the order of the list l.                    *)
Chain(l, S, n, f) ==
  /\ f \in [1 .. n -> S]
  /\ \A i, j \in 1 .. n : f[i] = f[j] => i = j
  /\ \A t \in S : \E i \in 1 .. n : f[i] = t
  /\ f[1] = l.head
  /\ f[n] = l.tail
  /\ \A i \in 1 .. (n - 1) : l.next[f[i]] = f[i + 1] /\ l.prev[f[i + 1]] = f[i]

Chained(l, S) == \E n \in Nat \ {0} : \E f : Chain(l, S, n, f)

LEMMA ChainEnds ==
  ASSUME NEW l, NEW S, Chained(l, S)
  PROVE  l.head \in S /\ l.tail \in S
<1>1. PICK n \in Nat \ {0} : \E f : Chain(l, S, n, f)
  BY DEF Chained
<1>2. PICK f : Chain(l, S, n, f)
  BY <1>1
<1> QED BY <1>2 DEF Chain

LEMMA ChainSingle ==
  ASSUME NEW l, NEW t, l.head = t, l.tail = t
  PROVE  Chained(l, {t})
<1> DEFINE f == [i \in 1 .. 1 |-> t]
<1>1. Chain(l, {t}, 1, f)
  BY DEF Chain
<1> QED BY <1>1 DEF Chained

(* task_list_add appends.                                                  *)
LEMMA ChainPush ==
  ASSUME NEW l, NEW S \in SUBSET Tasks, Chained(l, S), NEW t \in Tasks \ S,
         NEW m, m.head = l.head, m.tail = t,
         m.next[l.tail] = t, m.prev[t] = l.tail,
         \A u \in Tasks \ {l.tail, t} : m.next[u] = l.next[u],
         \A u \in Tasks \ {t} : m.prev[u] = l.prev[u]
  PROVE  Chained(m, S \cup {t})
<1>1. PICK n \in Nat \ {0} : \E f : Chain(l, S, n, f)
  BY DEF Chained
<1>2. PICK f : Chain(l, S, n, f)
  BY <1>1
<1> USE <1>2 DEF Chain
<1> DEFINE g == [i \in 1 .. (n + 1) |-> IF i = n + 1 THEN t ELSE f[i]]
<1>3. /\ g \in [1 .. (n + 1) -> S \cup {t}]
      /\ g[n + 1] = t
      /\ \A i \in 1 .. n : g[i] = f[i] /\ g[i] \in S
  OBVIOUS
<1> HIDE DEF g
<1>4. \A i, j \in 1 .. (n + 1) : g[i] = g[j] => i = j
  BY <1>3
<1>5. \A u \in S \cup {t} : \E i \in 1 .. (n + 1) : g[i] = u
  BY <1>3
<1>6. g[1] = m.head /\ g[n + 1] = m.tail
  BY <1>3
<1>7. ASSUME NEW i \in 1 .. n
      PROVE  m.next[g[i]] = g[i + 1] /\ m.prev[g[i + 1]] = g[i]
  <2>1. CASE i = n
    BY <1>3, <2>1
  <2>2. CASE i # n
    <3>1. i \in 1 .. (n - 1) /\ i + 1 \in 1 .. n /\ f[i] # f[n]
      BY <2>2
    <3>2. g[i] = f[i] /\ g[i + 1] = f[i + 1] /\ f[i] \in S /\ f[i + 1] \in S
      BY <1>3, <3>1
    <3> QED BY <3>1, <3>2
  <2> QED BY <2>1, <2>2
<1>8. (n + 1) - 1 = n /\ n + 1 \in Nat \ {0}
  OBVIOUS
<1>9. Chain(m, S \cup {t}, n + 1, g)
  BY <1>3, <1>4, <1>5, <1>6, <1>7, <1>8
<1> HIDE DEF Chain
<1> QED BY <1>8, <1>9 DEF Chained

(* Deleting the tail takes off the last task.                              *)
LEMMA ChainPop ==
  ASSUME NEW l, NEW S \in SUBSET Tasks, Chained(l, S), l.head # l.tail,
         NEW m, m.head = l.head, m.tail = l.prev[l.tail],
         m.next = l.next, m.prev = l.prev
  PROVE  Chained(m, S \ {l.tail})
<1>1. PICK n \in Nat \ {0} : \E f : Chain(l, S, n, f)
  BY DEF Chained
<1>2. PICK f : Chain(l, S, n, f)
  BY <1>1
<1> USE <1>2 DEF Chain
<1>3. n - 1 \in Nat \ {0}
  <2>1. n # 1
    OBVIOUS
  <2> QED BY <2>1
<1> DEFINE g == [i \in 1 .. (n - 1) |-> f[i]]
<1>4. /\ \A i \in 1 .. (n - 1) : g[i] = f[i] /\ f[i] # l.tail /\ g[i] \in S
      /\ DOMAIN g = 1 .. (n - 1)
  BY <1>3
<1>5. g \in [1 .. (n - 1) -> S \ {l.tail}]
  BY <1>4
<1> HIDE DEF g
<1>6. \A i, j \in 1 .. (n - 1) : g[i] = g[j] => i = j
  BY <1>4
<1>7. \A u \in S \ {l.tail} : \E i \in 1 .. (n - 1) : g[i] = u
  <2>1. SUFFICES ASSUME NEW u \in S \ {l.tail}
                 PROVE  \E i \in 1 .. (n - 1) : g[i] = u
    OBVIOUS
  <2>2. PICK i \in 1 .. n : f[i] = u
    OBVIOUS
  <2>3. i \in 1 .. (n - 1)
    BY <2>2
  <2> QED BY <1>4, <2>2, <2>3
<1>8. g[1] = m.head
  BY <1>3, <1>4
<1>9. g[n - 1] = m.tail
  <2>1. n - 1 \in 1 .. (n - 1) /\ (n - 1) + 1 = n
    BY <1>3
  <2>2. l.prev[f[n]] = f[n - 1]
    BY <2>1
  <2> QED BY <1>4, <2>1, <2>2
<1>10. ASSUME NEW i \in 1 .. ((n - 1) - 1)
       PROVE  m.next[g[i]] = g[i + 1] /\ m.prev[g[i + 1]] = g[i]
  <2>1. i \in 1 .. (n - 1) /\ i + 1 \in 1 .. (n - 1)
    BY <1>3
  <2> QED BY <1>4, <2>1
<1>11. Chain(m, S \ {l.tail}, n - 1, g)
  BY <1>5, <1>6, <1>7, <1>8, <1>9, <1>10
<1> HIDE DEF Chain
<1> QED BY <1>3, <1>11 DEF Chained

(* The links out of the list do not matter.                                *)
LEMMA ChainKeep ==
  ASSUME NEW l, NEW S, Chained(l, S),
         NEW m, m.head = l.head, m.tail = l.tail,
         \A u \in S \ {l.tail} : m.next[u] = l.next[u],
         \A u \in S : m.prev[u] = l.prev[u]
  PROVE  Chained(m, S)
<1>1. PICK n \in Nat \ {0} : \E f : Chain(l, S, n, f)
  BY DEF Chained
<1>2. PICK f : Chain(l, S, n, f)
  BY <1>1
<1> USE <1>2 DEF Chain
<1>3. ASSUME NEW i \in 1 .. (n - 1)
      PROVE  m.next[f[i]] = f[i + 1] /\ m.prev[f[i + 1]] = f[i]
  <2>1. f[i] \in S \ {l.tail} /\ f[i + 1] \in S
    OBVIOUS
  <2> QED BY <2>1
<1>4. Chain(m, S, n, f)
  BY <1>3
<1> HIDE DEF Chain
<1> QED BY <1>4 DEF Chained

(* Walking a chain with next, as ListHoldsTheTasks does, meets the tasks   *)
(* in the order of the enumeration.  The walk is a recursive function: a   *)
(* function with its equation exists, and any such function follows f.     *)
LEMMA ChainPath ==
  ASSUME NEW l, NEW S \in SUBSET Tasks, NEW n \in Nat \ {0}, NEW f,
         Chain(l, S, n, f)
  PROVE  \A i \in 0 .. (n - 1) : Path(l, n)[i] = f[i + 1]
<1> USE DEF Chain
<1> DEFINE Step(g) == [i \in 0 .. n |->
                         IF i = 0 THEN l.head
                         ELSE IF g[i - 1] = NULL THEN NULL ELSE l.next[g[i - 1]]]
           h == [i \in 0 .. n |-> IF i = n THEN l.next[f[n]] ELSE f[i + 1]]
           path == Path(l, n)
<1>1. path = CHOOSE g : g = Step(g)
  BY Zenon DEF Path
<1>2. h = Step(h)
  <2>1. ASSUME NEW i \in 0 .. n PROVE h[i] = Step(h)[i]
    <3>1. CASE i = 0
      BY <3>1
    <3>2. CASE i # 0
      <4>1. i - 1 \in 0 .. (n - 1) /\ (i - 1) + 1 = i /\ i - 1 # n
        BY <3>2
      <4>2. h[i - 1] = f[i] /\ f[i] \in S /\ f[i] # NULL
        BY <3>2, <4>1, TaskListAssumption
      <4>3. Step(h)[i] = l.next[f[i]]
        BY <3>2, <4>2
      <4>4. CASE i = n
        BY <4>3, <4>4
      <4>5. CASE i # n
        <5>1. i \in 1 .. (n - 1)
          BY <3>2, <4>5
        <5> QED BY <4>3, <4>5, <5>1
      <4> QED BY <4>4, <4>5
    <3> QED BY <3>1, <3>2
  <2>2. DOMAIN h = 0 .. n /\ DOMAIN Step(h) = 0 .. n
    OBVIOUS
  <2> QED BY <2>1, <2>2
<1>3. path = Step(path)
  <2> HIDE DEF h, path, Step, Chain
  <2> QED BY <1>1, <1>2, Zenon
<1> HIDE DEF path, h
<1>4. path[0] = f[1]
  BY <1>3
<1>5. ASSUME NEW i \in 1 .. (n - 1), path[i - 1] = f[i] PROVE path[i] = f[i + 1]
  <2>1. i \in 0 .. n /\ i # 0 /\ i \in 1 .. n
    OBVIOUS
  <2>2. f[i] # NULL
    BY <2>1, TaskListAssumption
  <2>3. path[i] = l.next[path[i - 1]]
    BY <1>3, <1>5, <2>1, <2>2
  <2> QED BY <1>5, <2>3
<1> DEFINE T == {i \in 0 .. (n - 1) : path[i] # f[i + 1]}
<1>6. T = {}
  <2>1. SUFFICES ASSUME T # {} PROVE FALSE
    OBVIOUS
  <2>a. T \subseteq Nat
    OBVIOUS
  <2>2. PICK i \in T : \A j \in T : i <= j
    <3> HIDE DEF T, Chain
    <3> QED BY <2>1, <2>a, LeastNatural
  <2>3. i # 0
    BY <1>4, <2>2
  <2>4. i - 1 \in 0 .. (n - 1) /\ i \in 1 .. (n - 1) /\ (i - 1) + 1 = i
    BY <2>2, <2>3
  <2>5. path[i - 1] = f[i]
    <3>1. ~(i <= i - 1)
      BY <2>4
    <3>2. i - 1 \notin T
      BY <2>2, <3>1
    <3> QED BY <2>4, <3>2
  <2> QED BY <1>5, <2>2, <2>4, <2>5
<1> QED BY <1>6 DEF path

LEMMA ChainIsTheList ==
  ASSUME allocated \subseteq Tasks, Chained(tl, allocated)
  PROVE  ListHoldsTheTasks
<1>1. PICK n \in Nat \ {0} : \E f : Chain(tl, allocated, n, f)
  BY DEF Chained
<1>2. PICK f : Chain(tl, allocated, n, f)
  BY <1>1
<1>3. Cardinality(allocated) = n
  <2>1. f \in Bijection(1 .. n, allocated)
    BY <1>2 DEF Chain, Bijection, Injection, Surjection, IsInjective
  <2>2. ExistsBijection(1 .. n, allocated)
    BY <2>1 DEF ExistsBijection
  <2> QED BY <2>2, FS_CountingElements
<1> DEFINE path == Path(tl, n)
<1>4. \A i \in 0 .. (n - 1) : path[i] = f[i + 1]
  BY <1>2, ChainPath
<1> HIDE DEF path
<1>5. {path[i] : i \in 0 .. (n - 1)} = allocated
  <2>1. ASSUME NEW i \in 0 .. (n - 1) PROVE path[i] \in allocated
    BY <1>2, <1>4 DEF Chain
  <2>2. ASSUME NEW t \in allocated PROVE \E i \in 0 .. (n - 1) : path[i] = t
    <3>1. PICK j \in 1 .. n : f[j] = t
      BY <1>2 DEF Chain
    <3>2. j - 1 \in 0 .. (n - 1) /\ (j - 1) + 1 = j
      OBVIOUS
    <3> QED BY <1>4, <3>1, <3>2
  <2> QED BY <2>1, <2>2
<1>6. path[n - 1] = tl.tail
  <2>1. n - 1 \in 0 .. (n - 1) /\ (n - 1) + 1 = n
    OBVIOUS
  <2> QED BY <1>2, <1>4, <2>1 DEF Chain
<1> QED BY <1>3, <1>5, <1>6 DEF ListHoldsTheTasks, path
-----------------------------------------------------------------------------
LEMMA Constants ==
  /\ NULL \notin Tasks /\ NULL \notin Procs
  /\ PROCESS_MAX_PROCESSES \in Nat \ {0}
  /\ Pids \subseteq Nat /\ 0 \in Pids /\ Pids \subseteq Slots
  /\ Beyond \in Nat \ {0} /\ Beyond \in Slots
  /\ Entry \in Ctx /\ KernelCtx \in Ctx /\ UserCtx \subseteq Ctx
  BY TaskListAssumption, ProcessAssumption DEF Pids, Slots, Beyond, Ctx

(* process_get_free_process_id returns a free entry of the table, or the   *)
(* error value if there is none.                                           *)
LEMMA FreePid ==
  ASSUME NEW list
  PROVE  LET pid == process_get_free_process_id(list)
         IN  /\ pid \in Slots
             /\ (\E q \in Pids : list[q] = NULL) =>
                  /\ pid \in Pids /\ list[pid] = NULL
                  /\ \A q \in Pids : list[q] = NULL => pid <= q
             /\ (\A q \in Pids : list[q] # NULL) => pid = Beyond
<1> DEFINE T == {q \in Pids : list[q] = NULL}
           pid == process_get_free_process_id(list)
<1>1. CASE \E q \in Pids : list[q] = NULL
  <2>1. T \subseteq Nat /\ T # {}
    BY <1>1, Constants
  <2>2. PICK x \in T : \A y \in T : x <= y
    BY <2>1, LeastNatural
  <2>3. \E q \in Pids : list[q] = NULL /\ \A r \in Pids : list[r] = NULL => q <= r
    BY <2>2
  <2>4. /\ pid \in Pids /\ list[pid] = NULL
        /\ \A q \in Pids : list[q] = NULL => pid <= q
    BY <1>1, <2>3 DEF process_get_free_process_id
  <2> QED BY <1>1, <2>4, Constants
<1>2. CASE \A q \in Pids : list[q] # NULL
  BY <1>2, Constants DEF process_get_free_process_id
<1> QED BY <1>1, <1>2

LEMMA LoadFacts ==
  ASSUME open_fds \in 0 .. FS_TOTAL_FILE_DESCRIPTORS,
         NEW load \in process_load_data
  PROVE  open_fds + load.fds \in 0 .. FS_TOTAL_FILE_DESCRIPTORS
  BY ProcessAssumption
     DEF process_load_data, gloader_load_elf, process_load_binary, NotLoaded
-----------------------------------------------------------------------------
Running == phase \in {"window", "user"}

(* Every live process has a task of its own and there are no others.       *)
TasksOwned ==
  /\ \A p \in live : proc[p].task \in allocated
  /\ \A p, q \in live : proc[p].task = proc[q].task => p = q
  /\ \A t \in allocated : \E p \in live : proc[p].task = t

(* Before the shell is created nothing is.                                 *)
BootState ==
  /\ ~Running => live = {} /\ allocated = {} /\ tl.head = NULL
  /\ phase = "init" => tl = EmptyList /\ process_list = [s \in Slots |-> NULL]
  /\ phase = "window" => tl.cur = tl.head /\ current_process = process_list[0]

(* The shell has pid 0 and no other process ever gets it.                  *)
ShellFirst ==
  Running => /\ process_list[0] \in live
             /\ proc[process_list[0]].pid = 0
             /\ proc[process_list[0]].task = tl.head
             /\ \A p \in live : proc[p].pid = 0 => p = process_list[0]

TasksChained == Running => Chained(tl, allocated)

CoreInv ==
  /\ TypeOK
  /\ TasksOwned
  /\ BootState
  /\ ShellFirst
  /\ TasksChained
  /\ RunningAgrees
  /\ RunningIsShellOrTail

LEMMA CoreInvInit == Init => CoreInv
<1> SUFFICES ASSUME Init PROVE CoreInv
  OBVIOUS
<1> USE DEF Init, TaskListInit
<1>1. EmptyList \in Lists
  BY DEF EmptyList, NoLinks, Lists, Refs
<1>2. TaskListTypeOK
  BY <1>1 DEF TaskListTypeOK, Lists, Refs
<1>3. TypeOK
  BY <1>2, Constants, ProcessAssumption DEF TypeOK
<1>4. TasksOwned /\ BootState /\ ShellFirst /\ TasksChained
      /\ RunningAgrees /\ RunningIsShellOrTail
  BY DEF TasksOwned, BootState, ShellFirst, TasksChained, RunningAgrees,
         RunningIsShellOrTail, Running, EmptyList
<1> QED BY <1>3, <1>4 DEF CoreInv

LEMMA CoreTypes ==
  ASSUME CoreInv
  PROVE  /\ tl \in Lists
         /\ allocated \subseteq Tasks /\ live \subseteq Procs
         /\ open_fds \in 0 .. FS_TOTAL_FILE_DESCRIPTORS
         /\ cpu \in Ctx /\ registers \in [Tasks -> Ctx] /\ left \in [Tasks -> Ctx]
         /\ proc \in [Procs -> [pid : Slots, task : Tasks \cup {NULL}]]
         /\ process_list \in [Slots -> Procs \cup {NULL}]
  BY DEF CoreInv, TypeOK, TaskListTypeOK, Lists, Refs

LEMMA SavedType ==
  ASSUME CoreInv, Running
  PROVE  /\ tl.cur \in Tasks /\ tl.cur \in allocated
         /\ Saved \in [Tasks -> Ctx]
<1>1. tl.head \in allocated
  BY ChainEnds DEF CoreInv, TasksChained
<1>2. tl.cur \in allocated
  BY <1>1 DEF CoreInv, RunningAgrees, BootState, Running
<1> QED BY <1>2, CoreTypes DEF Saved

(* A process_new that fails late adds its task and deletes it again, which *)
(* leaves the list of the others as it was.                                *)
LEMMA FailedNew ==
  ASSUME CoreInv, Running, ProcessNewFails
  PROVE  /\ tl' \in Lists
         /\ tl'.head = tl.head /\ tl'.tail = tl.tail /\ tl'.cur = tl.cur
         /\ Chained(tl', allocated)
         /\ UNCHANGED <<procVars, allocated>>
         /\ open_fds' \in 0 .. FS_TOTAL_FILE_DESCRIPTORS
<1>0. Chained(tl, allocated)
  BY DEF CoreInv, TasksChained
<1>1. PICK load \in process_load_data :
        \/ ProcessNewFailsEarly(load)
        \/ \E t \in Tasks : ProcessNewFailsMapping(t, load)
  BY DEF ProcessNewFails
<1>2. open_fds' \in 0 .. FS_TOTAL_FILE_DESCRIPTORS
  BY <1>1, LoadFacts, CoreTypes DEF ProcessNewFailsEarly, ProcessNewFailsMapping
<1>3. CASE ProcessNewFailsEarly(load)
  BY <1>0, <1>2, <1>3, CoreTypes DEF ProcessNewFailsEarly
<1>4. ASSUME NEW t \in Tasks, ProcessNewFailsMapping(t, load)
      PROVE  /\ tl' \in Lists
             /\ tl'.head = tl.head /\ tl'.tail = tl.tail /\ tl'.cur = tl.cur
             /\ Chained(tl', allocated)
             /\ UNCHANGED <<procVars, allocated>>
  <2> DEFINE m == task_list_add(ZeroedLinks(tl, t), t)
  <2>1. t \notin allocated /\ tl' = task_list_delete(m, t)
        /\ UNCHANGED <<procVars, allocated>>
    BY <1>4 DEF ProcessNewFailsMapping
  <2>2. tl.head \in allocated /\ tl.tail \in allocated /\ tl.cur \in allocated
    BY <1>0, ChainEnds, SavedType
  <2>3. tl.head # NULL /\ tl.tail \in Tasks \ {t}
    BY <2>1, <2>2, CoreTypes, Constants
  <2>4. /\ m \in Lists
        /\ m.head = tl.head /\ m.tail = t /\ m.cur = tl.cur
        /\ m.next[tl.tail] = t /\ m.prev[t] = tl.tail
        /\ \A u \in Tasks \ {tl.tail, t} : m.next[u] = tl.next[u]
        /\ \A u \in Tasks \ {t} : m.prev[u] = tl.prev[u]
    BY <2>3, Added, CoreTypes
  <2> HIDE DEF m
  <2>5. /\ tl' \in Lists
        /\ tl'.head = tl.head /\ tl'.tail = tl.tail /\ tl'.cur = tl.cur
        /\ tl'.next = m.next /\ tl'.prev = m.prev
    BY <2>1, <2>2, <2>4, TailDeleted
  <2>6. Chained(tl', allocated)
    <3>1. \A u \in allocated \ {tl.tail} : tl'.next[u] = tl.next[u]
      BY <2>1, <2>4, <2>5, CoreTypes
    <3>2. \A u \in allocated : tl'.prev[u] = tl.prev[u]
      BY <2>1, <2>4, <2>5, CoreTypes
    <3> QED BY <1>0, <2>5, <3>1, <3>2, ChainKeep
  <2> QED BY <2>1, <2>5, <2>6
<1> QED BY <1>1, <1>2, <1>3, <1>4

(* A process_new that succeeds.                                            *)
LEMMA NewProcess ==
  ASSUME CoreInv, NEW p \in Procs, NEW t \in Tasks, NEW load \in process_load_data,
         NEW list \in Lists, ProcessNewSucceeds(p, t, load, p, list)
  PROVE  LET pid == process_get_free_process_id(process_list)
         IN  /\ p \notin live /\ t \notin allocated /\ pid \in Slots
             /\ live' = live \cup {p} /\ allocated' = allocated \cup {t}
             /\ current_process' = p /\ tl' = list
             /\ proc' \in [Procs -> [pid : Slots, task : Tasks \cup {NULL}]]
             /\ proc'[p].pid = pid /\ proc'[p].task = t
             /\ \A q \in live : proc'[q] = proc[q]
             /\ process_list' \in [Slots -> Procs \cup {NULL}]
             /\ process_list'[pid] = p
             /\ \A s \in Slots \ {pid} : process_list'[s] = process_list[s]
             /\ open_fds' \in 0 .. FS_TOTAL_FILE_DESCRIPTORS
             /\ TasksOwned'
<1> DEFINE pid == process_get_free_process_id(process_list)
<1>1. pid \in Slots
  BY FreePid
<1>2. /\ p \notin live /\ t \notin allocated
      /\ proc' = [proc EXCEPT ![p] = [pid |-> pid, task |-> t]]
      /\ live' = live \cup {p} /\ allocated' = allocated \cup {t}
      /\ process_list' = [process_list EXCEPT ![pid] = p]
      /\ current_process' = p /\ tl' = list
      /\ open_fds' = open_fds + load.fds
  BY DEF ProcessNewSucceeds
<1>3. open_fds' \in 0 .. FS_TOTAL_FILE_DESCRIPTORS
  BY <1>2, LoadFacts, CoreTypes
<1> HIDE DEF pid
<1>4. /\ proc' \in [Procs -> [pid : Slots, task : Tasks \cup {NULL}]]
      /\ proc'[p].pid = pid /\ proc'[p].task = t
      /\ \A q \in live : proc'[q] = proc[q]
  BY <1>1, <1>2, CoreTypes
<1>5. /\ process_list' \in [Slots -> Procs \cup {NULL}]
      /\ process_list'[pid] = p
      /\ \A s \in Slots \ {pid} : process_list'[s] = process_list[s]
  BY <1>1, <1>2, CoreTypes
<1>6. TasksOwned'
  BY <1>2, <1>4 DEF CoreInv, TasksOwned
<1> QED BY <1>1, <1>2, <1>3, <1>4, <1>5, <1>6 DEF pid

LEMMA BootShellStep ==
  ASSUME CoreInv, NEW p \in Procs, NEW t \in Tasks, BootShell(p, t)
  PROVE  CoreInv'
<1> DEFINE list == task_list_add(ZeroedLinks(tl, t), t)
           pid == process_get_free_process_id(process_list)
<1>1. PICK load \in process_load_data : ProcessNewSucceeds(p, t, load, p, list)
  BY DEF BootShell
<1>2. /\ tl = EmptyList /\ process_list = [s \in Slots |-> NULL]
      /\ live = {} /\ allocated = {}
  BY DEF BootShell, CoreInv, BootState, Running
<1>3. list \in Lists /\ list.head = t /\ list.tail = t /\ list.cur = t
  BY <1>2, FirstAdded
<1>4. pid = 0
  <2>1. process_list[0] = NULL
    BY <1>2, Constants
  <2>2. pid \in Pids /\ pid <= 0
    BY <2>1, FreePid, Constants
  <2> HIDE DEF pid
  <2> QED BY <2>2, Constants DEF Pids
<1> HIDE DEF list, pid
<1>5. /\ live' = {p} /\ allocated' = {t}
      /\ current_process' = p /\ tl' = list
      /\ proc' \in [Procs -> [pid : Slots, task : Tasks \cup {NULL}]]
      /\ proc'[p].pid = 0 /\ proc'[p].task = t
      /\ process_list' \in [Slots -> Procs \cup {NULL}]
      /\ process_list'[0] = p
      /\ open_fds' \in 0 .. FS_TOTAL_FILE_DESCRIPTORS
      /\ TasksOwned'
  BY <1>1, <1>2, <1>3, <1>4, NewProcess DEF pid
<1>6. phase' = "window" /\ UNCHANGED <<cr3, cpu>>
      /\ registers' \in [Tasks -> Ctx] /\ left' \in [Tasks -> Ctx]
  BY CoreTypes, Constants DEF BootShell
<1>7. TypeOK'
  BY <1>3, <1>5, <1>6 DEF CoreInv, TypeOK, TaskListTypeOK, Lists, Refs
<1>8. Chained(tl', allocated')
  BY <1>3, <1>5, ChainSingle
<1> QED BY <1>3, <1>5, <1>6, <1>7, <1>8
        DEF CoreInv, BootState, ShellFirst, TasksChained, RunningAgrees,
            RunningIsShellOrTail, Running

(* process_new fails at boot.                                              *)
LEMMA PanicStep == ASSUME CoreInv, kpanic PROVE CoreInv'
<1>0. /\ phase = "init" /\ phase' = "panic"
      /\ tl = EmptyList /\ live = {} /\ allocated = {}
  BY DEF kpanic, CoreInv, BootState, Running
<1>1. PICK load \in process_load_data :
        \/ ProcessNewFailsEarly(load)
        \/ \E t \in Tasks : ProcessNewFailsMapping(t, load)
  BY DEF kpanic, ProcessNewFails
<1>2. open_fds' \in 0 .. FS_TOTAL_FILE_DESCRIPTORS
      /\ UNCHANGED <<procVars, allocated>>
  BY <1>1, LoadFacts, CoreTypes DEF ProcessNewFailsEarly, ProcessNewFailsMapping
<1>3. tl' \in Lists /\ tl'.head = NULL
  <2>1. CASE ProcessNewFailsEarly(load)
    BY <1>0, <2>1, CoreTypes DEF ProcessNewFailsEarly, EmptyList
  <2>2. ASSUME NEW t \in Tasks, ProcessNewFailsMapping(t, load)
        PROVE  tl' \in Lists /\ tl'.head = NULL
    <3> DEFINE m == task_list_add(ZeroedLinks(tl, t), t)
    <3>1. tl' = task_list_delete(m, t)
      BY <2>2 DEF ProcessNewFailsMapping
    <3>2. m \in Lists /\ m.head = t /\ m.cur = t /\ m.next[t] = NULL
      BY <1>0 DEF task_list_add, ZeroedLinks, EmptyList, NoLinks, Lists, Refs
    <3> HIDE DEF m
    <3>3. task_list_delete(m, t) = [DeleteHead(m) EXCEPT !.cur = NULL]
      BY <3>2 DEF task_list_delete
    <3>4. DeleteHead(m) = [m EXCEPT !.head = NULL]
      BY <3>2 DEF DeleteHead
    <3> QED BY <3>1, <3>2, <3>3, <3>4 DEF Lists, Refs
  <2> QED BY <1>1, <2>1, <2>2
<1>4. TypeOK'
  BY <1>0, <1>2, <1>3 DEF kpanic, CoreInv, TypeOK, TaskListTypeOK, Lists, Refs,
                          procVars
<1> QED BY <1>0, <1>2, <1>3, <1>4
        DEF CoreInv, BootState, ShellFirst, TasksChained, RunningAgrees,
            RunningIsShellOrTail, Running, TasksOwned, procVars

(* A change of the current task alone.                                     *)
LEMMA CurKeepsChain ==
  ASSUME NEW l \in Lists, NEW S, Chained(l, S), NEW t \in Refs
  PROVE  LET m == [l EXCEPT !.cur = t]
         IN  /\ m \in Lists /\ Chained(m, S)
             /\ m.head = l.head /\ m.tail = l.tail /\ m.cur = t
<1> DEFINE m == [l EXCEPT !.cur = t]
<1>1. m \in Lists /\ m.head = l.head /\ m.tail = l.tail /\ m.cur = t
      /\ m.next = l.next /\ m.prev = l.prev
  BY DEF Lists
<1> HIDE DEF m
<1>2. Chained(m, S)
  BY <1>1, ChainKeep
<1> QED BY <1>1, <1>2 DEF m

LEMMA FirstTaskStep == ASSUME CoreInv, gammaos_first_ever_task PROVE CoreInv'
<1> USE DEF gammaos_first_ever_task, load_page_directory, enter_task
<1>0. Running /\ Chained(tl, allocated) /\ tl.head \in allocated
  BY ChainEnds DEF CoreInv, TasksChained, Running
<1>1. phase' = "user" /\ tl' = [tl EXCEPT !.cur = tl.head]
      /\ cr3' = tl.head /\ cpu' \in Ctx
      /\ UNCHANGED <<process_list, current_process, proc, live, allocated,
                     registers, open_fds, left>>
  BY <1>0, CoreTypes DEF procVars
<1>2. /\ tl' \in Lists /\ Chained(tl', allocated)
      /\ tl'.head = tl.head /\ tl'.tail = tl.tail /\ tl'.cur = tl.head
  BY <1>0, <1>1, CurKeepsChain, CoreTypes DEF Refs
<1>3. TypeOK'
  BY <1>0, <1>1, <1>2, CoreTypes
     DEF CoreInv, TypeOK, TaskListTypeOK, Lists, Refs
<1> QED BY <1>0, <1>1, <1>2, <1>3
        DEF CoreInv, BootState, ShellFirst, TasksChained, RunningAgrees,
            RunningIsShellOrTail, Running, TasksOwned

(* Handlers that return to the task they interrupted.                      *)
LEMMA HandlerStep ==
  ASSUME CoreInv,
         \/ \E handled \in BOOLEAN : general_interrupt_handler(handled)
         \/ isr_0x80_returns
  PROVE  CoreInv'
<1> USE DEF general_interrupt_handler, isr_0x80_returns, load_page_directory
<1>0. Running
  BY DEF Running
<1>1. cr3' = tl.cur /\ registers' \in [Tasks -> Ctx]
      /\ UNCHANGED <<phase, process_list, current_process, proc, live, tl,
                     allocated, cpu, open_fds, left>>
  BY <1>0, SavedType, CoreTypes DEF procVars
<1>2. TypeOK'
  BY <1>0, <1>1, SavedType DEF CoreInv, TypeOK, TaskListTypeOK
<1>3. TasksOwned' /\ BootState' /\ ShellFirst' /\ TasksChained'
      /\ RunningIsShellOrTail'
  BY <1>1 DEF CoreInv, TasksOwned, BootState, ShellFirst, TasksChained,
              RunningIsShellOrTail, Running
<1>4. RunningAgrees'
  BY <1>1 DEF CoreInv, RunningAgrees
<1> QED BY <1>2, <1>3, <1>4 DEF CoreInv

LEMMA UserStepStep == ASSUME CoreInv, UserStep PROVE CoreInv'
<1>1. cpu' \in Ctx
      /\ UNCHANGED <<phase, process_list, current_process, proc, live, tl,
                     allocated, registers, cr3, open_fds, left>>
  BY Constants DEF UserStep, procVars
<1>2. TypeOK'
  BY <1>1 DEF CoreInv, TypeOK, TaskListTypeOK
<1>3. TasksOwned' /\ BootState' /\ ShellFirst' /\ TasksChained'
      /\ RunningIsShellOrTail' /\ RunningAgrees'
  BY <1>1 DEF CoreInv, TasksOwned, BootState, ShellFirst, TasksChained,
              RunningIsShellOrTail, RunningAgrees, Running
<1> QED BY <1>2, <1>3 DEF CoreInv

LEMMA ExecFailsStep == ASSUME CoreInv, EXEC_fails PROVE CoreInv'
<1>0. Running /\ phase = "user" /\ phase' = "user"
  BY DEF EXEC_fails, Running
<1>1. /\ tl' \in Lists
      /\ tl'.head = tl.head /\ tl'.tail = tl.tail /\ tl'.cur = tl.cur
      /\ Chained(tl', allocated)
      /\ UNCHANGED <<process_list, current_process, proc, live, allocated>>
      /\ open_fds' \in 0 .. FS_TOTAL_FILE_DESCRIPTORS
  BY <1>0, FailedNew DEF EXEC_fails, procVars
<1>2. cr3' = tl.cur /\ registers' \in [Tasks -> Ctx] /\ UNCHANGED <<cpu, left>>
  BY <1>0, SavedType DEF EXEC_fails, load_page_directory
<1>3. TypeOK'
  BY <1>0, <1>1, <1>2, SavedType
     DEF CoreInv, TypeOK, TaskListTypeOK, Lists, Refs
<1>4. TasksOwned' /\ BootState' /\ ShellFirst' /\ TasksChained'
      /\ RunningIsShellOrTail'
  BY <1>0, <1>1 DEF CoreInv, TasksOwned, BootState, ShellFirst, TasksChained,
                    RunningIsShellOrTail, Running
<1>5. RunningAgrees'
  BY <1>0, <1>1, <1>2 DEF CoreInv, RunningAgrees
<1> QED BY <1>3, <1>4, <1>5 DEF CoreInv

LEMMA ExecStep ==
  ASSUME CoreInv, NEW p \in Procs, NEW t \in Tasks, EXEC(p, t)
  PROVE  CoreInv'
<1> DEFINE m == task_list_add(ZeroedLinks(tl, t), t)
           list == [m EXCEPT !.cur = t]
           pid == process_get_free_process_id(process_list)
<1>0. Running /\ phase = "user" /\ phase' = "user" /\ Chained(tl, allocated)
  BY DEF EXEC, Running, CoreInv, TasksChained
<1>1. PICK load \in process_load_data : ProcessNewSucceeds(p, t, load, p, list)
  BY DEF EXEC
<1>2. t \notin allocated
  BY <1>1 DEF ProcessNewSucceeds
<1>3. tl.head # NULL /\ tl.tail \in Tasks \ {t}
  BY <1>0, <1>2, ChainEnds, CoreTypes, Constants
<1>4. /\ m \in Lists
      /\ m.head = tl.head /\ m.tail = t /\ m.cur = tl.cur
      /\ m.next[tl.tail] = t /\ m.prev[t] = tl.tail
      /\ \A u \in Tasks \ {tl.tail, t} : m.next[u] = tl.next[u]
      /\ \A u \in Tasks \ {t} : m.prev[u] = tl.prev[u]
  BY <1>3, Added, CoreTypes
<1> HIDE DEF m
<1>5. Chained(m, allocated \cup {t})
  BY <1>0, <1>2, <1>4, ChainPush, CoreTypes
<1>6. /\ list \in Lists /\ Chained(list, allocated \cup {t})
      /\ list.head = tl.head /\ list.tail = t /\ list.cur = t
  BY <1>4, <1>5, CurKeepsChain DEF Refs
<1> HIDE DEF list
<1>7. pid # 0 /\ pid \in Slots
  <2>1. process_list[0] # NULL
    BY <1>0, CoreTypes, Constants DEF CoreInv, ShellFirst
  <2>2. pid \in Slots
    BY FreePid
  <2>3. CASE \E q \in Pids : process_list[q] = NULL
    BY <2>1, <2>2, <2>3, FreePid
  <2>4. CASE \A q \in Pids : process_list[q] # NULL
    BY <2>2, <2>4, FreePid, Constants
  <2> QED BY <2>2, <2>3, <2>4
<1> HIDE DEF pid
<1>8. /\ p \notin live
      /\ live' = live \cup {p} /\ allocated' = allocated \cup {t}
      /\ current_process' = p /\ tl' = list
      /\ proc' \in [Procs -> [pid : Slots, task : Tasks \cup {NULL}]]
      /\ proc'[p].pid = pid /\ proc'[p].task = t
      /\ \A q \in live : proc'[q] = proc[q]
      /\ process_list' \in [Slots -> Procs \cup {NULL}]
      /\ process_list'[0] = process_list[0]
      /\ open_fds' \in 0 .. FS_TOTAL_FILE_DESCRIPTORS
      /\ TasksOwned'
  BY <1>1, <1>6, <1>7, NewProcess, Constants DEF pid
<1>9. cr3' = t /\ cpu' \in Ctx /\ registers' \in [Tasks -> Ctx]
      /\ left' \in [Tasks -> Ctx]
  BY <1>0, SavedType, CoreTypes, Constants
     DEF EXEC, load_page_directory, enter_task
<1>10. TypeOK'
  BY <1>0, <1>6, <1>8, <1>9, CoreTypes
     DEF CoreInv, TypeOK, TaskListTypeOK, Lists, Refs
<1>11. ShellFirst'
  BY <1>0, <1>6, <1>7, <1>8 DEF CoreInv, ShellFirst, Running
<1>12. TasksChained' /\ BootState' /\ RunningAgrees' /\ RunningIsShellOrTail'
  BY <1>0, <1>6, <1>8, <1>9
     DEF TasksChained, BootState, RunningAgrees, RunningIsShellOrTail, Running
<1> QED BY <1>8, <1>10, <1>11, <1>12 DEF CoreInv

(* What EXIT finds: the running task is the tail, and not the shell's.     *)
LEMMA ExitVictim ==
  ASSUME CoreInv, EXIT
  PROVE  /\ Running /\ phase = "user" /\ phase' = "user"
         /\ current_process \in live /\ process_list[0] \in live
         /\ current_process # process_list[0]
         /\ proc[current_process].task = tl.tail /\ tl.cur = tl.tail
         /\ proc[current_process].pid \in Slots \ {0}
         /\ proc[process_list[0]].task = tl.head
         /\ tl.head # tl.tail /\ tl.head \in allocated /\ tl.tail \in allocated
<1>1. Running /\ phase = "user" /\ phase' = "user"
      /\ current_process # process_list[0]
  BY DEF EXIT, Running
<1>2. /\ process_list[0] \in live /\ current_process \in live
      /\ proc[process_list[0]].task = tl.head
      /\ proc[current_process].task = tl.cur
      /\ proc[current_process].pid # 0
      /\ tl.cur \in {tl.head, tl.tail}
  BY <1>1 DEF CoreInv, ShellFirst, RunningAgrees, RunningIsShellOrTail
<1>3. tl.cur # tl.head
  BY <1>1, <1>2 DEF CoreInv, TasksOwned
<1>4. tl.head \in allocated /\ tl.tail \in allocated
  BY <1>1, ChainEnds DEF CoreInv, TasksChained
<1>5. proc[current_process].pid \in Slots
  BY <1>2, CoreTypes
<1> QED BY <1>1, <1>2, <1>3, <1>4, <1>5

LEMMA ExitStep == ASSUME CoreInv, EXIT PROVE CoreInv'
<1> DEFINE shell == process_list[0]
           pid == proc[current_process].pid
           list == task_list_delete(tl, tl.tail)
<1>1. /\ Running /\ phase = "user" /\ phase' = "user"
      /\ current_process \in live /\ shell \in live /\ current_process # shell
      /\ proc[current_process].task = tl.tail /\ tl.cur = tl.tail
      /\ pid \in Slots \ {0} /\ proc[shell].task = tl.head
      /\ tl.head # tl.tail /\ tl.head \in allocated /\ tl.tail \in allocated
  BY ExitVictim
<1>2. /\ process_list' = [process_list EXCEPT ![pid] = NULL]
      /\ live' = live \ {current_process}
      /\ allocated' = allocated \ {tl.tail}
      /\ current_process' = shell
      /\ tl' = [list EXCEPT !.cur = tl.head]
      /\ cr3' = tl.head /\ cpu' = registers[tl.head]
      /\ UNCHANGED <<proc, open_fds>>
  BY <1>1 DEF EXIT, process_kill, process_back_to_gshell, load_page_directory,
              enter_task
<1>3. registers' \in [Tasks -> Ctx] /\ left' \in [Tasks -> Ctx] /\ cpu' \in Ctx
  BY <1>1, <1>2, SavedType, CoreTypes DEF EXIT
<1>4. /\ list \in Lists
      /\ list.head = tl.head /\ list.tail = tl.prev[tl.tail]
      /\ list.next = tl.next /\ list.prev = tl.prev
  BY <1>1, TailDeleted, CoreTypes
<1>5. Chained(list, allocated \ {tl.tail})
  <2>1. Chained(tl, allocated)
    BY <1>1 DEF CoreInv, TasksChained
  <2> HIDE DEF list
  <2> QED BY <1>1, <1>4, <2>1, ChainPop, CoreTypes
<1> HIDE DEF list, pid, shell
<1>6. /\ tl' \in Lists /\ Chained(tl', allocated')
      /\ tl'.head = tl.head /\ tl'.cur = tl.head
  BY <1>1, <1>2, <1>4, <1>5, CurKeepsChain, CoreTypes DEF Refs
<1>7. /\ process_list' \in [Slots -> Procs \cup {NULL}]
      /\ process_list'[0] = shell
  BY <1>1, <1>2, CoreTypes, Constants DEF shell
<1>8. TypeOK'
  BY <1>1, <1>2, <1>3, <1>6, <1>7, CoreTypes
     DEF CoreInv, TypeOK, TaskListTypeOK, Lists, Refs
<1>9. TasksOwned'
  BY <1>1, <1>2 DEF CoreInv, TasksOwned
<1>10. ShellFirst'
  BY <1>1, <1>2, <1>6, <1>7 DEF CoreInv, ShellFirst, Running, shell
<1>11. TasksChained' /\ BootState' /\ RunningAgrees' /\ RunningIsShellOrTail'
  BY <1>1, <1>2, <1>6, <1>7
     DEF TasksChained, BootState, RunningAgrees, RunningIsShellOrTail, Running
<1> QED BY <1>8, <1>9, <1>10, <1>11 DEF CoreInv

LEMMA CoreInvStep == CoreInv /\ [Next]_vars => CoreInv'
<1> SUFFICES ASSUME CoreInv, [Next]_vars PROVE CoreInv'
  OBVIOUS
<1>1. ASSUME NEW p \in Procs, NEW t \in Tasks, BootShell(p, t) PROVE CoreInv'
  BY <1>1, BootShellStep
<1>2. CASE kpanic
  BY <1>2, PanicStep
<1>3. CASE gammaos_first_ever_task
  BY <1>3, FirstTaskStep
<1>4. CASE \/ \E handled \in BOOLEAN : general_interrupt_handler(handled)
           \/ isr_0x80_returns
  BY <1>4, HandlerStep
<1>5. CASE UserStep
  BY <1>5, UserStepStep
<1>6. ASSUME NEW p \in Procs, NEW t \in Tasks, EXEC(p, t) PROVE CoreInv'
  BY <1>6, ExecStep
<1>7. CASE EXEC_fails
  BY <1>7, ExecFailsStep
<1>8. CASE EXIT
  BY <1>8, ExitStep
<1>9. CASE PanicLoop \/ UNCHANGED vars
  <2>1. UNCHANGED <<phase, process_list, current_process, proc, live, tl,
                    allocated, registers, cr3, cpu, open_fds, left>>
    BY <1>9 DEF PanicLoop, vars, procVars
  <2>2. TypeOK'
    BY <2>1 DEF CoreInv, TypeOK, TaskListTypeOK
  <2>3. TasksOwned' /\ BootState' /\ ShellFirst' /\ TasksChained'
        /\ RunningAgrees' /\ RunningIsShellOrTail'
    BY <2>1 DEF CoreInv, TasksOwned, BootState, ShellFirst, TasksChained,
                RunningAgrees, RunningIsShellOrTail, Running
  <2> QED BY <2>2, <2>3 DEF CoreInv
<1> QED BY <1>1, <1>2, <1>3, <1>4, <1>5, <1>6, <1>7, <1>8, <1>9 DEF Next

LEMMA CoreInvariant == Spec => []CoreInv
  BY CoreInvInit, CoreInvStep, PTL DEF Spec

(* Tables, lists and contexts keep their types, the count of descriptors   *)
(* stays within the table of the file system.                              *)
THEOREM ProcessTypeSafety == Spec => []TypeOK
<1>1. CoreInv => TypeOK
  BY DEF CoreInv
<1> QED BY <1>1, CoreInvariant, PTL

(* current_process, cur_task and cr3 name one live process whenever user   *)
(* code runs, however many processes were started, failed or exited, also  *)
(* when process_list has no free entry left.                               *)
THEOREM ProcessRunningAgrees == Spec => []RunningAgrees
<1>1. CoreInv => RunningAgrees
  BY DEF CoreInv
<1> QED BY <1>1, CoreInvariant, PTL

(* process_back_to_gshell finds the shell in slot 0, at the head.          *)
THEOREM ProcessShellInSlot0 == Spec => []ShellInSlot0
<1>1. CoreInv => ShellInSlot0
  BY DEF CoreInv, ShellFirst, ShellInSlot0, Running
<1> QED BY <1>1, CoreInvariant, PTL

(* EXIT always deletes the tail of the task list.                          *)
THEOREM ProcessRunningIsShellOrTail == Spec => []RunningIsShellOrTail
<1>1. CoreInv => RunningIsShellOrTail
  BY DEF CoreInv
<1> QED BY <1>1, CoreInvariant, PTL

(* The walk from task_list_head along next meets every live task once, no  *)
(* freed one, and ends at task_list_tail, for any number of tasks.         *)
THEOREM ProcessListMatches == Spec => []ListMatches
<1>1. CoreInv => ListMatches
  <2> SUFFICES ASSUME CoreInv, phase # "panic" PROVE ListHoldsTheTasks
    BY DEF ListMatches
  <2>1. CASE Running
    BY <2>1, ChainIsTheList, CoreTypes DEF CoreInv, TasksChained
  <2>2. CASE ~Running
    <3>1. allocated = {} /\ tl.head = NULL /\ Cardinality(allocated) = 0
      BY <2>2, FS_EmptySet DEF CoreInv, BootState
    <3> QED BY <3>1 DEF ListHoldsTheTasks
  <2> QED BY <2>1, <2>2
<1> QED BY <1>1, CoreInvariant, PTL
-----------------------------------------------------------------------------
(* Every task that is not running has its last context in registers.  The  *)
(* key that is struck before the shell runs is excluded: the context that  *)
(* is saved then is the kernel's.                                          *)
ContextInv ==
  /\ phase = "window" => \A t \in allocated : registers[t] = left[t]
  /\ phase = "user" => \A t \in allocated \ {tl.cur} : registers[t] = left[t]

LEMMA ContextInvInit == Init => ContextInv
  BY DEF Init, ContextInv

LEMMA ExecContexts ==
  ASSUME CoreInv, NEW p \in Procs, NEW t \in Tasks, EXEC(p, t)
  PROVE  /\ tl'.cur = t /\ allocated' = allocated \cup {t}
         /\ phase = "user" /\ phase' = "user" /\ cpu' = Entry
         /\ left'[t] = Entry /\ left'[tl.cur] = cpu /\ registers'[tl.cur] = cpu
         /\ \A u \in allocated \ {tl.cur} :
              registers'[u] = registers[u] /\ left'[u] = left[u]
<1>1. Running /\ phase = "user" /\ phase' = "user" /\ cpu' = Entry
      /\ registers' = [Saved EXCEPT ![t] = Entry]
      /\ left' = [left EXCEPT ![t] = Entry, ![tl.cur] = cpu]
  BY DEF EXEC, enter_task, Running
<1>2. t \notin allocated /\ allocated' = allocated \cup {t}
      /\ tl' = [task_list_add(ZeroedLinks(tl, t), t) EXCEPT !.cur = t]
  BY DEF EXEC, ProcessNewSucceeds
<1>3. tl'.cur = t
  <2>1. tl.head # NULL /\ tl.tail \in Tasks \ {t}
    BY <1>1, <1>2, ChainEnds, CoreTypes, Constants DEF CoreInv, TasksChained
  <2>2. task_list_add(ZeroedLinks(tl, t), t) \in Lists
    BY <2>1, Added, CoreTypes
  <2> QED BY <1>2, <2>2 DEF Lists
<1>4. tl.cur \in allocated /\ tl.cur \in Tasks
  BY <1>1, SavedType
<1>5. /\ left'[t] = Entry /\ left'[tl.cur] = cpu /\ registers'[tl.cur] = cpu
      /\ \A u \in allocated \ {tl.cur} :
           registers'[u] = registers[u] /\ left'[u] = left[u]
  BY <1>1, <1>2, <1>4, SavedType, CoreTypes DEF Saved
<1> QED BY <1>1, <1>2, <1>3, <1>5

LEMMA ExitContexts ==
  ASSUME CoreInv, EXIT
  PROVE  /\ tl'.cur = tl.head /\ tl.head \in allocated' /\ tl.head # tl.cur
         /\ phase = "user" /\ phase' = "user" /\ cpu' = registers[tl.head]
         /\ allocated' \subseteq allocated \ {tl.cur}
         /\ \A u \in allocated' : registers'[u] = registers[u] /\ left'[u] = left[u]
<1>1. /\ Running /\ phase = "user" /\ phase' = "user"
      /\ proc[current_process].task = tl.tail /\ tl.cur = tl.tail
      /\ proc[process_list[0]].task = tl.head
      /\ tl.head # tl.tail /\ tl.head \in allocated /\ tl.tail \in allocated
  BY ExitVictim
<1>2. /\ tl' = [task_list_delete(tl, tl.tail) EXCEPT !.cur = tl.head]
      /\ allocated' = allocated \ {tl.tail}
      /\ cpu' = registers[tl.head]
      /\ registers' = Saved /\ left' = [left EXCEPT ![tl.tail] = cpu]
  BY <1>1 DEF EXIT, process_kill, process_back_to_gshell, enter_task
<1>3. tl'.cur = tl.head
  <2>1. task_list_delete(tl, tl.tail) \in Lists
    BY <1>1, TailDeleted, CoreTypes
  <2> QED BY <1>2, <2>1 DEF Lists
<1>4. \A u \in allocated' : registers'[u] = registers[u] /\ left'[u] = left[u]
  BY <1>1, <1>2, SavedType, CoreTypes DEF Saved
<1> QED BY <1>1, <1>2, <1>3, <1>4

LEMMA ContextInvStep ==
  ASSUME ~KeyDuringBoot, CoreInv, ContextInv, [Next]_vars
  PROVE  ContextInv'
<1> USE DEF ContextInv
<1>1. ASSUME NEW p \in Procs, NEW t \in Tasks, BootShell(p, t) PROVE ContextInv'
  <2>1. allocated' = {t} /\ phase' = "window"
    BY <1>1 DEF BootShell, ProcessNewSucceeds, CoreInv, BootState, Running
  <2>2. registers'[t] = Entry /\ left'[t] = Entry
    BY <1>1, CoreTypes DEF BootShell
  <2> QED BY <2>1, <2>2
<1>2. CASE kpanic
  BY <1>2 DEF kpanic
<1>3. CASE gammaos_first_ever_task
  BY <1>3 DEF gammaos_first_ever_task
<1>4. ASSUME NEW handled \in BOOLEAN, general_interrupt_handler(handled)
      PROVE  ContextInv'
  <2>1. UNCHANGED <<phase, tl, allocated, left>>
    BY <1>4 DEF general_interrupt_handler
  <2>2. CASE registers' = registers
    BY <2>1, <2>2
  <2>3. CASE handled /\ registers' = Saved
    <3>1. phase = "user" /\ Running
      BY <1>4, <2>3 DEF general_interrupt_handler, Running
    <3> QED BY <2>1, <2>3, <3>1, SavedType, CoreTypes DEF Saved
  <2> QED BY <1>4, <2>2, <2>3 DEF general_interrupt_handler
<1>5. CASE isr_0x80_returns
  <2>1. Running
    BY <1>5 DEF isr_0x80_returns, Running
  <2> QED BY <1>5, <2>1, SavedType, CoreTypes DEF isr_0x80_returns, Saved
<1>6. CASE UserStep
  BY <1>6 DEF UserStep
<1>7. ASSUME NEW p \in Procs, NEW t \in Tasks, EXEC(p, t) PROVE ContextInv'
  BY <1>7, ExecContexts
<1>8. CASE EXEC_fails
  <2>1. Running /\ phase = "user"
    BY <1>8 DEF EXEC_fails, Running
  <2>2. tl'.cur = tl.cur /\ UNCHANGED allocated
    BY <1>8, <2>1, FailedNew DEF EXEC_fails
  <2>3. registers' = Saved /\ UNCHANGED <<phase, left>>
    BY <1>8 DEF EXEC_fails
  <2> QED BY <2>1, <2>2, <2>3, SavedType, CoreTypes DEF Saved
<1>9. CASE EXIT
  BY <1>9, ExitContexts
<1>10. CASE PanicLoop \/ UNCHANGED vars
  BY <1>10 DEF PanicLoop, vars
<1> QED BY <1>1, <1>2, <1>3, <1>4, <1>5, <1>6, <1>7, <1>8, <1>9, <1>10 DEF Next

LEMMA SwitchStep ==
  ASSUME CoreInv, ContextInv, [Next]_vars,
         phase' = "user", phase # "user" \/ tl'.cur # tl.cur
  PROVE  cpu' = left'[tl'.cur]
<1>1. CASE gammaos_first_ever_task
  <2>1. Running /\ phase = "window" /\ tl.head \in allocated
    BY <1>1, ChainEnds DEF gammaos_first_ever_task, Running, CoreInv, TasksChained
  <2>2. tl'.cur = tl.head /\ cpu' = registers[tl.head] /\ UNCHANGED left
    BY <1>1, CoreTypes DEF gammaos_first_ever_task, enter_task, Lists
  <2> QED BY <2>1, <2>2 DEF ContextInv
<1>2. ASSUME NEW p \in Procs, NEW t \in Tasks, EXEC(p, t)
      PROVE  cpu' = left'[tl'.cur]
  BY <1>2, ExecContexts
<1>3. CASE EXIT
  BY <1>3, ExitContexts DEF ContextInv
<1>4. CASE EXEC_fails
  <2>1. Running /\ phase = "user"
    BY <1>4 DEF EXEC_fails, Running
  <2>2. tl'.cur = tl.cur
    BY <1>4, <2>1, FailedNew DEF EXEC_fails
  <2> QED BY <2>1, <2>2
<1>5. CASE \/ \E p \in Procs, t \in Tasks : BootShell(p, t)
           \/ kpanic
  BY <1>5 DEF BootShell, kpanic
<1>6. CASE \/ PanicLoop
           \/ \E handled \in BOOLEAN : general_interrupt_handler(handled)
           \/ UserStep
           \/ isr_0x80_returns
           \/ UNCHANGED vars
  <2>1. UNCHANGED <<phase, tl>>
    BY <1>6 DEF PanicLoop, general_interrupt_handler, UserStep,
                isr_0x80_returns, vars
  <2> QED BY <2>1
<1> QED BY <1>1, <1>2, <1>3, <1>4, <1>5, <1>6 DEF Next

(* A task that is given the processor continues in the context in which it *)
(* left it, provided that no key is struck before the shell runs: the      *)
(* context that such a key would save belongs to kernel_start.             *)
THEOREM ProcessSwitchRestores ==
  ASSUME ~KeyDuringBoot
  PROVE  Spec => SwitchRestoresContext
<1>1. Init => ContextInv
  BY ContextInvInit
<1>2. CoreInv /\ ContextInv /\ [Next]_vars => ContextInv'
  BY ContextInvStep
<1>3. CoreInv /\ ContextInv /\ [Next]_vars =>
        [(phase' = "user" /\ (phase # "user" \/ tl'.cur # tl.cur)) =>
           cpu' = left'[tl'.cur]]_vars
  BY SwitchStep
<1> QED BY <1>1, <1>2, <1>3, CoreInvariant, PTL DEF Spec, SwitchRestoresContext
-----------------------------------------------------------------------------
(* The table, as long as programs keep no more processes than it has       *)
(* entries.                                                                *)
TableInv ==
  /\ IsFiniteSet(live)
  /\ \A s \in Slots : process_list[s] # NULL =>
       process_list[s] \in live /\ proc[process_list[s]].pid = s
  /\ \A p \in live : process_list[proc[p].pid] = p

LEMMA TableInvInit == Init => TableInv
<1>1. IsFiniteSet({})
  BY FS_EmptySet
<1> QED BY <1>1 DEF Init, TableInv

(* Two entries of the table hold different processes, so that a full table *)
(* means as many live processes as it has entries.                         *)
LEMMA FreeSlot ==
  ASSUME CoreInv, TableInv, Cardinality(live) < PROCESS_MAX_PROCESSES
  PROVE  \E q \in Pids : process_list[q] = NULL
<1>1. SUFFICES ASSUME \A q \in Pids : process_list[q] # NULL PROVE FALSE
  OBVIOUS
<1> DEFINE f == [q \in Pids |-> process_list[q]]
<1>2. \A q \in Pids : process_list[q] \in live /\ proc[process_list[q]].pid = q
  BY <1>1, Constants DEF TableInv
<1>3. f \in Injection(Pids, live)
  BY <1>2 DEF Injection, IsInjective
<1>4. Cardinality(Pids) <= Cardinality(live)
  BY <1>3, FS_Injection DEF TableInv
<1>5. Cardinality(Pids) = PROCESS_MAX_PROCESSES
  <2>1. /\ 0 \in Int /\ PROCESS_MAX_PROCESSES - 1 \in Int
        /\ ~(0 > PROCESS_MAX_PROCESSES - 1)
        /\ (PROCESS_MAX_PROCESSES - 1) - 0 + 1 = PROCESS_MAX_PROCESSES
    BY Constants
  <2>2. Cardinality(0 .. (PROCESS_MAX_PROCESSES - 1))
          = (PROCESS_MAX_PROCESSES - 1) - 0 + 1
    BY <2>1, FS_Interval
  <2> QED BY <2>1, <2>2 DEF Pids
<1>6. Cardinality(live) \in Nat
  BY FS_CardinalityType DEF TableInv
<1> QED BY <1>4, <1>5, <1>6, Constants

LEMMA TableNew ==
  ASSUME CoreInv, TableInv, NEW p \in Procs, NEW t \in Tasks,
         NEW load \in process_load_data, NEW list \in Lists,
         ProcessNewSucceeds(p, t, load, p, list),
         \E q \in Pids : process_list[q] = NULL
  PROVE  TableInv'
<1> DEFINE pid == process_get_free_process_id(process_list)
<1>1. pid \in Slots /\ process_list[pid] = NULL
  BY FreePid, Constants
<1> HIDE DEF pid
<1>2. /\ p \notin live /\ live' = live \cup {p}
      /\ proc'[p].pid = pid
      /\ \A q \in live : proc'[q] = proc[q]
      /\ process_list'[pid] = p
      /\ \A s \in Slots \ {pid} : process_list'[s] = process_list[s]
  BY NewProcess DEF pid
<1>3. IsFiniteSet(live')
  BY <1>2, FS_AddElement DEF TableInv
<1>4. ASSUME NEW s \in Slots, process_list'[s] # NULL
      PROVE  process_list'[s] \in live' /\ proc'[process_list'[s]].pid = s
  <2>1. CASE s = pid
    BY <1>2, <2>1
  <2>2. CASE s # pid
    BY <1>2, <1>4, <2>2 DEF TableInv
  <2> QED BY <2>1, <2>2
<1>5. ASSUME NEW q \in live' PROVE process_list'[proc'[q].pid] = q
  <2>1. CASE q = p
    BY <1>2, <2>1
  <2>2. CASE q # p
    <3>1. q \in live /\ proc'[q] = proc[q] /\ process_list[proc[q].pid] = q
      BY <1>2, <2>2 DEF TableInv
    <3>2. proc[q].pid \in Slots \ {pid}
      BY <1>1, <3>1, CoreTypes, Constants
    <3> QED BY <1>2, <3>1, <3>2
  <2> QED BY <2>1, <2>2
<1> QED BY <1>3, <1>4, <1>5 DEF TableInv

LEMMA TableInvStep ==
  ASSUME MaxLive <= PROCESS_MAX_PROCESSES, CoreInv, TableInv, [Next]_vars
  PROVE  TableInv'
<1>1. ASSUME NEW p \in Procs, NEW t \in Tasks, BootShell(p, t) PROVE TableInv'
  <2> DEFINE list == task_list_add(ZeroedLinks(tl, t), t)
  <2>1. PICK load \in process_load_data : ProcessNewSucceeds(p, t, load, p, list)
    BY <1>1 DEF BootShell
  <2>2. tl = EmptyList /\ process_list = [s \in Slots |-> NULL]
    BY <1>1 DEF BootShell, CoreInv, BootState
  <2>3. list \in Lists /\ process_list[0] = NULL
    BY <2>2, FirstAdded, Constants
  <2> HIDE DEF list
  <2> QED BY <2>1, <2>3, TableNew, Constants
<1>2. ASSUME NEW p \in Procs, NEW t \in Tasks, EXEC(p, t) PROVE TableInv'
  <2> DEFINE m == task_list_add(ZeroedLinks(tl, t), t)
             list == [m EXCEPT !.cur = t]
  <2>1. PICK load \in process_load_data : ProcessNewSucceeds(p, t, load, p, list)
    BY <1>2 DEF EXEC
  <2>2. list \in Lists
    <3>1. Running /\ t \notin allocated
      BY <1>2, <2>1 DEF EXEC, Running, ProcessNewSucceeds
    <3>2. tl.head # NULL /\ tl.tail \in Tasks \ {t}
      BY <3>1, ChainEnds, CoreTypes, Constants DEF CoreInv, TasksChained
    <3>3. m \in Lists
      BY <3>2, Added, CoreTypes
    <3> HIDE DEF m
    <3> QED BY <3>3 DEF Lists, Refs
  <2>3. Cardinality(live) < PROCESS_MAX_PROCESSES
    <3>1. Cardinality(live) \in Nat /\ Cardinality(live) < MaxLive
      BY <1>2, FS_CardinalityType DEF EXEC, TableInv
    <3> QED BY <3>1, ProcessAssumption
  <2> HIDE DEF list
  <2> QED BY <2>1, <2>2, <2>3, FreeSlot, TableNew
<1>3. CASE EXIT
  <2> DEFINE pid == proc[current_process].pid
  <2>1. /\ process_list' = [process_list EXCEPT ![pid] = NULL]
        /\ live' = live \ {current_process}
        /\ UNCHANGED proc
        /\ current_process \in live /\ pid \in Slots
    BY <1>3, ExitVictim DEF EXIT, process_kill
  <2>2. IsFiniteSet(live')
    BY <2>1, FS_RemoveElement DEF TableInv
  <2>3. process_list[pid] = current_process
    BY <2>1 DEF TableInv
  <2> HIDE DEF pid
  <2>4. /\ process_list'[pid] = NULL
        /\ \A s \in Slots \ {pid} : process_list'[s] = process_list[s]
    BY <2>1, CoreTypes
  <2>5. ASSUME NEW s \in Slots, process_list'[s] # NULL
        PROVE  process_list'[s] \in live' /\ proc'[process_list'[s]].pid = s
    <3>1. s # pid /\ process_list'[s] = process_list[s]
      BY <2>4, <2>5
    <3>2. process_list[s] \in live /\ proc[process_list[s]].pid = s
      BY <2>5, <3>1 DEF TableInv
    <3>3. process_list[s] # current_process
      BY <3>1, <3>2 DEF pid
    <3> QED BY <2>1, <3>1, <3>2, <3>3
  <2>6. ASSUME NEW q \in live' PROVE process_list'[proc'[q].pid] = q
    <3>1. q \in live \ {current_process} /\ process_list[proc[q].pid] = q
      BY <2>1 DEF TableInv
    <3>2. proc[q].pid \in Slots \ {pid}
      BY <2>3, <3>1, CoreTypes
    <3> QED BY <2>1, <2>4, <3>1, <3>2
  <2> QED BY <2>2, <2>5, <2>6 DEF TableInv
<1>4. CASE kpanic \/ EXEC_fails
  <2>1. UNCHANGED procVars
    BY <1>4 DEF kpanic, EXEC_fails, ProcessNewFails, ProcessNewFailsEarly,
                ProcessNewFailsMapping
  <2> QED BY <2>1 DEF procVars, TableInv
<1>5. CASE \/ PanicLoop
           \/ gammaos_first_ever_task
           \/ \E handled \in BOOLEAN : general_interrupt_handler(handled)
           \/ UserStep
           \/ isr_0x80_returns
           \/ UNCHANGED vars
  <2>1. UNCHANGED procVars
    BY <1>5 DEF PanicLoop, gammaos_first_ever_task, general_interrupt_handler,
                UserStep, isr_0x80_returns, vars
  <2> QED BY <2>1 DEF procVars, TableInv
<1> QED BY <1>1, <1>2, <1>3, <1>4, <1>5 DEF Next

(* process_list is the index of the live processes by pid, as long as      *)
(* programs keep no more processes than it has entries: process.c:205 does *)
(* not notice when they do.                                                *)
THEOREM ProcessTableMatches ==
  ASSUME MaxLive <= PROCESS_MAX_PROCESSES
  PROVE  Spec => []TableMatches
<1>1. Init => TableInv
  BY TableInvInit
<1>2. CoreInv /\ TableInv /\ [Next]_vars => TableInv'
  BY TableInvStep
<1>3. CoreInv /\ TableInv => TableMatches
  <2> SUFFICES ASSUME CoreInv, TableInv PROVE TableMatches
    OBVIOUS
  <2>1. allocated = {proc[p].task : p \in live}
    BY DEF CoreInv, TasksOwned
  <2> QED BY <2>1 DEF CoreInv, TasksOwned, TableInv, TableMatches
<1> QED BY <1>1, <1>2, <1>3, CoreInvariant, PTL DEF Spec
=============================================================================
