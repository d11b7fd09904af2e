------------------------------ MODULE TaskList ------------------------------
(***************************************************************************)
(* The doubly linked list of tasks of kernel/task/task.c, as operators on  *)
(* a record that holds the three global pointers and the link fields of    *)
(* every task structure, and as a component of its own.                    *)
(*                                                                         *)
(* kfree leaves the links of a freed structure as they are; kzalloc zeroes *)
(* those of the next task that is given the same memory.                   *)
(***************************************************************************)
EXTENDS Integers, FiniteSets

CONSTANTS
  Tasks,      \* the memory blocks that can hold a struct task
  NULL

ASSUME TaskListAssumption == NULL \notin Tasks

VARIABLES
  tl,         \* task_list_head, task_list_tail, cur_task and the links
  allocated   \* the task structures that have not been freed

tlVars == <<tl, allocated>>
-----------------------------------------------------------------------------
NoLinks == [t \in Tasks |-> NULL]

EmptyList == [head |-> NULL, tail |-> NULL, cur |-> NULL,
              next |-> NoLinks, prev |-> NoLinks]

(* kzalloc(sizeof(struct task)) in new_task *)
ZeroedLinks(l, t) == [l EXCEPT !.next[t] = NULL, !.prev[t] = NULL]

task_list_add(l, t) ==
  IF l.head = NULL
  THEN [l EXCEPT !.head = t, !.tail = t, !.cur = t]
  ELSE [l EXCEPT !.next[l.tail] = t, !.prev[t] = l.tail, !.tail = t]

KeepTail(l) == l                       \* variant: the tail is not moved
(* The three ways task_list_delete unlinks a task.  The first leaves prev  *)
(* of the new head, the second next of the new tail, at the freed task.    *)
DeleteHead(l) == [l EXCEPT !.head = l.next[l.head]]
DeleteTail(l) == [l EXCEPT !.tail = l.prev[l.tail]]
DeleteMiddle(l, t) == [l EXCEPT !.next[l.prev[t]] = l.next[t],
                                !.prev[l.next[t]] = l.prev[t]]

task_list_delete(l, t) ==
  LET m == CASE t = l.head -> DeleteHead(l)
             [] t # l.head /\ t = l.tail -> DeleteTail(l)
             [] OTHER -> DeleteMiddle(l, t)
  IN  [m EXCEPT !.cur = IF t = l.cur THEN l.next[t] ELSE @]
-----------------------------------------------------------------------------
(* new_task: the structure comes from the heap.                            *)
new_task(t) ==
  /\ t \notin allocated
  /\ tl' = task_list_add(ZeroedLinks(tl, t), t)
  /\ allocated' = allocated \cup {t}

(* task_kill and close_task: the shell, at the head, is never killed.      *)
task_kill(t) ==
  /\ t # tl.head
  /\ tl' = task_list_delete(tl, t)
  /\ allocated' = allocated \ {t}

(* task_switch: another task is given the processor.                       *)
task_switch(t) ==
  /\ tl' = [tl EXCEPT !.cur = t]
  /\ UNCHANGED allocated

TaskListInit ==
  /\ tl = EmptyList
  /\ allocated = {}

TaskListNext ==
  \/ \E t \in Tasks : new_task(t)
  \/ \E t \in allocated : task_kill(t)
  \/ \E t \in allocated : task_switch(t)

TaskListSpec == TaskListInit /\ [][TaskListNext]_tlVars
-----------------------------------------------------------------------------
Path(l, n) ==
  LET step[i \in 0 .. n] ==
        IF i = 0 THEN l.head
        ELSE IF step[i - 1] = NULL THEN NULL ELSE l.next[step[i - 1]]
  IN  step

TaskListTypeOK ==
  /\ tl \in [head : Tasks \cup {NULL}, tail : Tasks \cup {NULL},
             cur : Tasks \cup {NULL},
             next : [Tasks -> Tasks \cup {NULL}],
             prev : [Tasks -> Tasks \cup {NULL}]]
  /\ allocated \subseteq Tasks

(* Walking the list from task_list_head to task_list_tail meets every task *)
(* that is allocated once and no freed one, whatever was deleted before.   *)
ListHoldsTheTasks ==
  LET n    == Cardinality(allocated)
      path == Path(tl, n)
  IN  /\ n = 0 => tl.head = NULL
      /\ n > 0 => /\ {path[i] : i \in 0 .. (n - 1)} = allocated
                  /\ path[n - 1] = tl.tail

(* Behind the head, prev is the inverse of next: deleting a task from the  *)
(* middle or from the tail unlinks it and nothing else.                    *)
PrevInvertsNext ==
  \A t \in allocated : t # tl.tail => tl.prev[tl.next[t]] = t
=============================================================================
