SPECIFICATION TaskListSpec
CONSTANTS
  Tasks = {t1, t2, t3, t4}
  NULL = NULL
INVARIANTS
  ListHoldsTheTasks
  PrevInvertsNext
