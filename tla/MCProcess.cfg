SPECIFICATION Spec
CONSTANTS
  p1 = p1
  p2 = p2
  p3 = p3
  t1 = t1
  t2 = t2
  t3 = t3
  t4 = t4
  NULL = NULL
  Procs <- MCProcs
  Tasks <- MCTasks
  PROCESS_MAX_PROCESSES = 3
  FS_TOTAL_FILE_DESCRIPTORS = 2
  UserCtx <- MCUserCtx
  KeyDuringBoot = FALSE
  MaxLive = 3
SYMMETRY MCSymmetry
INVARIANTS
  RunningAgrees
  TableMatches
  RunningIsShellOrTail
  ListMatches
PROPERTIES
  SwitchRestoresContext
