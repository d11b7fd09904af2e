SPECIFICATION Spec
CONSTANTS
  PAGE_SIZE = 2
  PAGE_DIR_ENTRIES = 2
  PAGE_TABLE_ENTRIES = 22
  HeapPage = 8
  PROCESS_MAX_PROCESSES = 2
  ShellFile <- TwoSegments
  Files <- MCFiles
  StackBlocks = 2
  TASK_STACK_SIZE = 4
  TASK_DEFAULT_START = 10
  TASK_DEFAULT_STACK_END = 4
  KernelPages <- MCKernelPages
  TakenSets <- MCTakenSets
  Strings <- MCStrings
  PROCESS_MAX_PROCESS_MEM_ALLOCATIONS = 1
  Sizes <- MCSizes
  NullPointers = FALSE
INVARIANTS
  SpacesOwnTables
  ProgramVisible
  WritableIsOwn
  KernelIdentity
  TlbFresh
  CopyDelivers
