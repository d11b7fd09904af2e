SPECIFICATION Spec
CONSTANTS
  Processes <- MCProcesses
  Gshell = "gshell"
  PROCESS_MAX_PROCESS_MEM_ALLOCATIONS = 2
  PAGE_SIZE = 4
  NumBlocks = 3
  HeapPage = 2
  Sizes <- MCSizes
INVARIANTS
  SlotsOwnSegments
  AllocationsWritable
PROPERTIES
  OthersKeepSegments
