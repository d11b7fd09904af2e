SPECIFICATION FairScanSpec
CONSTANTS
  num_entries = 6
  KERNEL_HB_SIZE = 4
  KERNEL_HEAP_BASE = 32
  WordModulus = 64
  Sizes = {0, 1}
INVARIANTS
  ScanFindsFirstFit
PROPERTIES
  ScanReturns
CHECK_DEADLOCK FALSE
