SPECIFICATION Spec
CONSTANTS
  num_entries = 6
  KERNEL_HB_SIZE = 4
  KERNEL_HEAP_BASE = 32
  WordModulus = 64
  Sizes <- MCSizes
INVARIANTS
  NoOverlap
  LiveMarked
PROPERTIES
  AllocatorSpec
