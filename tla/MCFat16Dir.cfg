SPECIFICATION SearchFairSpec
CONSTANTS
  Names = {a, b}
  MaxEntries = 2
  MaxText = 5
  Paths <- MCPaths
  FS_MAX_PATH_LENGTH = 8
  FS_MAX_PATH_UNIT_LENGTH = 1
INVARIANTS
  UnitsAreTheSplit
  NeverTheWrongFile
  FoundWithoutDeletions
PROPERTIES
  LookupEnds
CHECK_DEADLOCK FALSE
