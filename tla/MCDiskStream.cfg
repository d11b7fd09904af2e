SPECIFICATION FairSpec
CONSTANTS
  SECTOR_SIZE_IN_BYTES = 4
  Positions <- MCPositions
  ReadSizes <- MCReadSizes
  MaxPosition = 20
INVARIANTS
  TypeOK
  ReadDelivers
PROPERTIES
  ReadReturns
