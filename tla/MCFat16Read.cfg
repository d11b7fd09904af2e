SPECIFICATION FileFairSpec
CONSTANTS
  sector_size = 2
  sectors_per_cluster = 2
  reserved_sectors = 2
  last_sector = 9
  NumClusters = 4
  FileSizes <- MCFileSizes
  FillerWords <- MCFillerWords
  WordModulus = 1048576
INVARIANTS
  BufferFilled
  OneClusterFileRead
PROPERTIES
  ReadEnds
CHECK_DEADLOCK FALSE
