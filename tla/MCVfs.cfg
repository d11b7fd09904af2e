SPECIFICATION Spec
CONSTANTS
  FS_TOTAL_FILE_DESCRIPTORS = 2
  Segments = {s1, s2, s3, s4, s5}
  file = file
  dir = dir
  Files <- MCFiles
  Directories <- MCDirectories
  size <- MCsize
  WordModulus = 3
  NULL = NULL
SYMMETRY SegmentSymmetry
INVARIANTS
  DescriptorsOwnFiles
PROPERTIES
  OnlyFailedOpenLosesFiles
  FileTableSpec
