SPECIFICATION Spec
CONSTANTS
  Inodes = {1, 2, 3, 4}
  MaxLen = 1
  ChunkSize = 1
  MaxTime = 1
  MaxSegments = 1
  MaxSpecs = 1
  Weights <- MCWeights
INVARIANT
  MtimeAfterEpoch
CHECK_DEADLOCK FALSE
