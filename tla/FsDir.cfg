SPECIFICATION FairSpec
CONSTANTS
  Inodes = {1, 2, 3, 4}
  MaxLen = 3
  ChunkSize = 2
  MaxTime = 2
  MaxSegments = 3
  MaxSpecs = 3
  Weights <- MCWeights
INVARIANTS
  TypeOK
  EncodingTruthful
  BodyIsRange
  EtagVouches
PROPERTY
  Terminates
CHECK_DEADLOCK FALSE
