SPECIFICATION Spec
CONSTANTS
  MaxLen = 7
  MaxParts = 2
  MaxHeader = 2
  MaxChunk = 2
  EstHeader = 1
  Trailer = 2
  TooLarge = 1
  U64Max = 12
  DebugBuild = FALSE
INVARIANT
  MultipartFused
CHECK_DEADLOCK FALSE
