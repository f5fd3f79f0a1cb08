SPECIFICATION FairSpec
CONSTANTS
  MaxLen = 7
  MaxParts = 3
  MaxHeader = 2
  MaxChunk = 2
  EstHeader = 1
  Trailer = 2
  TooLarge = 1
  U64Max = 8
  DebugBuild = TRUE
INVARIANTS
  TypeOK
  ContentLengthExact
  HintAgrees
  PartsFramed
  NoPanic
  IInv
PROPERTY
  Terminates
CHECK_DEADLOCK FALSE
