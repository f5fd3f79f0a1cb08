SPECIFICATION Spec
CONSTANTS
  MaxLen = 3
  MaxSpecs = 3
  U64Max = 3
INVARIANTS TypeOK InBounds AskedInOrder AllOrNothing
CHECK_DEADLOCK FALSE
