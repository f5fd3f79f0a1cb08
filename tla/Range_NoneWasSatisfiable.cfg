SPECIFICATION Spec
CONSTANTS
  MaxLen = 2
  MaxSpecs = 1
  U64Max = 3
INVARIANT NoneWasSatisfiable
CHECK_DEADLOCK FALSE
