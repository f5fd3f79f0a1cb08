SPECIFICATION Spec
CONSTANTS
  MaxVersion = 2
  MaxTime = 3
INVARIANTS
  TypeOK
  NotModifiedIsFresh
  ResumeIsSafe
  PreconditionsGuard
  RevalidationWorks
  HeadersKept
CHECK_DEADLOCK FALSE
