SPECIFICATION FairSpec
CONSTANTS
  Cap = 2
  Slack = 1
  MaxWrite = 3
  MaxBytes = 4
  Tasks = {t1, t2}
  NoTask = NoTask
INVARIANTS
  TypeOK
  DeliveredInOrder
  CleanEndComplete
  HintExact
  NoLostWakeup
  IInv
PROPERTIES
  EndStreamFinal
  Fused
  BrokenPipeIsFinal
  FlushedIsDelivered
  EndIsObserved
  ImplementsByteStream
CHECK_DEADLOCK FALSE
