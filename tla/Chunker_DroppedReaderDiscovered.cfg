SPECIFICATION Spec
CONSTANTS
  Cap = 2
  Slack = 0
  MaxWrite = 2
  MaxBytes = 3
  Tasks = {t1}
  NoTask = NoTask
PROPERTY
  DroppedReaderDiscovered
CHECK_DEADLOCK FALSE
