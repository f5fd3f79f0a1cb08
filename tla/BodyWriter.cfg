SPECIFICATION BFairSpec
CONSTANTS
  Cap = 2
  Slack = 0
  MaxWrite = 3
  MaxBytes = 10
  Tasks = {t1, t2}
  NoTask = NoTask
  Header = 1
  Footer = 2
  MaxOut = 1
  MaxApp = 2
INVARIANTS
  BTypeOK
  CleanEndDecodes
  FlushIsVisible
PROPERTIES
  ErrorIsFinal
  OutcomeIsReported
CHECK_DEADLOCK FALSE
