SPECIFICATION InfoSpec
CONSTANTS
  HdrSize = 2
  InfoSize = 2
  MaxAttempts = 3
  MaxRuns = 2
  MaxResets = 1
  Failures <- Lacks
INVARIANTS
  TypeOK
  WholeInfo
  Agreement
  ShownTarget
PROPERTIES
  ExchangeSpec
  AttemptsEnd
\* The user stops after the last attempt.
CHECK_DEADLOCK FALSE
