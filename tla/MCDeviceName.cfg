SPECIFICATION InfoSpec
CONSTANTS
  HdrSize = 2
  InfoSize = 2
  MaxAttempts = 1
  MaxRuns = 1
  MaxResets = 0
  Failures <- Lacks
INVARIANT HostNamed
\* The user stops after the last attempt.
CHECK_DEADLOCK FALSE
