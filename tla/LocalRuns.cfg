SPECIFICATION FairSpec
CONSTANTS
  MaxRuns = 2
  MaxFirst = 1
  RetryMax = 1
  RetryDelay = 1
  QueueTimeout = 1
  MaxFaults = 1
CHECK_DEADLOCK FALSE
INVARIANTS
  RunnerSound
PROPERTIES
  FailureSettled
