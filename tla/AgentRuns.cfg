SPECIFICATION FairSpec
CONSTANTS
  MaxRuns = 2
  MaxFirst = 1
  RetryMax = 1
  RetryDelay = 1
  QueueTimeout = 1
  MaxFaults = 1
  Agents = {a1, a2}
  NoAgent = none
  Handlers = {h1}
INVARIANTS
  HandedOutOnce
  TableSound
PROPERTIES
  CancelledStays
  EndedOnlyCancelled
  ImplementsLifecycle
  QueuedLeaves
  CancelStops
  RunsEnd
