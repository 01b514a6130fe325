CONSTANTS
  MaxFaults = 2
SPECIFICATION Spec
INVARIANTS
  ResultSound
PROPERTIES
  CancelSticks
  RestoreEnds
CHECK_DEADLOCK FALSE
