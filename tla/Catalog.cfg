CONSTANTS
  Jobs = {j1, j2}
  Targets = {t1, t2}
  Requests = {r1, r2}
  MaxRequests = 2
  MaxFaults = 1
SPECIFICATION Spec
INVARIANTS
  ScheduleFollows
  SecretsSound
CHECK_DEADLOCK FALSE
