SPECIFICATION Spec
CONSTANTS
  u1 = u1
  u2 = u2
  s1 = s1
  s2 = s2
  c1 = c1
  Users = {u1, u2}
  Slots = {s1, s2}
  Codes = {c1}
  MaxRequests = 3
  MaxTotpAttempts = 2
  ChallengeTtl = 1
  TrackTtl = 2
SYMMETRY Symmetry
CHECK_DEADLOCK FALSE
INVARIANTS
  RevokedRefused
  AdminRemains
  AccountsFit
  SecondFactorOnce
