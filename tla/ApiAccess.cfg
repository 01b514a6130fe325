SPECIFICATION Spec
CONSTANTS
  u1 = u1
  u2 = u2
  s1 = s1
  s2 = s2
  ip1 = ip1
  ip2 = ip2
  Users = {u1, u2}
  Polls = {s1, s2}
  Ips = {ip1, ip2}
  CodeTtl = 1
  KeyTtl = 1
  CacheTtl = 1
  MaxKeys = 2
  MaxChanges = 1
  MaxFaults = 1
CHECK_DEADLOCK FALSE
INVARIANTS
  CodeSound
  KeyReach
PROPERTIES
  LoginEnds
  AllowlistCatchesUp
