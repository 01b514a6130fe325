CONSTANTS
  Hosts = {h1, h2}
  MaxMint = 2
  MaxRows = 2
  MaxEvents = 1
SPECIFICATION Spec
INVARIANTS
  TokensSound
PROPERTIES
  StatusSettles
  HostEnrolls
CHECK_DEADLOCK FALSE
