SPECIFICATION Spec
CONSTANTS
  Checks = {c1, c2}
  Splits = {2, 3}
  Locations = {here, there}
  MaxFaults = 1
SYMMETRY Symmetry
INVARIANTS
  RotationSound
  VerifiedSound
