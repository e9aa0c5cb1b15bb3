CONSTANTS
  Addresses = {home, cabin, barn}
  Workers = {w1, w2}
  Primaries = {TRUE, FALSE}
  None = None
SYMMETRY Symmetry
SPECIFICATION Spec
INVARIANTS
  TypeOK
  OnePrimary
  RefusedForAReason
PROPERTIES
  FlagIsNotLost
  PrimaryStaysActive
