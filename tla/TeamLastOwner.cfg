CONSTANTS
  People = {founder, bob}
  Founder = founder
  Invitations = {i1, i2, i3}
  Roles = {"owner"}
  SeatLimit = 2
  Workers = {w1, w2}
  None = None
SYMMETRY Symmetry
SPECIFICATION Spec
INVARIANT KeepsAnOwner
CHECK_DEADLOCK FALSE
