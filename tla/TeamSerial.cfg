CONSTANTS
  People = {founder, bob, cat}
  Founder = founder
  Invitations = {i1, i2, i3}
  Roles = {"owner", "technician"}
  SeatLimit = 2
  Workers = {w1}
  None = None
SYMMETRY Symmetry
SPECIFICATION Spec
INVARIANTS
  TypeOK
  KeepsAnOwner
  SeatsRespected
  InviteesAreNew
