CONSTANTS
  night = night
  early = early
  dawn = dawn
  home = home
  cabin = cabin
  Jobs = {night, early, dawn}
  Waiting = {night, dawn}
  Addresses = {home, cabin}
  Typed <- MCTyped
  Correct <- MCCorrect
  At <- MCAt
  Window <- MCWindow
  Crew = {tech, mate}
  Days = {0}
  Zones <- MCZones
  Behind <- MCBehind
  Change <- MCChange
  Jump <- MCJump
  DayLength = 24
  Dispatchers = {d1}
  Workers = {w1, w2}
  None = None
SYMMETRY Symmetry
SPECIFICATION Spec
INVARIANT TypeOK
PROPERTIES
  RequestsLeaveInstantsRight
  NobodyIsSurprised
  RefusedForAClash
