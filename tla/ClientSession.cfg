CONSTANTS
  Companies = {acme, brown}
  Requests = {r1, r2}
  None = None
SYMMETRY Symmetry
SPECIFICATION Spec
INVARIANTS
  TypeOK
  WritesHappenOnce
  WritesStayPut
  PagesFollowToken
  WaitersAreReleased
