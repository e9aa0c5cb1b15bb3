CONSTANTS
  Requests = {r1, r2, r3}
  Tenants = {acme, brown}
  FirstYear = 2026
  LastYear = 2027
  PoolSize = 2
  None = None
SPECIFICATION FairSpec
INVARIANTS
  TypeOK
  OneAllocatorPerCounter
  NeverCollides
  NoGaps
PROPERTIES
  ImplementsLedger
  EveryRequestEnds
