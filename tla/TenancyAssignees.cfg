SPECIFICATION Spec
CONSTANTS
  People = {ann, bob}
  Tenants = {acme, brown}
  Slugs = {north, river}
  Connections = {k1}
  None = None
SYMMETRY Symmetry
INVARIANTS AssigneesAreColleagues
