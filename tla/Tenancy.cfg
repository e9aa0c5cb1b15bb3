SPECIFICATION Spec
CONSTANTS
  People = {ann, bob}
  Tenants = {acme, brown}
  Slugs = {north, river}
  Connections = {k1, k2}
  None = None
SYMMETRY Symmetry
INVARIANTS TypeOK RowsAreOwn BindingIsOwn RevokedIsOut SignupsAreUnique
PROPERTY WritesStayInTenant
