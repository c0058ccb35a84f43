SPECIFICATION Spec
SYMMETRY Symmetry
CONSTANTS
  Handlers = {h1, h2}
  Tenants = {t1, t2}
  Jobs = {j1, j2}
  Keys = {k1}
  NoKey = NoKey
  NoTenant = NoTenant
  Limits = {0, 1}
  MaxChanges = 1
INVARIANTS
  TypeOK
  AcceptedIsStored
  OvershootIsBounded
