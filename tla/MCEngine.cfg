SPECIFICATION Spec
SYMMETRY Symmetry
CONSTANTS
  Jobs = {j1, j2, j3}
  NoJob = NoJob
  Wamids = {m1, m2, m3}
  NoWamid = NoWamid
  Workers = {w1, w2}
  t1 = t1
  Tenants = {t1}
  TenantOf <- MCTenantOf
  Kinds = {}
  Others = {}
  Full = {}
  Reportable <- MCReportable
  Background = {}
  Pollers = {}
  MaxFaults = 1
  MaxCrashes = 1
  MaxShutdowns = 1
INVARIANTS
  TypeOK
  ExclusiveClaim
  BoundToOwnMessage
  PauseContained
  OrphansAreBounded
PROPERTIES
  NoResendAfterBind
  ImplementsQueue
