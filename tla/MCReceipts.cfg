SPECIFICATION Spec
SYMMETRY JobSymmetry
CONSTRAINT Unpaused
CONSTANTS
  Jobs = {j1, j2}
  NoJob = NoJob
  Wamids = {m1, m2}
  NoWamid = NoWamid
  Workers = {w1}
  t1 = t1
  Tenants = {t1}
  TenantOf <- MCTenantOf
  Kinds = {"delivered", "read", "failed"}
  Others = {}
  Full = {m1}
  Reportable <- MCReportable
  Background = {}
  Pollers = {}
  MaxFaults = 1
  MaxCrashes = 1
  MaxShutdowns = 0
INVARIANTS
  MatchedEventReflected
  StatusIsReported
  AnsweredReceiptIsKept
PROPERTIES
  ImplementsLifecycle
