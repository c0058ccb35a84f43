SPECIFICATION LiveSpec
CONSTANTS
  Jobs = {j1, j2}
  Lucky = {j1}
  NoJob = NoJob
  Wamids = {m1}
  NoWamid = NoWamid
  Workers = {w1, w2}
  t1 = t1
  Tenants = {t1}
  TenantOf <- MCTenantOf
  Kinds = {}
  Reportable <- MCReportable
  Background = {b1, b2}
  Pollers = {b1}
  MaxFaults = 0
  MaxCrashes = 0
  MaxShutdowns = 1
PROPERTIES
  QueuedJobSettles
  ShutdownCompletes
