SPECIFICATION LiveSpec
CONSTANTS
  Jobs = {j1}
  Lucky = {j1}
  NoJob = NoJob
  Wamids = {m1}
  NoWamid = NoWamid
  Workers = {w1}
  t1 = t1
  Tenants = {t1}
  TenantOf <- MCTenantOf
  Kinds = {"sent", "failed"}
  Reportable <- MCReportable
  Background = {}
  Pollers = {}
  MaxFaults = 0
  MaxCrashes = 0
  MaxShutdowns = 0
PROPERTIES
  FailedReceiptFailsJob
