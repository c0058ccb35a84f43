SPECIFICATION LiveSpec
CONSTANTS
  Ids = {t1, t2}
  Phones = {p1, p2}
  MaxWrites = 3
  MaxCrashes = 2
INVARIANTS
  TypeOK
  HydratedRowsStay
  JobsKeepTenant
PROPERTIES
  BootEnds
CHECK_DEADLOCK FALSE
