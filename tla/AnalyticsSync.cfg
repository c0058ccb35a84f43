SPECIFICATION LiveSyncSpec
CONSTANTS
  Jobs = {j1, j2}
  Wamids = {m1, m2}
  NoWamid = NoWamid
  BatchSize = 1
  MaxGivenUp = 1
INVARIANTS
  SyncTypeOK
  PurgedIsStored
  PurgedIsTerminal
PROPERTIES
  NeverRegresses
  BindingIsPermanent
  OutcomeIsStored
CHECK_DEADLOCK FALSE
