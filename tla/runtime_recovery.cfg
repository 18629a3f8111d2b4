SPECIFICATION FairSpec
CONSTANTS
  Runs = {r1}
  Calls = {send, look}
  Writes = {send}
  Tokens = {}
  ControlOps = {}
  MaxCalls = 1
  MaxBoots = 2
  NULL = NULL

CHECK_DEADLOCK FALSE
INVARIANTS
  TypeOK
  NeverRepeatsASuccessfulWrite
  SuccessClosesItsStep
  QuarantineHasACause
PROPERTIES
  RecoveredRunsSettle
