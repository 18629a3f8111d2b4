SPECIFICATION Spec
CONSTANTS
  Runs = {r1}
  Calls = {send, look}
  Writes = {send}
  Tokens = {t1}
  ControlOps = {"wait", "resume", "cancel"}
  MaxCalls = 1
  MaxBoots = 1
  NULL = NULL

CHECK_DEADLOCK FALSE
INVARIANTS
  InterruptedWriteNeverReplayed
  NeverRepeatsASuccessfulWrite
