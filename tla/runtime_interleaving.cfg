SPECIFICATION Spec
CONSTANTS
  Runs = {r1, r2}
  Calls = {send}
  Writes = {send}
  Tokens = {}
  ControlOps = {}
  MaxCalls = 1
  MaxBoots = 1
  NULL = NULL

SYMMETRY RunSymmetry
CHECK_DEADLOCK FALSE
INVARIANTS
  TerminalTaskAgreesWithRun
PROPERTIES
  FinishedRunsStayFinished
  ImplementsRunLifecycle
