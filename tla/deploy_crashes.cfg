SPECIFICATION Spec
CONSTANTS
  Versions = {v1, v2, v3}
  Flaky = {v2, v3}
  MaxRows = 3
  MaxBoots = 2
  NULL = NULL
SYMMETRY Swaps
CHECK_DEADLOCK FALSE

  
PROPERTY
  RecoveryFinishesOrUndoes
  NewDeploymentRuns
  
  FailedRollbackRestores
