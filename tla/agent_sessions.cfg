SPECIFICATION Spec
CONSTANTS
  g = g
  s = s
  c1 = c1
  Groups = {g}
  Privates = {}
  Prompts = {s}
  Calls = {c1}
  Ttl = 1
  MaxTurns = 2
  MaxErrors = 2
  MaxRepeats = 2
  MaxCalls = 2
  MaxTriggers = 3
  MaxTime = 1
  MaxStops = 1
  NULL = NULL
CHECK_DEADLOCK FALSE
INVARIANTS
  RequestsAreWhole
  EndedRunsAreSaved
  TripsOnItsOwnErrors
