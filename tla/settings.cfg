SPECIFICATION Spec
CONSTANTS
  t1 = t1
  t2 = t2
  v1 = v1
  v2 = v2
  negative = negative
  short = short
  long = long
  timeout = timeout
  p1 = p1
  p2 = p2
  Offered <- MCOffered
  Paths = {timeout}
  Values = {negative, short, long}
  Refused = {negative}
  Default = short
  Plugins = {p1, p2}
  Texts = {t1, t2}
  Versions = {v1, v2}
  FirstPrompt <- MCFirstPrompt
  Proposals = {i1, i2}
  Approvals = {a1, a2}
  MaxRestarts = 1
  MaxEdits = 1
  MaxRejected = 1
  NULL = NULL
CHECK_DEADLOCK FALSE
SYMMETRY MCSymmetry
INVARIANTS
  PromisedIsInEffect
  
  
PROPERTIES
  SnapshotsNameTheirConfig
