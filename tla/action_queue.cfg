SPECIFICATION FairSpec
CONSTANTS
  g1 = g1
  g2 = g2
  c1 = c1
  c2 = c2
  c3 = c3
  Callers = {c1, c2, c3}
  Groups = {g1, g2}
  Requests <- MCRequests
  Interval = 1
  Cooldown = 3
  Delay = 1
  Window = 2
  NULL = NULL
PROPERTIES
  CallsAreSpaced
  WaitersGetTheirTurn
