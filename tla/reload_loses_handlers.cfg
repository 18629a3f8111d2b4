SPECIFICATION Spec
CONSTANTS
  echo = echo
  gate = gate
  v1 = v1
  v2 = v2
  Plugins = {echo, gate}
  Versions = {v1, v2}
  Sorted <- MCSorted
  Handlers <- MCHandlers
  Tasked = {echo}
  Graphs <- MCGraphs
  MaxGen = 3
  MaxEvents = 1
  NULL = NULL
INVARIANT
  PublishedIsSubscribed
