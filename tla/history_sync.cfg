SPECIFICATION Spec
CONSTANTS
  MaxMessages = 2
  Bare = {2}
  PageSize = 1
  MaxPages = 2
  Enough = 2
  MaxBoots = 2
  NULL = NULL
CHECK_DEADLOCK FALSE
INVARIANTS
  ProjectedIsStored
  HandledIsStored
  PagesLeaveNothingOut
PROPERTIES
  ImplementsArchive
