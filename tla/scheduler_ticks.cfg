SPECIFICATION FairSpec
CONSTANTS
  Schedules = {s1}
  Concurrency = {1, 2}
  Period = 1
  MaxCatchUp = 2
  MaxTime = 4
  MaxBoots = 1
  NULL = NULL

CHECK_DEADLOCK FALSE
INVARIANTS
  TypeOK
  AtMostMaxConcurrency
  NoPointTwice
  OnceIsNeverLost
PROPERTIES
  DropsOnlyWhenFull
  RecoveryReachesTheFuture
  DueIsServed
