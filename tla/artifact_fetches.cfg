SPECIFICATION Spec
CONSTANTS
  a1 = a1
  a2 = a2
  sha1 = sha1
  Artifacts = {a1, a2}
  Content <- MCContent
  Tasks = {t1, t2, t3}
  MaxCrashes = 2
  Absent = Absent
CHECK_DEADLOCK FALSE
SYMMETRY TaskSymmetry
INVARIANTS
  PathsAreOnDisk
