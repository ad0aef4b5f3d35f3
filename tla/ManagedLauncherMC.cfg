SPECIFICATION Spec
CONSTANTS
  Launchers = {l1, l2, l3}
  Pids = {p1, p2, p3}
  None = None
  Broken = Broken
  MaxBirths = 4
SYMMETRY MCSymmetry
CHECK_DEADLOCK FALSE
INVARIANTS
  MutexSound
  OneAccounted
PROPERTIES
  SuccessIsVerified
  RecordKept
