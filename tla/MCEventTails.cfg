CONSTANTS
  r1 = r1
  r2 = r2
  r3 = r3
  p1 = p1
  Runs <- MCRuns
  Pollers = {p1}
  TailCap = 2
  WarmCap = 2
  BatchMax = 2
  MaxLog = 5
  MaxCrashes = 1
SPECIFICATION Spec
SYMMETRY Symmetry
CHECK_DEADLOCK FALSE
INVARIANTS
  TypeOK
  ReadsAreComplete
  CacheFollowsLog
