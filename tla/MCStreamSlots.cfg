CONSTANTS
  None = None
  p1 = p1
  r1 = r1
  r2 = r2
  r3 = r3
  c1 = c1
  c2 = c2
  c3 = c3
  Runs <- MCRuns
  Principals = {p1}
  Creators <- MCCreators
  Detached = {c3}
  Limit = 1
  MaxEvents = 2
  MaxCancels = 1
SPECIFICATION FairSpec
CHECK_DEADLOCK FALSE
INVARIANTS
  TypeOK
  CountsAreExact
  OverLimitIsAccountedFor
PROPERTIES
  CreatesFinish
