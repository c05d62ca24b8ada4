CONSTANTS
  None = None
  c1 = c1
  c2 = c2
  c3 = c3
  r1 = r1
  r2 = r2
  Clients = {c1, c2, c3}
  Runs = {r1}
  WhipRuns = {}
  RetentionCap = 1
  QueueCap = 1
  BatchMax = 2
  MaxFile = 4
  MaxOps = 4
  MaxCrashes = 0
SPECIFICATION FairSpec
CHECK_DEADLOCK FALSE
INVARIANTS
  DeletionHasOneWinner
PROPERTIES
  CallsReturn
