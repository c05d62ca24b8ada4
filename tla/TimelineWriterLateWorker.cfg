CONSTANTS
  None = None
  c1 = c1
  c2 = c2
  c3 = c3
  r1 = r1
  r2 = r2
  Clients = {c1}
  Runs = {r1, r2}
  WhipRuns = {r1}
  RetentionCap = 1
  QueueCap = 2
  BatchMax = 2
  MaxFile = 5
  MaxOps = 4
  MaxCrashes = 0
SPECIFICATION Spec
CHECK_DEADLOCK FALSE
INVARIANTS
  NoWorkerEventAfterTombstone
