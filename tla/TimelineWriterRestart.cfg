CONSTANTS
  None = None
  c1 = c1
  c2 = c2
  c3 = c3
  r1 = r1
  r2 = r2
  Clients = {c1, c2}
  Runs = {r1, r2}
  WhipRuns = {r1, r2}
  RetentionCap = 1
  QueueCap = 2
  BatchMax = 2
  MaxFile = 4
  MaxOps = 4
  MaxCrashes = 1
SPECIFICATION Spec
SYMMETRY Symmetry
CHECK_DEADLOCK FALSE
INVARIANTS
  TypeOK
  SequenceContiguous
  AnswersAreTrue
  LogAgreesWithRegistry
  LiveTombstoneRetained
