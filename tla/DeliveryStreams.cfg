CONSTANTS
  h1 = h1
  h2 = h2
  s1 = s1
  r1 = r1
  r2 = r2
  Hooks = {}
  Streams = {s1}
  Runs = {r1, r2}
  HookRun = r1
  RingCap = 1
  ReplayBatch = 2
  OutCap = 1
  MaxHooks = 1
  MaxAttempts = 2
  MaxLog = 4
  MaxCrashes = 1
  MaxFailures = 1
SPECIFICATION FairSpec
CHECK_DEADLOCK FALSE
INVARIANTS
  StreamMissesNothing
PROPERTIES
  StreamCatchesUp
