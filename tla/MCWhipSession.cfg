CONSTANTS
  a = a
  b = b
  Sessions = {a, b}
  Loads <- MCLoads
  Limit <- MCLimit
  MaxSessions = 1
  Workers = 2
SPECIFICATION FairSpec
INVARIANTS
  TypeOK
  WorkersAreAccountedFor
  SessionsEndWithAnOutcome
PROPERTIES
  StopIsOverwrittenOnlyInFlight
  EndedSessionIsReclaimed
CHECK_DEADLOCK FALSE
