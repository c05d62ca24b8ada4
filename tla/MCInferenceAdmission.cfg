CONSTANTS
  u1 = u1
  l1 = l1
  o1 = o1
  p1 = p1
  p2 = p2
  s1 = s1
  s2 = s2
  s3 = s3
  Callers = {u1, l1, o1}
  Principals = {p1, p2}
  Streams = {s1, s2, s3}
  PrincipalOf <- MCPrincipalOf
  StreamOf <- MCStreamOf
  RankOf <- MCRankOf
  DeadlineOf <- MCDeadlineOf
  DemandOf <- MCDemandOf
  GlobalLimit = 2
  PrincipalLimit = 1
  WaiterLimit = 2
  WaitTimeout = 3
  Budget <- MCBudget
  Aging = 1
  MaxEnterDelay = 1
SPECIFICATION FairSpec
INVARIANTS
  TypeOK
  AdmissionIsExact
  DemandIsReserved
PROPERTIES
  GrantsFollowTheOrder
  WakeUpsAreLostOnlyByAging
  CallsReturn
