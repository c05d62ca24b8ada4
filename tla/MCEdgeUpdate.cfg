CONSTANTS
  r1 = r1
  r2 = r2
  Releases = {r1, r2}
  None = None
  Manifests <- MCManifests
  Faults <- MCFaults
SPECIFICATION FairSpec
INVARIANTS
  TypeOK
  ServingAgreesWithDevice
  ReleasesInUseAreStored
PROPERTIES
  RolloutMovesForward
  PendingIsResolved
