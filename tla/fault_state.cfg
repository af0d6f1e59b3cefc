SPECIFICATION FairSpec

CONSTANTS
  MaxFaults = 4

INVARIANTS
  TypeOK
  LostSessionIsFailed
  HealthyIsCaughtUp
  HandledIsReported

PROPERTIES
  CutOffHasNoRole
  Recovers
