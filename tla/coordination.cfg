SPECIFICATION FairSpec

CONSTANTS
  Node = {n1, n2}
  None = None
  FaultKind = {"crash", "expiry", "zookeeper"}
  MaxFaults = 1

INVARIANTS
  TypeOK

PROPERTIES
  ImplementsLeadership
  StaleLeaderStepsDown
  MemberReturns
  LeaderUnlessStuck
