SPECIFICATION FairSpec

CONSTANTS
  Node = {n1, n2}
  None = None
  FaultKind = {"crash", "zookeeper"}
  MaxFaults = 2

PROPERTIES
  LeaderFailover
