SPECIFICATION FairSpec

CONSTANTS
  n1 = n1
  n2 = n2
  n3 = n3
  p1 = p1
  p2 = p2
  r1 = r1
  r2 = r2
  None = None
  Node = {n1, n2}
  PaymentID = {p1, p2}
  Request = {r1, r2}
  Job <- JobTwo
  Electable = {n1}
  Polling = {n2}
  FaultKind = {"crash", "expiry", "acquire", "zookeeper", "timeout", "hangup", "poll"}
  MaxFaults = 1

INVARIANTS
  IndexUnique

PROPERTIES
  ImplementsPromise
  RequestAnswered
  CatchUpProgress

\* A workload is two requests: once they are answered a run may come to rest.
CHECK_DEADLOCK FALSE
