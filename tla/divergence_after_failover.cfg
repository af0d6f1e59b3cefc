SPECIFICATION Spec

CONSTANTS
  n1 = n1
  n2 = n2
  n3 = n3
  p1 = p1
  p2 = p2
  r1 = r1
  r2 = r2
  None = None
  Node = {n1, n2}
  PaymentID = {p1}
  Request = {r1, r2}
  Job <- JobPayCancel
  Electable = {n1, n2}
  Polling = {n1}
  FaultKind = {"crash"}
  MaxFaults = 1

INVARIANTS
  NoDivergence

\* A workload is two requests: once they are answered a run may come to rest.
CHECK_DEADLOCK FALSE
