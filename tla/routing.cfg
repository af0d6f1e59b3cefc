SPECIFICATION FairSpec

CONSTANTS
  n1 = n1
  n2 = n2
  r1 = r1
  r2 = r2
  r3 = r3
  Payment = p
  None = None
  Node = {n1, n2}
  Request = {r1, r2, r3}
  Op <- OpAll
  Loads <- PayTwiceOrCancel
  FirstLeader = n1
  MaxHops = 3
  MaxChanges = 1
  MaxCrashes = 1
  MaxTimeouts = 1

INVARIANTS
  TypeOK
  AnswersAreTrue
  CommittedIsPaid
  PaymentMutex

PROPERTY
  HandlersEnd

\* Once every request is answered the system may come to rest.
CHECK_DEADLOCK FALSE
