SPECIFICATION FairSpec
CONSTANTS
  r1 = r1
  r2 = r2
  e1 = e1
  e2 = e2
  Request = {r2}
  Event = {e1, e2}
  Ttl <- MCTtl
  MaxTime = 3
  MaxCrashes = 2
  MaxTimeouts = 0
PROPERTY
  ApprovalResolves
CHECK_DEADLOCK FALSE
