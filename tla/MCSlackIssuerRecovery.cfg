SPECIFICATION Spec
CONSTANTS
  r1 = r1
  r2 = r2
  e1 = e1
  e2 = e2
  Request = {r1, r2}
  Event = {e1, e2}
  Ttl <- MCTtl
  MaxTime = 3
  MaxCrashes = 1
  MaxTimeouts = 0
INVARIANT
  RecoveryResumes
CHECK_DEADLOCK FALSE
