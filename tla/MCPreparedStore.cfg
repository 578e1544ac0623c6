SPECIFICATION FairSpec
CONSTANTS
  a1 = a1
  a2 = a2
  none = none
  Attestation = {a1, a2}
  Nobody = none
  Life = 2
  MaxTime = 4
  MaxCrashes = 1
INVARIANTS
  TypeOK
  RecordHasScreenshots
  LiveKeepsEvidence
PROPERTY
  MarkedGoesAway
CHECK_DEADLOCK FALSE
