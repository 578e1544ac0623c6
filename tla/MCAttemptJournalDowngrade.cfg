SPECIFICATION Spec
CONSTANTS
  p1 = p1
  p2 = p2
  q1 = q1
  Process = {p1, p2}
  Ref = {q1}
  MaxRuns = 2
  MaxEdits = 1
  MaxAges = 1
SYMMETRY MCSymmetry
INVARIANT
  ConfirmationKept
CHECK_DEADLOCK FALSE
