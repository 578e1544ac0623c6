SPECIFICATION Spec
CONSTANTS
  r1 = r1
  r2 = r2
  c1 = c1
  c2 = c2
  plain = plain
  signed = signed
  Run = {r1, r2}
  Content = {c1, c2}
  Setting = {plain, signed}
  Nothing = Nothing
  MaxVersions = 3
  MaxTyped = 1
SYMMETRY MCSymmetry
INVARIANTS
  TypeOK
  SealedIsSaved
  PostedAsSealed
  OutgoingShown
CHECK_DEADLOCK FALSE
