SPECIFICATION Spec
CONSTANTS
  a1 = a1
  a2 = a2
  b1 = b1
  d1 = d1
  d2 = d2
  Nothing = Nothing
  Draft = {d1, d2}
  Attempt = {a1, a2, b1}
  DraftOf <- MCDraftOf
INVARIANTS
  TypeOK
  ConfirmedIsThisSend
  BackendIsTrue
  LinkedIsNeverResent
CHECK_DEADLOCK FALSE
