SPECIFICATION Spec
CONSTANTS
  r1 = r1
  r2 = r2
  d1 = d1
  Receipt = {r1, r2}
  Draft = {d1}
  DraftOf <- MCDraftOf
  Approved <- MCApproved
  Expiry <- MCExpiry
  Grace = 1
  Margin = 1
  MaxTime = 4
  MaxEdits = 1
  MaxCrashes = 1
INVARIANTS
  TypeOK
  AtMostOnePost
  NotSentIsTrue
  GraceHonoured
  PostedAsApproved
  SentIsEvidenced
  AnswersAgree
  PartsAgree
CHECK_DEADLOCK FALSE
