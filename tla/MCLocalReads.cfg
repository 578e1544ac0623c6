SPECIFICATION Spec
CONSTANTS
  c1 = c1
  c2 = c2
  c3 = c3
  me = me
  colleague = colleague
  client = client
  notice = notice
  p1 = p1
  p2 = p2
  Unnamed = Unnamed
  Nothing = Nothing
  Account = {1, 2}
  Thread = {1, 2, 3}
  Message = {1, 2, 3, 4}
  Date <- MCDate
  Amount <- MCAmount
  Party <- MCParty
  Invalid = {4}
  From <- MCFrom
  To <- MCTo
  Cc <- MCCc
  Me = me
  Internal = {me, colleague}
  System = {notice}
  MaxThreads = 2
  MaxInspected = 3
  MaxPerAccount = 2
  MaxPerMessage = 2
  MaxRecords = 3
  MaxTotal = 4
  MaxBytes = 6
  BatchSize = 2
  Process = {p1, p2}
  Own = 1
  Edited = {1}
  Html = {3}
  Sharing <- MCSharing
  Request <- MCRequest
  Asked <- MCAsked
  InitialCache <- MCInitialCache
  MaxWrites = 2
SYMMETRY MCSymmetry
INVARIANTS
  TypeOK
  ScanTruthful
  ScanKeepsNewest
  ReplyRight
  ForwardOneMessage
  CommentsWhole
CHECK_DEADLOCK FALSE
