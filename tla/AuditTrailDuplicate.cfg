\* The claim of the handler's "duplicate message" branch.
CONSTANTS
  MsgId <- MCOneMsg
  Student <- MCStudent
  Target <- MCOneTarget
  Addition <- MCOneMsg
  Deletion <- MCNone
  Malformed = Malformed
  MaxFaults = 1
  Sender = {s1}
  MaxRetry = 2
  ScanLimit = 1
SPECIFICATION Spec
INVARIANTS DuplicateWasAudited
CHECK_DEADLOCK FALSE
