\* One instance of the service; an update and a deletion of one student.
CONSTANTS
  MsgId <- MCMsgId
  Student <- MCStudent
  Target <- MCTarget
  Addition <- MCAddition
  Deletion <- MCDeletion
  Malformed = Malformed
  MaxFaults = 2
  Sender = {s1}
  MaxRetry = 3
  ScanLimit = 1
SPECIFICATION LMSpec
INVARIANTS ChangeHasMessage SentWasPublished GivenUpAfterMaxRetry
PROPERTIES NeverReopened EveryMessageSettles
CHECK_DEADLOCK FALSE
