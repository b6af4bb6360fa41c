\* An update and a deletion of one student, and a fault: a crash, a failed call,
\* a rebalance or a foreign record.
CONSTANTS
  MsgId <- MCMsgId
  Student <- MCStudent
  Target <- MCTarget
  Addition <- MCAddition
  Deletion <- MCDeletion
  Malformed = Malformed
  MaxFaults = 1
  Sender = {s1}
  MaxRetry = 1
  ScanLimit = 2
SPECIFICATION Spec
INVARIANTS OnlyInterruptedLost
PROPERTIES LedgerSpec EveryChangeAudited
CHECK_DEADLOCK FALSE
