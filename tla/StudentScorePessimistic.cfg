\* Pessimistic additions as they are: the SELECT takes no lock.
CONSTANTS
  Optimist <- MCNone
  Pessimist <- MCPair
  Updater <- MCNone
  Deleter <- MCNone
  AddScore <- MCAddScore
  InitScore = 1
  MaxTry = 3
  MaxFaults = 0
  NoOne = 0
SPECIFICATION Spec
INVARIANTS ReadForUpdateIsCurrent
CHECK_DEADLOCK FALSE
