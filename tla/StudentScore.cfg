\* Optimistic additions, a pessimistic one, an update and a deletion.
CONSTANTS
  Optimist <- MCOptimist
  Pessimist <- MCPessimist
  Updater <- MCUpdater
  Deleter <- MCDeleter
  AddScore <- MCAddScore
  InitScore = 1
  MaxTry = 2
  MaxFaults = 1
  NoOne = 0
SPECIFICATION Spec
INVARIANTS
  ConflictMeansProgress
  OkMeansCredited
  ScoreNeverNegative
  NoLeakedLock
PROPERTIES AccountSpec StaysDeleted
CHECK_DEADLOCK FALSE
