\* Two partitions share the buffer; one failure, rebalance or crash.
CONSTANTS
  Partition = {1, 2}
  FileSize = 3
  Hash <- MCHash
  Garbage = 0
  Refused = {2}
  BatchSize = 2
  MaxFaults = 1
SPECIFICATION Spec
INVARIANTS
  TypeOK
  NothingVanishes
  NoRepeatedRows
  LossIsBounded
  CleanupFindsNothing
PROPERTIES EveryRowImported
CHECK_DEADLOCK FALSE
