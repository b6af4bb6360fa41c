\* Two partitions share the buffer.
CONSTANTS
  Partition = {1, 2}
  FileSize = 2
  Hash <- MCHash
  Garbage = 0
  Refused = {}
  BatchSize = 2
  MaxFaults = 0
SPECIFICATION Spec
INVARIANTS NothingWiped
CHECK_DEADLOCK FALSE
