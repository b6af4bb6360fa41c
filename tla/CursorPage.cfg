\* A client pages while students come, go and move.
CONSTANTS
  MaxId = 4
  Class <- MCClass
  Client = {c1}
  PageSizes <- MCPageSizes
  DefaultSize = 1
  MaxSize = 2
SPECIFICATION Spec
INVARIANTS TypeOK ListedAscending NobodySkipped
CHECK_DEADLOCK FALSE
