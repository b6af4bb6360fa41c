\* Four handlers, two workers and a queue for one task; it ends.
CONSTANTS
  Task = {t1, t2, t3, t4}
  Worker = {w1, w2}
  QueueSize = 1
SPECIFICATION Spec
INVARIANTS ShutdownDrains OneProbe ClosedIsHealthy
PROPERTIES ShutdownReturns EveryTaskSettles
CHECK_DEADLOCK FALSE
