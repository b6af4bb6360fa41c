\* Two readers against an update and a deletion, with crashes, late and lost
\* commands; the lease is just as long as a context and a command on its way.
CONSTANTS
  Reader = {r1, r2}
  Updater = {u1}
  Deleter = {d1}
  Scorer = {}
  CtxTimeout = 1
  LockExpire = 2
  Flight = 1
  DelDelay = 1
  NoOne = NoOne
  NoEntry = NoEntry
SPECIFICATION Spec
INVARIANTS HolderKeepsLock
PROPERTIES NoLateStaleWrite EveryReadReturns
CHECK_DEADLOCK FALSE
