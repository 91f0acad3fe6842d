CONSTANTS
  None = None
  Conns = {c1, c2}
  Tasks = {t1, t2, t3}
  Rough = {t1, t2}
  Reentrant = {t1}
  MaxNames = 3
  MaxDepth = 2
  MaxLeaks = 1
  Errors = {"savepoint", "release", "rollback", "forget"}
SPECIFICATION MCSpec
INVARIANTS ExclusiveConns NoLostWakeup RollbackIsFinal AckedIsCommittedOrTainted
PROPERTY ServedWhenCalm
CHECK_DEADLOCK FALSE
