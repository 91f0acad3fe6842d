CONSTANTS
  None = None
  Conns = {c1, c2}
  Tasks = {t1, t2}
  Reentrant = {}
  MaxNames = 2
  MaxDepth = 1
  MaxLeaks = 0
  Errors = {}
SPECIFICATION Spec
INVARIANT AckedIsCommitted
CHECK_DEADLOCK FALSE
