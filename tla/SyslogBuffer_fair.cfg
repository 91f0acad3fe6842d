SPECIFICATION FairSpec
CONSTANTS
  Readers = {r1, r2}
  Nodes = {n1, n2, n3, n4}
  Nil = Nil
  Max = 2
INVARIANTS InOrder NoMissedWakeup
PROPERTIES Delivered CloseEndsReaders
CHECK_DEADLOCK FALSE
