SPECIFICATION MCSpec
CONSTANTS
  root = root
  f = f
  odd = odd
  empty = empty
  locked = locked
  full = full
  g = g
  h = h
  inside = inside
  None = None
  Root = root
  Nodes = {root, f, odd, empty, locked, full, g, h, inside}
  Dirs = {root, empty, locked, full}
  Entries <- Tree
  Listed <- FirstResponse
  Matching = {root, f, empty, locked, full, g, h, inside}
  Denied = {locked}
  Flaky = {root, full, f}
  Workers = 2
  Imports = {i1, i2}
  Edits = {e1, e2, e3}
  PoolSize = 2
INVARIANTS CountsExactly AcceptedIsReceived
PROPERTIES ImplementsPromise WalkAnswers AllEnd
\* The walk ends; a request that finds no task, or a third edit, stops the
\* others for good.
CHECK_DEADLOCK FALSE
