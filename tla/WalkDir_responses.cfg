SPECIFICATION Spec
CONSTANTS
  root = root
  f = f
  odd = odd
  empty = empty
  locked = locked
  full = full
  g = g
  h = h
  inside = inside
  None = None
  Root = root
  Nodes = {root, f, odd, empty, locked, full, g, h, inside}
  Dirs = {root, empty, locked, full}
  Entries <- Tree
  Listed <- FirstResponse
  Matching = {root, f, empty, locked, full, g, h, inside}
  Denied = {locked}
  Flaky = {root, full, f}
  Workers = 2
INVARIANT FoundAll
CHECK_DEADLOCK FALSE
