SPECIFICATION Spec
CONSTANTS
  Pages = {p, q}
  Cells = {a, b}
  Drafts = {d, e}
  MaxEvents = 2
SYMMETRY Symmetry
INVARIANT AgreeUnlessOvertaken
PROPERTIES GoneForGood
CHECK_DEADLOCK FALSE
