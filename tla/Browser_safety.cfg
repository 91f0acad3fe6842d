\* Each part by itself: the text editor in two pages, the search panel, the
\* drawing of a cell over three turns, and notifications to two pages.
SPECIFICATION BrowserSpec
CONSTANTS
  Tabs = {s, t}
  Timeout = 2
  MaxEvents = 3
  Queries = {"x", "y"}
  Choices = {"f"}
  MaxSearches = 5
  MaxNodes = 3
  MaxGen = 3
  MaxEntity = 23
  Stale = {2, 3}
  Capacity = 1
  MaxSends = 2
  MaxClicks = 4
INVARIANTS UnsentHasATimer Agrees LoadingHasACause ShownIsAsked InSync DrawnToTheEnd
  FirstIsNewest RemovedStaysAway
CHECK_DEADLOCK FALSE
