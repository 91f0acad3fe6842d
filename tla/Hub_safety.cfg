\* Each part by itself: two schedules, three operations on one notebook with two
\* cells, and four records.
SPECIFICATION HubSpec
CONSTANTS
  Jobs = {j1, j2, Zero}
  Zero = Zero
  None = None
  Calendars <- Close
  StopSchedule = TRUE
  Hour = 2
  HalfDay = 5
  Limit = 1
  Prompt = FALSE
  Failures = {"list", "lease", "run"}
  MaxTime = 5
  MaxAdd = 3
  MaxCrashes = 1
  Strays = {"running"}
  LongTime = 20
  FarCalendars <- Spaced
  t1 = t1
  t2 = t2
  t3 = t3
  a = a
  b = b
  Tasks = {t1, t2, t3}
  Conns = {c1, c2}
  Cells = {a, b}
  Gone = Gone
  First = First
  Kinds = {"cell", "save", "editor", "result"}
  MaxRetry = 1
  Queries <- Rules
  Records <- Yielded
  NoTime = NoTime
  Missing = Missing
  Over = 2
  Hop = 2
  MaxRecords = 4
SYMMETRY Symmetry
INVARIANTS NeverBeyond LeasedWhileRunning LostOnlyInRace SpacedOnTime
   OkIsStoredOrExcused ErrorIsNotStored
  AnswersAreDefined ReturnedOnce
PROPERTIES ResultsGrow OnlyItsOwn
