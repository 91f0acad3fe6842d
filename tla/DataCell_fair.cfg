SPECIFICATION FairSpec
CONSTANTS
  Intents = {1, 2}
  MaxRefused = 1
  MaxWaiting = 2
  MaxRuns = 2
PROPERTIES HandledOnItsView RemovedIsQuiet GateReopens ComesBack IntentsEnd
CHECK_DEADLOCK FALSE
