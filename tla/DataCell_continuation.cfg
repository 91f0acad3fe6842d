SPECIFICATION FairSpec
CONSTANTS
  Intents = {1, 2}
  MaxRefused = 1
  MaxWaiting = 2
  MaxRuns = 1
INVARIANTS ContinuationHappens
CHECK_DEADLOCK FALSE
