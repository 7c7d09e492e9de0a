SPECIFICATION FairSpec
CONSTANTS
  MaxRuns = 4
  MaxOriginals = 1
  StaleAfter = 1
  Scan = {daemon}
  MaxAttempts = 2
  MaxFaults = 1
INVARIANTS AttemptsDistinct SettledForAReason RetriedWhenOver
PROPERTIES ImplementsBoundedRetry SettledUnlessLost
CHECK_DEADLOCK FALSE
