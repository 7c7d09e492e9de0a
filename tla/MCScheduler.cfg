SPECIFICATION FairSchedulerSpec
CONSTANTS
  Proc = {p1, p2}
  NumJobs = 2
  Every <- everyUnit
  MaxTick = 1
PROPERTIES
  OncePerInterval
  JobsKeepRunning
