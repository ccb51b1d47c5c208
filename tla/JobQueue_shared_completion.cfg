SPECIFICATION Spec
CONSTANTS
  s1 = s1
  s2 = s2
  w1 = w1
  w2 = w2
  wiki = wiki
  wiki2 = wiki2
  report = report
  None = None
  Slots = {s1, s2}
  WorkerIds = {w1, w2}
  WorkerOf <- SharedWorker
  WikiJobs = {wiki}
  ReportJobs = {report}
  MaxAttempts = 2
  LeaseTicks = 2
  MaxDelay = 1
  MaxWait = 1
CHECK_DEADLOCK FALSE
PROPERTY OnlyCurrentAttemptEndsJob
