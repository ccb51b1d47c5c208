SPECIFICATION Spec
CONSTANTS
  Processes = {"wiki"}
  Jobs <- MCJobs
  Concurrency = 2
  BatchLimit = 2
  JobAttempts = 2
  CallAttempts = 2
  MaxDelay = 1
  DefaultLimit = 2
  Window = 1
  Answers <- MCAnswers
  MaxFaults = 1
INVARIANTS TypeOK UsageIsComplete
PROPERTIES JobsSettle
