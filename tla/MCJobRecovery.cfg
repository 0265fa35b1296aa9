SPECIFICATION FairSpec
CONSTANTS
  NumJobs = 1
  Handled = {1}
  Engines = {e1, e2}
  WorkerCount = 1
  Callers = {}
  MaxRetries = 0
  RetryCap = 2
  MaxDrops = 1
  Lease = 2
  RenewEvery = 1
  BaseDelays <- MCBaseDelays
  Postgres = TRUE
  Prompt = FALSE
  Heeding = FALSE
PROPERTIES AbandonedJobsAreRecovered
