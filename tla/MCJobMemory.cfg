SPECIFICATION FairSpec
CONSTANTS
  NumJobs = 1
  Handled = {1}
  Engines = {e1}
  WorkerCount = 2
  Callers = {c1}
  MaxRetries = 1
  RetryCap = 3
  MaxDrops = 1
  Lease = 2
  RenewEvery = 1
  BaseDelays <- MCBaseDelays
  Postgres = FALSE
  Prompt = FALSE
  Heeding = FALSE
INVARIANTS RetryBudget
PROPERTY EveryJobFinishes
