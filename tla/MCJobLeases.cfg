SPECIFICATION Spec
CONSTANTS
  NumJobs = 2
  Handled = {1}
  Engines = {e1, e2}
  WorkerCount = 2
  Callers = {c1}
  MaxRetries = 1
  RetryCap = 3
  MaxDrops = 1
  Lease = 3
  RenewEvery = 1
  BaseDelays <- MCBaseDelays
  Postgres = TRUE
  Prompt = TRUE
  Heeding = TRUE
INVARIANTS TypeOK LockMatchesStatus ExclusiveExecution LeaseHeld FailuresAreRecorded 
PROPERTY ImplementsQueue
SYMMETRY Symmetry
