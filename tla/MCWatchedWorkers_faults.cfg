SPECIFICATION FairWatchedSpec
CONSTANTS
  Job = {j1, j2}
  Worker = {w1}
  q1 = q1
  Queue = {q1}
  Key = {}
  Serves <- ServesAll
  MaxRetries = {1}
  RunAt = {}
  LeaseTTL = 2
  ReapLimit = 2
  MaxTime = 3
  MaxTxLag = 1
  RetryBase = 1
  RetryMultiplier = 1
  RetryMax = 1
  JitterPercent = 0
  NULL = NULL
  Concurrency = 1
  MaxStops = 1
  LastRequest = 0
  MaxTroubles = 2
INVARIANTS
  AppTypeOK
  OverrunIsRevived
  OfflineIsEmpty
  HeartbeatsCoverClaims
PROPERTIES
  ImplementsStore
  LapsedJobsAreReaped
  ShutdownCompletes
