SPECIFICATION AppSpec
CONSTANTS
  Job = {j1, j2}
  Worker = {w1}
  q1 = q1
  Queue = {q1}
  Key = {}
  Serves <- ServesAll
  MaxRetries = {1}
  RunAt = {}
  LeaseTTL = 2
  ReapLimit = 2
  MaxTime = 2
  MaxTxLag = 1
  RetryBase = 1
  RetryMultiplier = 1
  RetryMax = 1
  JitterPercent = 0
  NULL = NULL
  Concurrency = 1
  MaxStops = 0
  LastRequest = 2
SYMMETRY Symmetry
INVARIANT
  ConcurrencyIsKept
