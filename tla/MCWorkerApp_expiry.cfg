SPECIFICATION FairAppSpec
CONSTANTS
  Job = {j1}
  Worker = {w1}
  q1 = q1
  Queue = {q1}
  Key = {}
  Serves <- ServesAll
  MaxRetries = {2}
  RunAt = {}
  LeaseTTL = 1
  ReapLimit = 2
  MaxTime = 4
  MaxTxLag = 0
  RetryBase = 1
  RetryMultiplier = 1
  RetryMax = 1
  JitterPercent = 0
  NULL = NULL
  Concurrency = 1
  MaxStops = 2
  LastRequest = 4
PROPERTY
  ExpiredJobsAreRequeued
