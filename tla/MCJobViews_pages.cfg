SPECIFICATION ViewsSpec
CONSTANTS
  Job = {1,2}
  Worker = {w1}
  Queue = {1,2}
  Key = {}
  Serves <- ServesAll
  MaxRetries = {1}
  RunAt = {}
  LeaseTTL = 1
  ReapLimit = 2
  MaxTime = 1
  MaxTxLag = 0
  RetryBase = 1
  RetryMultiplier = 1
  RetryMax = 1
  JitterPercent = 0
  NULL = NULL
  Limit = 1
  Views = {"stats", "queues", "jobs", "dead_letters", "dead_letter"}
INVARIANTS
  StatsAreExplained
  WalkLosesAtMostDepartures
  WalkRepeatsAtMostArrivals
CHECK_DEADLOCK FALSE
