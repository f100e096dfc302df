SPECIFICATION RequestsSpec
CONSTANTS
  Job = {j1,j2}
  Worker = {w1}
  Client = {c1,c2}
  Ops = {"create", "cancel", "retry", "retry_dead", "delete", "detail"}
  q1 = q1
  q2 = q2
  Queue = {q1,q2}
  Key = {k1}
  Serves <- ServesFirst
  MaxRetries = {1}
  RunAt = {}
  LeaseTTL = 1
  ReapLimit = 2
  MaxTime = 0
  MaxTxLag = 0
  RetryBase = 1
  RetryMultiplier = 1
  RetryMax = 1
  JitterPercent = 0
  NULL = NULL
SYMMETRY Symmetry
INVARIANTS
  OneWinner
  DetailIsWholeOrGone
  CreateIsIdempotent
CHECK_DEADLOCK FALSE
