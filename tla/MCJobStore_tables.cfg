SPECIFICATION Spec
CONSTANTS
  Job = {j1, j2}
  Worker = {w1, w2}
  q1 = q1
  Queue = {q1}
  Key = {}
  Serves <- ServesAll
  MaxRetries = {0, 2}
  RunAt = {1}
  LeaseTTL = 1
  ReapLimit = 2
  MaxTime = 3
  MaxTxLag = 1
  RetryBase = 1
  RetryMultiplier = 2
  RetryMax = 2
  JitterPercent = 50
  NULL = NULL
SYMMETRY Symmetry
INVARIANTS
  TypeOK
  LockIffRunning
  MarksMatchStatus
  AttemptBudget
  StaleSnapshotsAreFenced
  AttemptHistory
PROPERTIES
  FinalStatesStick
  StuckJobsStayStuck
  LiveLeaseIsHonoured
  LapsedLeaseIsDead
  ImplementsLifecycle
CHECK_DEADLOCK FALSE
