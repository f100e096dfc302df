SPECIFICATION TxSpec
CONSTANTS
  Job = {j1, j2}
  Worker = {w1}
  Conn = {c1, c2}
  Kinds = {"claim", "reap", "release", "extend", "fail", "delete", "create"}
  q1 = q1
  Queue = {q1}
  Key = {}
  Serves <- ServesAll
  MaxRetries = {1}
  RunAt = {}
  LeaseTTL = 1
  ReapLimit = 2
  MaxTime = 2
  MaxTxLag = 0
  RetryBase = 1
  RetryMultiplier = 1
  RetryMax = 1
  JitterPercent = 0
  NULL = NULL
SYMMETRY Symmetry
INVARIANTS
  TxTypeOK
  NoDeadlock
  SelectedRowsStayPut
PROPERTIES
  ImplementsStore
CHECK_DEADLOCK FALSE
