SPECIFICATION Spec
CONSTANTS
  Interval = {0, 1, 2, 5}
  Factor = {50, 100, 200}
  MaxTx = 1
  Started = {0, 3, 9}
  MaxTime = 40
INVARIANTS
  PollTypeOK
  WaitsStayInBounds
  ReapsComeInTime
  StopsPromptly
CHECK_DEADLOCK FALSE
