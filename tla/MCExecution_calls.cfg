SPECIFICATION FairSpec
CONSTANTS
  c1 = c1
  c2 = c2
  Call = {c1, c2}
  JobType = {t1, t2}
  Handler = {h1, h2}
  Timeout <- Timeouts
  MaxNow = 2
  MayCatch = TRUE
  NULL = NULL
INVARIANTS
  ExecutionTypeOK
  OutcomeIsWhatHappened
PROPERTY
  CallsEnd
CHECK_DEADLOCK FALSE
