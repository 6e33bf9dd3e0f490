SPECIFICATION Spec
CONSTANTS
  MaxTid = 3
  Pages = {g1, g2}
  NULL = NULL
  KILLED = KILLED
  Statuses = {7}
INVARIANT ExitStatusPresent
PROPERTY WaitReturnsStatus
CHECK_DEADLOCK FALSE
