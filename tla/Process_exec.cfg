SPECIFICATION Spec
CONSTANTS
  MaxTid = 2
  Pages = {g1, g2}
  NULL = NULL
  KILLED = KILLED
  Statuses = {7}
PROPERTY ExecReturns
CHECK_DEADLOCK FALSE
