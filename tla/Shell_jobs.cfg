SPECIFICATION Spec
CONSTANTS
  Pids = {1, 2, 3}
  MAXJOBS = 2
  MaxJid = 2
INVARIANTS AtMostOneForeground NoMissedChild
PROPERTIES JobsKept ForegroundReturns
CHECK_DEADLOCK FALSE
