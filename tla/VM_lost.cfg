SPECIFICATION Spec
CONSTANTS
  p1 = p1
  p2 = p2
  Procs = {p1, p2}
  Pages <- TwoPrograms
  FilePages <- DataOfSecond
  ReadOnly = {}
  NumFrames = 2
  SwapSize = 4
  NULL = NULL
  STALE = STALE
INVARIANTS WritesPreserved
CHECK_DEADLOCK FALSE
