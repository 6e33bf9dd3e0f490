SPECIFICATION PagingSpec
CONSTANTS
  p1 = p1
  p2 = p2
  Procs = {p1, p2}
  Pages <- TwoPrograms
  FilePages <- DataOfSecond
  ReadOnly <- DataOfSecond
  NumFrames = 2
  SwapSize = 1
  NULL = NULL
  STALE = STALE
INVARIANTS TablesAgree PagesIsolated WritesKeptAlone
PROPERTIES FaultsServedAlone
CHECK_DEADLOCK FALSE
