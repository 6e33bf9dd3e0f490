SPECIFICATION Spec
CONSTANTS
  t1 = t1
  t2 = t2
  t3 = t3
  l1 = l1
  l2 = l2
  Idle = idle
  NULL = NULL
  Threads = {t1, t2, t3}
  Semas = {}
  IntrSemas = {}
  Locks = {l1, l2}
  Uses <- UseFork
  Rank <- LevelOrder
  PRI_MIN = 0
  PRI_DEPTH = 2
  InitPriority <- ThreeLevels
  NewPriorities = {}
  Exiting = {}
  Sleepers = {}
  InitValue <- Zero
  MaxValue = 2
  InitAsleep = {t2, t3}
  InitRunning = t1
  InitReady <- NobodyReady
INVARIANTS PriorityRecomputed
CHECK_DEADLOCK FALSE
