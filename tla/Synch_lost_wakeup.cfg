SPECIFICATION Spec
CONSTANTS
  t1 = t1
  t2 = t2
  t3 = t3
  l1 = l1
  l2 = l2
  Idle = idle
  NULL = NULL
  Threads = {t1, t2, t3}
  Semas = {s1, s2}
  IntrSemas = {}
  Locks = {}
  Uses <- UseAll
  Rank <- NestingOrder
  PRI_MIN = 0
  PRI_DEPTH = 2
  InitPriority <- TwoLevels
  NewPriorities = {1, 2}
  Exiting = {}
  Sleepers = {}
  InitValue <- Zero
  MaxValue = 2
  InitAsleep = {}
  InitRunning = t3
  InitReady <- ReadyAfterT3
INVARIANTS NoLostWakeup
