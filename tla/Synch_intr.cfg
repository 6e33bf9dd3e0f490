SPECIFICATION Spec
CONSTANTS
  t1 = t1
  t2 = t2
  t3 = t3
  l1 = l1
  l2 = l2
  Idle = idle
  NULL = NULL
  Threads = {t2, t3}
  Semas = {s1}
  IntrSemas = {s1}
  Locks = {l1}
  Uses <- UseAll
  Rank <- NestingOrder
  PRI_MIN = 0
  PRI_DEPTH = 2
  InitPriority <- ThreeLevels
  NewPriorities = {1, 3}
  Exiting = {t2, t3}
  Sleepers = {t3}
  InitValue <- Zero
  MaxValue = 1
  InitAsleep = {}
  InitRunning = t3
  InitReady <- ReadyAfterT3
INVARIANTS QueueDiscipline DonationInForce
CHECK_DEADLOCK FALSE
