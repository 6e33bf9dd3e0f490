SPECIFICATION KernelSpec
CONSTANTS
  NULL = NULL
  HEAD = HEAD
  END = END
  idle_thread = idle_thread
  x1 = x1
  x2 = x2
  x3 = x3
  e1 = e1
  e2 = e2
  e3 = e3
  e4 = e4
  l1 = l1
  l2 = l2
  t1 = t1
  t2 = t2
  t3 = t3
  w1 = w1
  w2 = w2
  r1 = r1
  r2 = r2
  IntrThreads = {t1, t2}
  Lines = {32, 37, 46}
  MaxRaised = 2
  MaxTraps = 2
  IdeThreads = {t1, t2}
  Sectors = {0}
  Values = {1, 2}
  MaxOps = 3
  MaxSpurious = 1
  NoOp = NULL
INVARIANTS
  SleepersQueued
  ContainersSound
  MemoryAccounted
  SignalsArrive
  LibraryExact
  FormatsExact
  KeysTracked
  SerialSound
  DriverCorrect
  InterruptsSound
  FeedbackSound
PROPERTIES
  NeverEarly
  WakesUp
  ListsAreSequences
  WritersFinish
  CallsReturn
CHECK_DEADLOCK FALSE
