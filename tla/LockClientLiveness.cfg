CONSTANTS
  t1 = t1
  t2 = t2
  t3 = t3
  r1 = r1
  Threads <- MCThreads2
  Records <- MCRecords
  PoolSize = 2
  MaxTrx = 2
  NoLock = NoLock
  NoThread = NoThread
  SpuriousWakeup = FALSE
  GlobalMutex = FALSE
  DeadlockSteps = FALSE
SPECIFICATION Spec
PROPERTIES
  AllWorkersFinish
CHECK_DEADLOCK FALSE
