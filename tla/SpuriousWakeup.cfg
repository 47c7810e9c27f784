CONSTANTS
  t1 = t1
  t2 = t2
  t3 = t3
  r1 = r1
  Threads <- MCThreads3
  Records <- MCRecords
  PoolSize = 1
  MaxTrx = 1
  NoLock = NoLock
  NoThread = NoThread
  SpuriousWakeup = TRUE
  GlobalMutex = FALSE
  DeadlockSteps = FALSE
SPECIFICATION Spec
INVARIANTS
  GrantsFollowQueueOrder
SYMMETRY MCSymmetry3
VIEW MCView
