CONSTANTS
  t1 = t1
  t2 = t2
  t3 = t3
  r1 = r1
  Threads <- MCThreads3
  Records <- MCRecords
  PoolSize = 2
  MaxTrx = 2
  NoLock = NoLock
  NoThread = NoThread
  SpuriousWakeup = FALSE
  GlobalMutex = TRUE
  DeadlockSteps = FALSE
SPECIFICATION Spec
INVARIANTS
  GrantsFollowChainOrder
PROPERTIES
  ImplementsLockTable
SYMMETRY MCSymmetry3
VIEW MCView
