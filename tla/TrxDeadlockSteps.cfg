CONSTANTS
  t1 = t1
  t2 = t2
  t3 = t3
  r1 = r1
  r2 = r2
  r3 = r3
  r4 = r4
  Threads <- MCThreads3
  Records <- MCRecords4
  PoolSize = 1
  Draws <- MCDraws3
  MaxAttempts = 1
  LastCommitId = 3
  NoLock = NoLock
  NoThread = NoThread
  SpuriousWakeup = FALSE
  GlobalMutex = FALSE
  DeadlockSteps = TRUE
SPECIFICATION Spec
INVARIANTS
  NoStrandedWaiters
VIEW MCView
