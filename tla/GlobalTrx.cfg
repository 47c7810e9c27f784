CONSTANTS
  t1 = t1
  t2 = t2
  t3 = t3
  r1 = r1
  r2 = r2
  r3 = r3
  r4 = r4
  Threads <- MCThreads
  Records <- MCRecords
  PoolSize = 1
  Draws <- MCDraws
  MaxAttempts = 1
  LastCommitId = 2
  NoLock = NoLock
  NoThread = NoThread
  SpuriousWakeup = FALSE
  GlobalMutex = TRUE
  DeadlockSteps = FALSE
SPECIFICATION Spec
INVARIANTS
  GrantsFollowChainOrder
  CommitLogSerializable
  NoStrandedWaiters
PROPERTIES
  ImplementsLockTable
SYMMETRY MCSymmetry
VIEW MCView
