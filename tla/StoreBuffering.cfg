CONSTANTS
  ThreadCount <- MCThreadCount
  Values <- MCValues
  MaxWrites <- MCMaxWrites2
  NoSnapshot = NoSnapshot
  Scheduled <- MCAllScheduled
SPECIFICATION Spec
INVARIANTS
  ScanSeesOwnUpdates
