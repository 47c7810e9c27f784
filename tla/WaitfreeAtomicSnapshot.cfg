CONSTANTS
  ThreadCount <- MCThreadCount
  Values <- MCValues
  MaxWrites <- MCMaxWrites
  NoSnapshot = NoSnapshot
  Scheduled <- MCScheduled0
SPECIFICATION Spec
INVARIANTS
  TypeOK
  BorrowedBufferIntact
  ExchangeFindsFreeVersion
  ScanWaitFree
  SlotsDistinct
PROPERTIES
  UpdateReturns
