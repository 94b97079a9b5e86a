SPECIFICATION FairSpec
CONSTANTS
  p1 = p1
  p2 = p2
  Paths <- PathPair
  ChanCap = 2
  MaxBatch = 2
  MaxSource = 2
  MaxLine = 3
  MaxBoot = 2
INVARIANTS
  RowsInLineOrder
  NoSendOnClosedChannel
PROPERTIES
  KeepsPromise
  PendingIsSettled
  ShutdownCompletes
CHECK_DEADLOCK FALSE
