SPECIFICATION ReaderSpec
CONSTANTS
  Cap = 3
  MaxWrite = 4
  MaxLen = 7
INVARIANTS
  OnceInOrder
  NothingLost
  CutOnlyAtEnds
PROPERTIES
  AllIsRead
CHECK_DEADLOCK FALSE
