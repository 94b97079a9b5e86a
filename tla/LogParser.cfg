SPECIFICATION FairSpec
CONSTANTS
  s1 = s1
  s2 = s2
  Sources <- SourcePair
  Limit = 2
  MaxRow = 3
  MaxBoot = 2
  MaxFault = 1
  NullSource = NullSource
  NoRow = NoRow
INVARIANTS
  ExactlyOnce
PROPERTIES
  RowIsServed
CHECK_DEADLOCK FALSE
