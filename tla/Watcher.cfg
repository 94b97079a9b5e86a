SPECIFICATION FairSpec
CONSTANTS
  MaxPiece = 3
  MaxFile = 3
  MaxCut = 1
  MaxEvents = 2
  Attempts = 2
  Missing = Missing
INVARIANTS
  NothingSkipped
  ResetIsAlone
PROPERTIES
  ToldIsRead
  RotationIsFollowed
CHECK_DEADLOCK FALSE
