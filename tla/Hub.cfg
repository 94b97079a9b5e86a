SPECIFICATION FairSpec
CONSTANTS
  c1 = c1
  Clients = {c1}
  Cap = 1
  Limit = 2
  MaxRow = 2
  MaxBoot = 1
  MaxFault = 1
INVARIANTS
  PushedInOrder
  NothingSkipped
PROPERTIES
  RowIsPolled
  ClientIsServed
CHECK_DEADLOCK FALSE
