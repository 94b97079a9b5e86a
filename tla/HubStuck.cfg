SPECIFICATION FairSpec
CONSTANTS
  c1 = c1
  Clients = {c1}
  Cap = 2
  Limit = 1
  MaxRow = 3
  MaxBoot = 1
  MaxFault = 0
PROPERTIES PollReturns
CHECK_DEADLOCK FALSE
