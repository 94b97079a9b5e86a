SPECIFICATION Spec
CONSTANTS
  p1 = p1
  p2 = p2
  n1 = n1
  n2 = n2
  x1 = x1
  Null = Null
  NoJob = NoJob
  NoWord = NoWord
  Paths = {p1, p2}
  SeedPath = p1
  Formats = {"json", "auto"}
  Names = {n1}
  Contents = {x1}
  Lines <- LineShapes
  AlertKinds <- AlertShapes
  YearLength = 8
  DayLength = 2
  Days = 2
  Top <- Limits
  Start = 7
  MaxNow = 8
  MaxWrites = 4
  Reqs = {1}
  MaxFault = 1
  Limit = 1
  Pages = {1, 2}
  Jobs <- Asked
INVARIANTS
  TotalIsKept
  PagesOmitOnlyTies
  ErrorOnlyAfterDeletion
  MockOnlyWithoutEvents
  RecentIsCounted
  FutureIsExplained
CHECK_DEADLOCK FALSE
