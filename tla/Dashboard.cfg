SPECIFICATION DashboardSpec
CONSTANTS
  severity = severity
  level = level
  None = None
  Filters = {severity, level}
  Known = {severity}
  PageSize = 1
  MaxRows = 2
  Loads = {1, 2}
  MaxFail = 1
INVARIANTS
  LoadingIsAsking
PROPERTIES
  Converges
