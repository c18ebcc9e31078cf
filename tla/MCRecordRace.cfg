SPECIFICATION Spec
CONSTANTS
  Path = {1, 2, 3}
  SafePath = {1, 2, 3}
  Content = {"a1", "a2", "x"}
  Null = Null
  Torn = Torn
  Component = {1}
  Adapter = {"nestjs"}
  Version = {1, 2}
  Request = {"v1", "v2"}
  PlanResult <- MCPlanResult
  Process = {"p", "q"}
  Isolated = FALSE
  MaxRuns = 2
  MaxEdits = 0
  MaxCrashes = 0
PROPERTIES RecordsImmutable
CHECK_DEADLOCK FALSE
