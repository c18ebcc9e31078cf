SPECIFICATION Spec
CONSTANTS
  Path = {1, 2, 3}
  SafePath = {1, 2, 3}
  Content = {"a1", "a2", "x"}
  Null = Null
  Torn = Torn
  Component = {1}
  Adapter = {"nestjs"}
  Version = {1, 2}
  Request = {"v1", "v2", "dropped"}
  PlanResult <- MCPlanResult
  Process = {"p"}
  Isolated = TRUE
  MaxRuns = 3
  MaxEdits = 0
  MaxCrashes = 0
INVARIANTS ConflictIsForeign
CHECK_DEADLOCK FALSE
