SPECIFICATION Spec
CONSTANTS
  Path = {1, 2, 3}
  SafePath = {1, 2, 3}
  Content = {"a1", "a2", "x"}
  Null = Null
  Torn = Torn
  Component = {1}
  Adapter = {"nestjs"}
  Version = {1, 2}
  Request = {"v1", "managed"}
  PlanResult <- MCPlanResult
  Process = {"p"}
  Isolated = TRUE
  MaxRuns = 2
  MaxEdits = 0
  MaxCrashes = 0
PROPERTIES SeededIsTheOwners
CHECK_DEADLOCK FALSE
