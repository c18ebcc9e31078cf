SPECIFICATION VSpec
CONSTANTS
  Path = {1, 2}
  SafePath = {1, 2}
  Content = {"a1", "a2", "x"}
  Null = Null
  Torn = Torn
  Component = {1, 2}
  Adapter = {"nestjs"}
  Version = {1, 2}
  Request = {"v1", "v2"}
  PlanResult <- MCPlanResult
  Process = {"p"}
  Isolated = TRUE
  MaxRuns = 2
  MaxEdits = 1
  MaxCrashes = 1
  VerifyHost <- MCVerifyHost
  Check = {"structure", "build", "test"}
  MaxVerifies = 1
INVARIANTS VTypeOK EvidenceComplete PassIsInPlace
CHECK_DEADLOCK FALSE
