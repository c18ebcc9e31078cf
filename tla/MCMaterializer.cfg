SPECIFICATION Spec
CONSTANTS
  Path = {1, 2, 3}
  SafePath = {1, 2, 3}
  Content = {"a1", "a2", "x"}
  Null = Null
  Torn = Torn
  Component = {1, 2}
  Adapter = {"nestjs"}
  Version = {1, 2}
  Request = {"v1", "v2", "expired", "rejected", "repeated", "missing", "external"}
  PlanResult <- MCPlanResult
  Process = {"p"}
  Isolated = TRUE
  MaxRuns = 3
  MaxEdits = 1
  MaxCrashes = 1
INVARIANTS TypeOK SupersessionChain StoredRecordsValid ConflictIsForeign
PROPERTIES NoSilentOverwrite MaterializedIsInPlace RecordsImmutable ImplementsPromise
CHECK_DEADLOCK FALSE
