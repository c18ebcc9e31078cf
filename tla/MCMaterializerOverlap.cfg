SPECIFICATION FairSpec
CONSTANTS
  Path = {1, 2}
  SafePath = {1, 2}
  Content = {"a1", "x"}
  Null = Null
  Torn = Torn
  Component = {1}
  Adapter = {"nestjs"}
  Version = {1}
  Request = {"pair"}
  PlanResult <- MCPlanResult
  Process = {"p", "q"}
  Isolated = FALSE
  MaxRuns = 3
  MaxEdits = 1
  MaxCrashes = 1
INVARIANTS SameRequestConverges
PROPERTIES ConflictIsUnfinished OnlyRacedEditsAreLost RunEnds
CHECK_DEADLOCK FALSE
