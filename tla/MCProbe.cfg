SPECIFICATION CheckFairSpec
CONSTANTS
  Timeout = 4
  FetchTimeout = 2
  Pause = 1
  PortRace = TRUE
  StartTimeout = 2
  CommandTimeout = 4
  Contracts <- MCContracts
INVARIANTS CheckTypeOK ReturnsInTime ServingIsSeen NotStartedIsError CheckIsRight
PROPERTIES ChecksEnd
CHECK_DEADLOCK FALSE
