SPECIFICATION CheckSpec
CONSTANTS
  Timeout = 2
  FetchTimeout = 1
  Pause = 1
  PortRace = FALSE
  StartTimeout = 2
  CommandTimeout = 4
  Contracts <- MCContracts
INVARIANTS ImplementedIsAccepted
CHECK_DEADLOCK FALSE
