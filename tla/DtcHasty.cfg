SPECIFICATION Spec
CONSTANTS
  Runs = {1,2}
  User = "hasty"
  Late = TRUE
  Flaky = TRUE
  Faulty = TRUE
  HeadersOn = FALSE
  AckIsOK = TRUE
  MaxRuns = 2
  MaxScreens = 2
  InitLen = 1
INVARIANTS
  ClearAfterCodes
  DoneLast
  PortReleased
PROPERTY
  EveryRunEnds
CHECK_DEADLOCK FALSE
