SPECIFICATION Spec
CONSTANTS
  Runs = {1}
  User = "waits"
  Late = FALSE
  Flaky = FALSE
  Faulty = FALSE
  HeadersOn = TRUE
  AckIsOK = FALSE
  MaxRuns = 1
  MaxScreens = 1
  InitLen = 1
INVARIANT
  NoneMeansNone
CHECK_DEADLOCK FALSE
