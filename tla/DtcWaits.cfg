SPECIFICATION Spec
CONSTANTS
  Runs = {1,2,3}
  User = "waits"
  Late = FALSE
  Flaky = FALSE
  Faulty = TRUE
  HeadersOn = FALSE
  AckIsOK = TRUE
  MaxRuns = 3
  MaxScreens = 2
  InitLen = 2
INVARIANTS
  DtcTypeOK
  ShownIsTrue
  SpinnerTracksRuns
CHECK_DEADLOCK FALSE
