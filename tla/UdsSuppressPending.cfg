SPECIFICATION TimelySpec
CONSTANTS
  Sids = {read, write}
  MaxCalls = 2
  MaxPending = 2
  EcuMaxPending = 2
  Endless = FALSE
  RxCap = 9
  Late = FALSE
  Lossy = FALSE
  Faulty = FALSE
  PendsSuppressed = TRUE
INVARIANTS
  Truthful
CHECK_DEADLOCK FALSE
