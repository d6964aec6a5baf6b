SPECIFICATION TimelySpec
CONSTANTS
  Sids = {read, write}
  MaxCalls = 3
  MaxPending = 2
  EcuMaxPending = 2
  Endless = FALSE
  RxCap = 9
  Late = FALSE
  Lossy = TRUE
  Faulty = FALSE
  PendsSuppressed = FALSE
INVARIANTS
  Truthful
  LeavesNothingBehind
  PatientUpToTheLimit
PROPERTY
  ImplementsContract
CHECK_DEADLOCK FALSE
