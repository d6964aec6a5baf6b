SPECIFICATION UnlockSpec
CONSTANTS
  Sids = {securityAccess}
  MaxCalls = 3
  MaxPending = 1
  EcuMaxPending = 1
  Endless = TRUE
  RxCap = 2
  Late = TRUE
  Lossy = TRUE
  Faulty = TRUE
  PendsSuppressed = FALSE
INVARIANTS
  UnlockTypeOK
  QuietAttemptIsRight
  QuietSeedMakesQuietKey
  KeyFitsSeed
PROPERTY
  UnlockEnds
CHECK_DEADLOCK FALSE
