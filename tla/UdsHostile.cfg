SPECIFICATION Spec
CONSTANTS
  Sids = {read, write}
  MaxCalls = 3
  MaxPending = 1
  EcuMaxPending = 2
  Endless = FALSE
  RxCap = 9
  Late = TRUE
  Lossy = TRUE
  Faulty = TRUE
  PendsSuppressed = TRUE
INVARIANTS
  TypeOK
  QuietCallOwnAnswer
  AnswersInOrder
  NoAnswerTwice
CHECK_DEADLOCK FALSE
SYMMETRY SidSymmetry
