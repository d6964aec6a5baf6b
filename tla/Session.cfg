SPECIFICATION Spec
CONSTANTS
  Ecus <- MCEcus
  CanId <- MCCanId
  PidData <- MCPidData
  Shows <- MCShows
  Stored <- MCStored
  Ops <- AllOps
  Makes = {"lincoln"}
  OemCodes <- MCOem
  GenericCodes <- MCGeneric
  MaxCalls = 2
  MaxOpens = 2
  MaxCuts = 1
  MaxLost = 1
  Pends = FALSE
INVARIANTS
  SessionTypeOK
  OpenMeansReady
  CleanCallIsExact
  WholeOrShort
  AcksAreNotReused
  PidAnswersItsPid
PROPERTIES
  EveryExchangeAdvances
CHECK_DEADLOCK FALSE
