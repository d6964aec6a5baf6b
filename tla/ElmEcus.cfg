SPECIFICATION Spec
CONSTANTS
  Ecus <- MCEcus
  CanId <- MCCanId
  PidData <- MCPidData
  Shows <- MCShows
  Stored <- MCStored
  Ops <- AllOps
  Makes = {"lincoln"}
  OemCodes <- MCOem
  GenericCodes <- MCGeneric
  MaxCalls = 1
  MaxOpens = 1
  MaxCuts = 0
  MaxLost = 0
  Pends = FALSE
INVARIANTS
  ScanReadsEveryPid
CHECK_DEADLOCK FALSE
