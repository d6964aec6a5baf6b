SPECIFICATION Spec
CONSTANTS
  Languages = {"uds", "kwp"}
  UdsCalls <- MCUdsCalls
  KwpCalls <- MCKwpCalls
  EcuData <- MCData
  MaxSteps = 3
  Pendings = 2
  MaxDisturbed = 2
  MaxPending = 1
  SimCodes <- MCSimCodes
  SimRequests <- MCSimRequests
  SimVin <- MCSimVin
  MaxStarts = 2
  MaxAsks = 2
  RealVins <- MCVins
  Typos <- Alphabet
  YearOf <- MCYearOf
  MaxSessions = 2
  MaxSaves = 3
  MaxWorkers = 2
INVARIANTS
  ReadsBack
  CodesAreTheEcus
  RepliesAreAwaited
  SlipsShow
  YearsApart
  StopIsClean
  AnswersAgree
  LogTypeOK
  ExportIsTheSession
  CleanExitLeavesNothing
CHECK_DEADLOCK FALSE
