SPECIFICATION MCSpec
CONSTANTS
  Runs = {1, 2, 3, 4, 5}
  InitCmds = 0
  Labels <- MCLabels
  Supported = {"Vehicle Speed", "Coolant Temp"}
  MaxLate = 1
  Makes = {Audi, BMW}
  MaxScreens = 5
SYMMETRY Symmetry
INVARIANTS
  LiveValuesAreTheirs
  ScreensKeepTheirWord
  IdleLooksIdle
CHECK_DEADLOCK FALSE
