SPECIFICATION FairDriverSpec
CONSTANTS
  MemoryWords = 16
  DisplayOrigin = 15
  ByteCount = 16
  NewImages = {}
  Images = {}
  Programs = {}
  EntryPoints = {}
  HostWords = {}
  HostRegisters = {}
  HostAddrs = {}
  HistoryLimits = {}
  BreakpointSets = {}
  Budgets = {}
  InputWords = {5}
  MaxFed = 1
  MaxOutputs = 0
  DoneCap = 2
  Files <- MCFiles
  Origins <- MCOrigins
  Arguments <- MCArguments
  Slice = 2
  MaxPresses = 2
  CountCap = 4
INVARIANTS StartsAsMeant ReportsTruly FinalPicture
PROPERTIES BudgetKept PressEndsRun BudgetEndsRun
CHECK_DEADLOCK FALSE
