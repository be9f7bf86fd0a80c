SPECIFICATION SessionSpec
CONSTANTS
  MemoryWords = 4
  DisplayOrigin = 3
  NewImages <- BothImages
  Images = {}
  Programs <- NoPrograms
  EntryPoints = {0}
  HostWords = {}
  HostRegisters = {}
  HostAddrs = {}
  HistoryLimits = {}
  BreakpointSets <- AnyBreakpoint
  Budgets = {2}
  InputWords = {5}
  MaxFed = 1
  MaxOutputs = 1
  DoneCap = 2
  Slice = 2
  HistoryLimit = 2
  MaxPresses = 2
  MaxContinues = 2
INVARIANTS StalePressDropped
CHECK_DEADLOCK FALSE
