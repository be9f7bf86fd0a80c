SPECIFICATION LintedSpec
CONSTANTS
  MemoryWords = 4
  DisplayOrigin = 3
  NewImages = {}
  Images = {}
  Programs = {}
  EntryPoints = {0}
  HostWords = {}
  HostRegisters = {}
  HostAddrs = {}
  HistoryLimits = {0}
  BreakpointSets = {}
  Budgets = {}
  InputWords = {5}
  MaxFed = 1
  MaxOutputs = 1
  DoneCap = 1
  Listings <- MCListings
INVARIANTS CleanProgramStaysInCode
PROPERTIES ImplementsISA ExecutionFollowsEdges
