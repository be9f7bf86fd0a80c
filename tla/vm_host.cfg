SPECIFICATION Spec
CONSTANTS
  MemoryWords = 4
  DisplayOrigin = 3
  NewImages = {}
  Images = {}
  Programs <- ShortPrograms
  EntryPoints = {0}
  HostWords <- PokedWords
  HostRegisters = {"Ir"}
  HostAddrs = {1}
  HistoryLimits = {0, 2}
  BreakpointSets <- SomeBreakpointSets
  Budgets = {0}
  InputWords <- OneInput
  MaxFed = 0
  MaxOutputs = 0
  DoneCap = 1
INVARIANT NoPanic
