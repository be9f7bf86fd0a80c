SPECIFICATION Spec
CONSTANTS
  MemoryWords = 4
  DisplayOrigin = 3
  NewImages = {}
  Images <- RewindImages
  Programs <- NoPrograms
  EntryPoints = {0}
  HostWords = {}
  HostRegisters = {}
  HostAddrs = {}
  HistoryLimits = {0, 11}
  BreakpointSets <- NoBreakpointSets
  Budgets = {}
  InputWords <- OneInput
  MaxFed = 1
  MaxOutputs = 1
  DoneCap = 1
INVARIANTS TypeOK JournalExact
PROPERTIES RewindsAlongTimeline StepBackExact PictureStaysRight
