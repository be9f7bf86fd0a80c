SPECIFICATION DeviceSpec
CONSTANTS
  MemoryWords = 4
  DisplayOrigin = 3
  NewImages = {}
  Images <- EchoImages
  Programs <- NoPrograms
  EntryPoints = {0}
  HostWords = {}
  HostRegisters = {}
  HostAddrs = {}
  HistoryLimits = {8}
  BreakpointSets = {}
  Budgets = {}
  InputWords <- TwoInputs
  MaxFed = 2
  MaxOutputs = 2
  DoneCap = 1
  Kinds = {"VecIo", "Flaky", "StdinIo", "ReplayIo"}
  Stall = 1
INVARIANTS DeviceGuarantee ReplaysWhatWasRead
PROPERTIES InputsConserved RewindsOverDevice
CHECK_DEADLOCK FALSE
