SPECIFICATION Spec
CONSTANTS
  PacketCap = 3
  EdCap = 2
  IncidentCap = 1
  ProbeCap = 2
  HALogCap = 1
  RflCap = 4
  BigEvery = 2
  MiscEvery = 2
  KeepBuckets = 3
  MinFrames = 2
  OuiUnit = 1000
  Vendors <- MCVendors
  HATargets = {"ha1", "ha2"}
  Bridges = {"b1"}
  Nowhere = "nowhere"
  Answers <- MCAnswers
  MaxConnects = 3
  Frames <- MCFrames
  Pauses <- MCPauses
  StartTime = 100000
  Past <- MCPast
  Silences = {60}
  Backup <- MCBackup
  Pans = {100}
  MaxOps = 7
  Magic0 = 7
  Magic1 = 8
  Ver = 1
  MaxPayload = 4
  HeaderLen <- MCHeaderLen
  FrameType = 1
  SpectrumType = 9
  FftAt = 1
  ScaleAt = 2
  MaxFft = 2
  Traffic <- MCTraffic
  Noise = {0, 2, 7, 4}
  MaxSent = 2
  MaxFaults = 1
  Home = 11
  Foreign = 12
  Ids = {0, 1}
  SdrIds = {0, 1}
  StartRoles = {"any"}
  MaxCalls = 2
  Radios = {0, 1}
  Plan <- MCPlan
  Bins = 8
  UsableHalf = 3
  DcBins = 0
  MaxGapFill = 1
  HistoryLen = 2
  MaxSweeps = 2
  Backup0 <- MCBackup0
  Hexes = {"key1", "key2"}
  MaxEdits = 4
  MaxDevs = 2
  ChipFrames = 1
  LogCap = 1
  SilentFor = 2
  Chips = {1, 2, 3}
  MaxTime = 3
CHECK_DEADLOCK FALSE
INVARIANTS HostTypeOK HostGoesWithShell TablesAgree TraceIsSweep NothingSkipped BorrowedComesBack
PROPERTIES DownIsSilent StatusSettles SettingsSurvive
