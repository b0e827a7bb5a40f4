SPECIFICATION ClientSpec
CONSTANTS
  MaxSize = 4
  Threshold = 2
  PacketSize = 2
  FrameSize = 2
  PullInGui = TRUE
  MaxPackets = 4
  MaxClears = 2
  StreamsKinds = {"server", "audio"}
  StreamsRadios = 1
  StreamsSound = FALSE
  StreamsMaxFrames = 2
  StreamsMaxTries = 2
  ScopeReceiver = 0
  ScopeSlots = 2
  ScopeBands = {"b20", "b40"}
  ScopeTunings = {20}
  ScopePassbands <- LowerSideband
  ScopeDrags = {1}
  ScopeSquelchOn = FALSE
  ScopeRemote = FALSE
  ScopeWide = FALSE
  ScopeMaxAdds = 2
  ScopeMaxFo = 21
  WidgetsReceivers <- TwoReceivers
  WidgetsTransmitter = 3
  WidgetsKnobs <- OneOfEach
  WidgetsValues = {0, 1}
  WidgetsDefault = 0
  WidgetsAgcModes = {"slow", "long"}
  WidgetsMaxChanges = 4
  RigReceivers = {0, 1}
  RigPaired = 0
  RigLines <- SomeLines
  RigMaxLines = 1
  TuneBands <- Used
  TuneLimits <- UsedLimits
  TuneMemories <- UsedMemories
  TuneDefaults <- UsedStacks
  TuneFirstBand = "b40"
  TuneModes = {"CWL", "LSB", "AM"}
  TuneFilterIds = {3, 4, 5, 10}
  TuneFrequencies = {7050000, 3520000}
  TuneSteps = {100000}
  TuneCwPitch = 600
  TuneSavedB = 7050000
  TuneMaxActions = 3
INVARIANTS
  PermitsBacked
  DecoderNeverWaits
  Framed
  ItemsMatch
  
  ShownIsTold
  
PROPERTIES
  
  ImplementsFifo
  MemoriesKept
CHECK_DEADLOCK FALSE
