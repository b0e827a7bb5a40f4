SPECIFICATION PartsSpec
CONSTANTS
  Clients <- TwoClients
  RxChannels = {0, 1}
  TxChannels = {2}
  Uses <- OwnUses
  Unstarted <- Nothing
  CanCrash = FALSE
  IqThreads = {i1, i2}
  MaxMic = 0
  MaxTimers = 2
  MaxBinding = 2
  NoClient = NoClient
  NoChannel = NoChannel
  a = a
  b = b
  SettingsRxChannels = {0, 1, 3}
  SettingsTxChannels = {2}
  SettingsRadioId <- RadioOfChannel
  SettingsCareful = TRUE
  SettingsKnobs = {"anf", "preTone"}
  SettingsMaxChanges = 1
  ScopeClients = {a, b}
  ScopeOrderly = TRUE
  ScopeMaxBuffers = 3
  ScopeNone = NoClient
  AudioClients = {1}
  AudioChannels = {0, 1}
  AudioBufferSize = 3
  AudioBatch = 2
  AudioOrderly = TRUE
  AudioMaxBuffers = 3
  LawRow = 256
  LinkControllers = {a, b, c}
  LinkReceivers = 1
  LinkMaxRadios = 2
  LinkMaxChannels = 5
  LinkNobody = NoClient
  CommandsTails = {0, 127}
  CommandsLongest = 5
  CommandsCapacity = 4
  CommandsMaxCommands = 2
  CommandsMaxAnswers = 1
  MicClients = {1}
  MicChannels = {2, 5}
  MicWide = {2}
  MicMaxThreads = 2
  MicMaxBlocks = 2
  MicMaxKeys = 1
INVARIANTS
  
  ChannelsOwned
  
  
  AlawClose
  
  LockStep
  
  SentInOrder
PROPERTIES
  ImplementsHolding
SYMMETRY ThreadSymmetry
CHECK_DEADLOCK FALSE
