SPECIFICATION FairSpec
CONSTANTS
  Clients <- OneClient
  RxChannels = {0, 1}
  TxChannels = {2}
  Uses <- PairUses
  Unstarted <- Nothing
  CanCrash = TRUE
  IqThreads = {i1, i2}
  MaxMic = 0
  MaxTimers = 2
  MaxBinding = 2
  NoClient = NoClient
  NoChannel = NoChannel
  a = a
  b = b
PROPERTIES
  DisconnectCleansUp
CHECK_DEADLOCK FALSE
