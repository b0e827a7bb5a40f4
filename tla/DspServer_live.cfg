SPECIFICATION FairSpec
CONSTANTS
  Clients <- TwoClients
  RxChannels = {0}
  TxChannels = {2}
  Uses <- SplitUses
  Unstarted <- Nothing
  CanCrash = FALSE
  IqThreads = {i1}
  MaxMic = 0
  MaxTimers = 2
  MaxBinding = 2
  NoClient = NoClient
  NoChannel = NoChannel
  a = a
  b = b
PROPERTIES
  CommandsComplete
  DisconnectCleansUp
CHECK_DEADLOCK FALSE
