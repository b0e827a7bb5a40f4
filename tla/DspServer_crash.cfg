SPECIFICATION Spec
CONSTANTS
  Clients <- TwoClients
  RxChannels = {0}
  TxChannels = {2}
  Uses <- SharedUses
  Unstarted <- Nothing
  CanCrash = TRUE
  IqThreads = {i1, i2}
  MaxMic = 1
  MaxTimers = 2
  MaxBinding = 2
  NoClient = NoClient
  NoChannel = NoChannel
  a = a
  b = b
INVARIANTS
  ActiveCountsMatch
  IqConservation
PROPERTIES
  AttachedStreamNeverCut
SYMMETRY ThreadSymmetry
CHECK_DEADLOCK FALSE
