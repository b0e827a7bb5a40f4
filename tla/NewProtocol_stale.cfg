SPECIFICATION Spec
CONSTANTS
  ddc0 = ddc0
  mic = mic
  wide = wide
  None = None
  Streams <- TwoStreams
  Ddcs <- DdcStreams
  Inline <- WidebandPort
  MaxSessions = 2
  MaxPackets = 2
  Unhurried = TRUE
INVARIANTS
  StoppedReceiverEnds
CHECK_DEADLOCK FALSE
