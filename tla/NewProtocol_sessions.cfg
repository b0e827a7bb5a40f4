SPECIFICATION Spec
CONSTANTS
  ddc0 = ddc0
  mic = mic
  wide = wide
  None = None
  Streams <- OneStream
  Ddcs <- NoPort
  Inline <- WidebandPort
  MaxSessions = 2
  MaxPackets = 3
  Unhurried = TRUE
INVARIANTS
  OneTurn
  BuffersOwned
PROPERTIES
  SlotsInOrder
CHECK_DEADLOCK FALSE
