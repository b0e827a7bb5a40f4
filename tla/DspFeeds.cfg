SPECIFICATION FeedsSpec
CONSTANTS
  c1 = c1
  c2 = c2
  None = None
PROPERTIES
  ClientsFed
  MicDrains
CHECK_DEADLOCK FALSE
