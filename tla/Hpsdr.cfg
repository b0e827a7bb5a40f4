SPECIFICATION HpSpec
CONSTANTS
  ddc0 = ddc0
  mic = mic
  metis = metis
  orion = orion
  None = None
  Streams <- TwoStreams
  Ddcs <- DdcStreams
  Inline <- NoPort
  MaxSessions = 1
  MaxPackets = 2
  Unhurried = FALSE
  PacketsRx = {0, 1}
  PacketsFreqs = {7}
  PacketsRates = {}
  PacketsAntennas = {}
  PacketsDrives = {}
  PacketsSwitched = {}
  PacketsDevices = {"ORION2"}
  PacketsMaxSettings = 1
  PacketsMaxKeys = 1
  PacketsMaxLost = 1
  SearchInterfaces <- BothInterfaces
  SearchLastLooked = "eno1"
  SearchRadios = {metis, orion}
  SearchProtocol <- ProtocolOf
  SearchReach <- ReachOf
  SearchFixed = metis
  SearchUnreachable = {}
  SearchMaxDevices = 3
  SearchMaxLate = 1
  SearchNone = None

  
PROPERTIES
  
  
  TableSettles
CHECK_DEADLOCK FALSE
