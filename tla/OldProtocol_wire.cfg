SPECIFICATION FairSpec
CONSTANTS
  Rx = {0, 1}
  Freqs = {7}
  Rates = {96}
  Antennas = {1}
  Drives = {}
  Switched = {}
  Devices = {"ANGELIA"}
  Orderly = TRUE
  MaxStarts = 2
  MaxSettings = 1
  Unit = 6

  
PROPERTIES
  SettingsArrive
  
CHECK_DEADLOCK FALSE
