SPECIFICATION FairSpec
CONSTANTS
  Shortcuts = {{"X", "Y"}}
  MaxPresses = 1
  MaxRequests = 1
PROPERTIES
  CallsReturn
  ComesUp
  ShutdownEnds
CHECK_DEADLOCK FALSE
