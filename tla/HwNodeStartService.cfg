SPECIFICATION FairSpec
CONSTANTS
  Shortcuts = {{"X"}, {"Y"}, {"X", "Y"}}
  MaxPresses = 0
  MaxRequests = 1
PROPERTIES
  StartServiceAnswered
CHECK_DEADLOCK FALSE
