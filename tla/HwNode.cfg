SPECIFICATION FairSpec
CONSTANTS
  Shortcuts = {{"X"}, {"Y"}, {"X", "Y"}}
  MaxPresses = 1
  MaxRequests = 1
INVARIANTS
  TypeOK
  EveryCallPending
  OneSwitchAtATime
PROPERTIES
  ImplementsCalls
  ModeHeard
CHECK_DEADLOCK FALSE
