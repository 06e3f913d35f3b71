SPECIFICATION Spec
CONSTANTS
  Decimation = 3
  HistLen = 2
  StandSteps = 2
  MaxVx = 1
  Sticks = {0, 2}
INVARIANTS
  PolicyCommandNeedsWalk
