SPECIFICATION FairSessionSpec
CONSTANTS
  Decimation = 3
  HistLen = 3
  StandSteps = 2
  MaxVx = 1
  Sticks = {0, 2}
INVARIANTS
  TypeOK
  StartClean
  PolicyNeedsWalk
  IdleDamped
  FreshWithinDecimation
  NoForeignHistory
PROPERTIES
  WalkReachesPolicy
  ImplementsSession
  EveryCycleEnds
