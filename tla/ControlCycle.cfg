SPECIFICATION FairCycleSpec
CONSTANTS
  MaxMsgs = 2
  MaxTicks = 1
  RampSteps = 2
  ActionRange = 0
INVARIANTS
  CycleTypeOK
  ReadsConfirmedState
  CommandsHeldBack
  RampWithoutJump
PROPERTIES
  ReadsAdvance
  PosesAdvance
  StandReached
