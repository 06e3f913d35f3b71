SPECIFICATION FairSpec
CONSTANTS
  MaxTicks = 2
INVARIANTS
  TypeOK
  PartsArePrepared
  ObjectOutlivesUse
PROPERTIES
  BringUpEnds
CHECK_DEADLOCK FALSE
