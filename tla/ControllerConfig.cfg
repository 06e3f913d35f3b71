SPECIFICATION Spec
CONSTANTS
  Configs <- MCConfigs
  KindOf <- MCKindOf
INVARIANTS
  ConsistentIsSound
  IndexMapMatches
CHECK_DEADLOCK FALSE
