SPECIFICATION FairSpec
CONSTANTS
  Positions <- MCOneAxis
  Foreign <- MCForeign
  MaxVel <- MCMaxVel
  GaitEnabled = TRUE
  Period = 1
  Jump = 1
  MaxResets = 1
  MaxForeign = 1
INVARIANTS
  TypeOK
  OneSurvivesStart
PROPERTIES
  RestReachesPolicy
