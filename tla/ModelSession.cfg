SPECIFICATION ClientSpec
CONSTANTS
  Objects = {"env", "policy", "encoder", "history", "options", "typeInfo", "shapeInfo", "policyInput", "memoryInfo", "inputTensor", "output"}
  Handles = {1, 2, 3, 4, 5, 6, 7, 8, 9, 10, 11, 12, 13, 14, 15, 16, 17, 18, 19, 20}
  Null = Null
  Exercised = {}
  MaxOutputs = 1
  MaxBare = 4
  MaxLoads = 2
INVARIANTS
  LifetimesNest
  OnlyModelsOutlive
PROPERTIES
  ModelStays
CHECK_DEADLOCK FALSE
