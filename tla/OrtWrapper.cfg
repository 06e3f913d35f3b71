SPECIFICATION Spec
CONSTANTS
  Objects = {o1, o2, o3}
  Handles = {1, 2, 3, 4, 5, 6}
  Null = Null
  Exercised = {{"Env", "Session", "IoBinding", "Value"},
               {"Value", "TypeInfo", "TensorTypeAndShapeInfo"},
               {"Memory", "Value"}}
  MaxOutputs = 2
  MaxBare = 1
SYMMETRY ObjectSymmetry
INVARIANTS
  Ownership
PROPERTIES
  ThrowLeavesNothing
CHECK_DEADLOCK FALSE
