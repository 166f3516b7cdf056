CONSTANTS
  NumRows = 3
  MaxCalls = 1
  Inputs <- HollowTriangles
SPECIFICATION Spec
INVARIANT UnpairedAreEssential
CHECK_DEADLOCK FALSE
