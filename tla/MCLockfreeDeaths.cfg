CONSTANTS
  NumColumns = 6
  NumRows = 3
  NumThreads = 1
  NumFiltrationValues = 6
  Inputs <- HollowTriangle
SPECIFICATION Spec
INVARIANT DeathsAreNegative
