CONSTANTS
  NumColumns = 4
  NumRows = 3
  NumThreads = 3
  NumFiltrationValues = 3
  Inputs <- LateVertex
SPECIFICATION Spec
INVARIANTS
  ColumnsHandedOutOnce
  OwnerHasPivot
  AddedColumnIsSettled
  LowestIndexOwns
  ExitMeansAllReduced
PROPERTIES
  OwnersOnlyDecrease
  Termination
