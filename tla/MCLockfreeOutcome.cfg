CONSTANTS
  NumColumns = 4
  NumRows = 4
  NumThreads = 2
  NumFiltrationValues = 4
  Inputs <- GraphMatrices
SPECIFICATION Spec
INVARIANTS
  PrefixSpansKept
  BirthsMatchSequential
PROPERTIES
  ApparentPairsFinal
