CONSTANTS
  NumColumns = 3
  NumRows = 8
  Matrices <- Samples
  Plans <- Programs
  MaxRanks = 2
  MaxJobs = 3
  MaxBytes = 80
SPECIFICATION Spec
INVARIANT RestoredIsGlobal
