CONSTANTS
  NumRows = 10
  MaxCalls = 2
  Inputs <- AllMatrices
  NumThreads = 2
  Clients = {c1}
  Tasks = {t1, t2}
  Failing = {t2}
  NoTask = NoTask
  Free = Free
SPECIFICATION AllSpec
INVARIANTS
  FinitePairsComplete
  OnlyEssentialsAreHidden
  SecondResultExact
PROPERTIES
  EveryCallReturns
  AcceptedRuns
  WaitEnds
  WorkersLeave
CHECK_DEADLOCK FALSE
