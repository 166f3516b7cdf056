CONSTANTS
  NumItems = 3
  MinCapacity = 3
  Owner = w0
  Thieves = {w1, w2}
  WindowSize = 2
  StorageCapacity = 4
  MaxPoints = 5
  Words = {lo, hi}
  QueueCapacity = 2
  BufferCapacity = 2
  SpanSize = 2
  MaxStarts = 2
  Workers = {v1, v2}
  NumBatchThreads = 1
  MaxEngineStarts = 3
  MaxBatchSize = 2
  MinBatchSize = 2
  MaxQueueSize = 2
  MaxItems = 4
  MaxOffers = 3
SPECIFICATION AllSpec
INVARIANTS
  SnapshotExactUnlessOverrun
  OnlyNewestMayBeMissing
  CutIntoBatches
PROPERTIES
  ImplementsDeque
  DequeDrained
  AddPointReturns
  IngestedIsStored
  AcceptedIsProcessed
  StopReturns
CHECK_DEADLOCK FALSE
