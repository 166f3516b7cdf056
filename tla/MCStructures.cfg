CONSTANTS
  Threads = {a, b}
  Items = {x, y}
  None = None
  Capacity = 2
  MaxEnqueues = 4
  Pivots = {0, 1, 2}
  Columns = {7, 8}
  NumTasks = 4
  Owner = o
  Thieves = {h1, h2}
  Probe <- TwoSlots
  NumThreads = 2
  NumColumns = 2
  MaxClaims = 3
  Symbols = {s1, s2}
  MaxEntries = 2
  MaxPuts = 5
SPECIFICATION AllSpec
INVARIANTS
  OneSlotPerPivot
  InsertedIsFound
  TasksAccounted
  ReducedCountExact
  NobodyIsTrue
  EvictedStaysAway
PROPERTIES
  ImplementsQueue
  RefusalsJustified
  OnlyPendingDestroyed
