CONSTANTS
  NumThreads = 2
  Clients = {c1, c2}
  Tasks = {t1, t2}
  Failing = {t2}
  NoTask = NoTask
  Free = Free
SYMMETRY ClientSymmetry
SPECIFICATION Spec
INVARIANTS
  WaitIsExact
PROPERTIES
  ImplementsPool
