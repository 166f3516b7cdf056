CONSTANTS
  NumThreads = 1
  Clients = {c1}
  Tasks = {t1, t2}
  Failing = {}
  NoTask = NoTask
  Free = Free
SPECIFICATION Spec
INVARIANT ShutdownDrains
