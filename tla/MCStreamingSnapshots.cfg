CONSTANTS
  WindowSize = 2
  StorageCapacity = 4
  Words = {lo, hi}
  MaxPoints = 5
SPECIFICATION Spec
INVARIANT SnapshotsAreAtomic
CHECK_DEADLOCK FALSE
